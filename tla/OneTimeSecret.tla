---------------------------- MODULE OneTimeSecret ----------------------------
(***************************************************************************)
(* What a secret that is to be used once promises, whatever it is for and  *)
(* wherever it is kept: a request that uses it was shown it while it was   *)
(* open, it is opened once, and it is not open again after it was used or  *)
(* given up.                                                               *)
(***************************************************************************)
EXTENDS FiniteSets

CONSTANTS Secret, Worker

VARIABLES
    phase,         \* of each secret
    holders        \* the requests that were shown it while it was open

Init ==
    /\ phase = [s \in Secret |-> "unissued"]
    /\ holders = [s \in Secret |-> {}]

Become(s, next) == phase' = [phase EXCEPT ![s] = next]
Release(w, s) == holders' = [holders EXCEPT ![s] = @ \ {w}]

Issue(s) ==
    /\ phase[s] = "unissued" /\ Become(s, "open")
    /\ UNCHANGED holders

Take(w, s) ==
    /\ phase[s] = "open"
    /\ holders' = [holders EXCEPT ![s] = @ \cup {w}]
    /\ UNCHANGED phase

Use(w, s) ==
    /\ w \in holders[s]
    /\ Become(s, "used") /\ Release(w, s)

Drop(w, s) == Release(w, s) /\ UNCHANGED phase

\* A request that finds the secret unusable may be the one that gives it up.
GiveUp(s) ==
    /\ phase[s] \in {"unissued", "open"} /\ Become(s, "gone")
    /\ holders' \in {holders} \cup {[holders EXCEPT ![s] = @ \ {w}] : w \in Worker}

Next == \E s \in Secret :
    \/ Issue(s) \/ GiveUp(s)
    \/ \E w \in Worker : Take(w, s) \/ Use(w, s) \/ Drop(w, s)

Spec == Init /\ [][Next]_<<phase, holders>>
=============================================================================
