------------------------- MODULE EdgeServicesProofs -------------------------
(***************************************************************************)
(* Proofs about events and the services at the edge that most of them are  *)
(* for.  First EventDelivery: for any events, services and number of       *)
(* attempts, and without a bound on faults, crashes, requests and replays. *)
(* Then EdgeServices, part by part: for any profiles, links, recipients,   *)
(* notices, scopes, days, facts, institutions and snapshots, and any       *)
(* number of requests, handlers and faults.  The two specifications share  *)
(* no action: a theorem is about the one its hypothesis names.             *)
(***************************************************************************)
EXTENDS EdgeServices, EventDelivery, SequenceTheorems, FunctionTheorems, FiniteSetTheorems,
        WellFoundedInduction, TLAPS

-----------------------------------------------------------------------------
(* The delivery of events *)

Busy == [pc : Step, offset : Nat, message : Message]

Occupied(w) == worker[w].pc \in Step

\* A consumer is at no smaller offset than its group has committed, and what it handles
\* is the message after it.
OffsetsKept ==
    \A w \in Consumer :
        /\ committed[w] <= worker[w].offset /\ worker[w].offset <= Len(log[w])
        /\ At(w, "down") => worker[w].offset = committed[w]
        /\ Occupied(w) =>
              /\ worker[w].offset < Len(log[w])
              /\ worker[w].message = log[w][worker[w].offset + 1]

\* The attempts that a message counts were failures of the handler.
AttemptsBacked ==
    \A t \in Topic : \A i \in DOMAIN log[t] :
        failures[log[t][i].event] >= log[t][i].attempts

FailureCounted ==
    \A w \in Consumer :
        At(w, "failed") => failures[Current(w)] >= worker[w].message.attempts + 1

\* How the record of an event and its effect go together in each service.
RecordsKept ==
    /\ \A e \in Event \ recorded : applied[e] = 0
    /\ service # "progress" => \A e \in recorded : applied[e] > 0
    /\ \A w \in Worker : At(w, "apply") =>
          /\ service = "progress"
          /\ Current(w) \in recorded /\ applied[Current(w)] = 0
          /\ \A v \in Worker : At(v, "apply") /\ Current(v) = Current(w) => v = w
    /\ \A w \in Worker : At(w, "publish") /\ service # "progress" => applied[Current(w)] > 0

\* A message of e that is ahead of its consumer, and that it is not done with.
Awaiting(e) ==
    \E t \in Consumer : \E i \in DOMAIN log[t] :
        /\ i > worker[t].offset /\ log[t][i].event = e
        /\ ~(i = worker[t].offset + 1 /\ At(t, "done"))

Settled(e) == e \in lost \cup skipped \/ applied[e] > 0 \/ Has("dlq", e) \/ Awaiting(e)

NothingLost == service # "progress" => \A e \in Event : Has("base", e) => Settled(e)

AttemptsInv == AttemptsBacked /\ FailureCounted /\ GivenUpAfterAllAttempts

RecordsInv == RecordsKept /\ UniqueEventIdAppliedAtMostOnce

IInv == TypeOK /\ OffsetsKept /\ AttemptsInv /\ RecordsInv /\ NothingLost

-----------------------------------------------------------------------------
(* Workers and topics *)

LEMMA BusyWorker ==
    ASSUME TypeOK, NEW w \in Worker, Occupied(w)
    PROVE  /\ worker[w] \in Busy
           /\ worker[w].message \in Message /\ Current(w) \in Event
           /\ worker[w].message.attempts \in Nat /\ worker[w].offset \in Nat
BY DEF TypeOK, WorkerState, Busy, Occupied, Step, Current, Message

LEMMA OffsetTyped ==
    ASSUME TypeOK, NEW w \in Worker
    PROVE  worker[w].offset \in Nat
BY DEF TypeOK, WorkerState

LEMMA BusyGoesOn ==
    ASSUME NEW r \in Busy, NEW pc \in Step
    PROVE  /\ [r EXCEPT !.pc = pc] \in Busy
           /\ [r EXCEPT !.pc = pc].pc = pc
           /\ [r EXCEPT !.pc = pc].message = r.message
           /\ [r EXCEPT !.pc = pc].offset = r.offset
BY DEF Busy

LEMMA GotoMoves ==
    ASSUME TypeOK, NEW w \in Worker, Occupied(w), NEW pc \in Step, Goto(w, pc)
    PROVE  /\ worker' \in [Worker -> WorkerState]
           /\ worker'[w].pc = pc
           /\ worker'[w].message = worker[w].message /\ worker'[w].offset = worker[w].offset
           /\ \A v \in Worker \ {w} : worker'[v] = worker[v]
<1>1. worker[w] \in Busy /\ worker \in [Worker -> WorkerState]
  BY BusyWorker DEF TypeOK
<1> DEFINE r == [worker[w] EXCEPT !.pc = pc]
<1>2. worker' = [worker EXCEPT ![w] = r]
  BY DEF Goto
<1>3. /\ r \in Busy /\ r.pc = pc
      /\ r.message = worker[w].message /\ r.offset = worker[w].offset
  BY <1>1, BusyGoesOn
<1>4. Busy \subseteq WorkerState
  BY DEF Busy, WorkerState
<1> HIDE DEF r
<1> QED
  BY <1>1, <1>2, <1>3, <1>4

\* A topic only grows.
Grows ==
    \A t \in Topic :
        /\ log'[t] \in Seq(Message) /\ Len(log[t]) <= Len(log'[t])
        /\ \A i \in DOMAIN log[t] : i \in DOMAIN log'[t] /\ log'[t][i] = log[t][i]

LEMMA TopicShape ==
    ASSUME TypeOK, NEW t \in Topic
    PROVE  /\ log[t] \in Seq(Message) /\ Len(log[t]) \in Nat
           /\ DOMAIN log[t] = 1 .. Len(log[t])
           /\ \A i \in DOMAIN log[t] :
                 log[t][i] \in Message /\ log[t][i].event \in Event /\ log[t][i].attempts \in Nat
<1>1. log[t] \in Seq(Message)
  BY DEF TypeOK
<1>2. Len(log[t]) \in Nat /\ DOMAIN log[t] = 1 .. Len(log[t])
  BY <1>1, LenProperties
<1>3. \A i \in DOMAIN log[t] : log[t][i] \in Message
  BY <1>1, <1>2, ElementOfSeq
<1> QED
  BY <1>1, <1>2, <1>3 DEF Message

LEMMA UnchangedGrows ==
    ASSUME TypeOK, UNCHANGED log
    PROVE  Grows
BY TopicShape DEF Grows, TypeOK

LEMMA SendGrows ==
    ASSUME TypeOK, NEW t \in Topic, NEW e \in Event, NEW n \in Nat, Send(t, e, n)
    PROVE  /\ log' \in [Topic -> Seq(Message)] /\ Grows
           /\ \A u \in Topic \ {t} : log'[u] = log[u]
           /\ Len(log'[t]) = Len(log[t]) + 1 /\ DOMAIN log'[t] = 1 .. Len(log[t]) + 1
           /\ log'[t][Len(log[t]) + 1] = [event |-> e, attempts |-> n]
<1> DEFINE m == [event |-> e, attempts |-> n]
<1>1. m \in Message /\ log \in [Topic -> Seq(Message)]
  BY DEF Message, TypeOK
<1>2. log' = [log EXCEPT ![t] = Append(log[t], m)]
  BY DEF Send
<1>3. /\ Append(log[t], m) \in Seq(Message) /\ Len(Append(log[t], m)) = Len(log[t]) + 1
      /\ \A i \in 1 .. Len(log[t]) : Append(log[t], m)[i] = log[t][i]
      /\ Append(log[t], m)[Len(log[t]) + 1] = m
  BY <1>1, AppendProperties
<1>4. log'[t] = Append(log[t], m) /\ \A u \in Topic \ {t} : log'[u] = log[u]
  BY <1>1, <1>2
<1>5. DOMAIN log'[t] = 1 .. Len(log[t]) + 1
  BY <1>3, <1>4
<1>6. ASSUME NEW u \in Topic
      PROVE  /\ log'[u] \in Seq(Message) /\ Len(log[u]) <= Len(log'[u])
             /\ \A i \in DOMAIN log[u] : i \in DOMAIN log'[u] /\ log'[u][i] = log[u][i]
  <2>1. /\ log[u] \in Seq(Message) /\ Len(log[u]) \in Nat
        /\ DOMAIN log[u] = 1 .. Len(log[u])
    BY TopicShape
  <2>2. CASE u = t
    <3>1. \A i \in 1 .. Len(log[t]) : i \in 1 .. Len(log[t]) + 1
      BY <2>1, <2>2
    <3>2. log'[t] \in Seq(Message) /\ Len(log'[t]) = Len(log[t]) + 1
      BY <1>3, <1>4
    <3>3. Len(log[t]) <= Len(log'[t])
      BY <2>1, <2>2, <3>2
    <3>4. \A i \in 1 .. Len(log[t]) : log'[t][i] = log[t][i]
      BY <1>3, <1>4
    <3> QED
      BY <1>5, <2>1, <2>2, <3>1, <3>2, <3>3, <3>4
  <2>3. CASE u # t
    BY <1>4, <2>1, <2>3
  <2> QED
    BY <2>2, <2>3
<1>7. Grows
  BY <1>6 DEF Grows
<1> QED
  BY <1>1, <1>2, <1>3, <1>4, <1>5, <1>7

-----------------------------------------------------------------------------
(* What keeps each part of the invariant *)

\* A worker that goes on has the message it had.
KeepsMessage(w) ==
    /\ worker'[w].offset = worker[w].offset
    /\ worker'[w].pc = "down" => At(w, "down")
    /\ worker'[w].pc \in Step =>
          Occupied(w) /\ worker'[w].message = worker[w].message

LEMMA OffsetsStep ==
    ASSUME TypeOK, OffsetsKept, Grows, committed' = committed,
           \A w \in Consumer : KeepsMessage(w)
    PROVE  OffsetsKept'
<1> SUFFICES ASSUME NEW w \in Consumer
             PROVE  /\ committed'[w] <= worker'[w].offset /\ worker'[w].offset <= Len(log'[w])
                    /\ worker'[w].pc = "down" => worker'[w].offset = committed'[w]
                    /\ worker'[w].pc \in Step =>
                          /\ worker'[w].offset < Len(log'[w])
                          /\ worker'[w].message = log'[w][worker'[w].offset + 1]
  BY DEF OffsetsKept, At, Occupied
<1>1. w \in Topic /\ worker[w].offset \in Nat
  BY OffsetTyped DEF Topic, Worker
<1>2. /\ Len(log[w]) \in Nat /\ DOMAIN log[w] = 1 .. Len(log[w])
      /\ Len(log'[w]) \in Nat /\ Len(log[w]) <= Len(log'[w])
      /\ \A i \in DOMAIN log[w] : log'[w][i] = log[w][i]
  BY <1>1, TopicShape, LenProperties DEF Grows
<1>3. CASE worker'[w].pc \in Step
  <2>1. worker[w].offset < Len(log[w]) /\ worker[w].message = log[w][worker[w].offset + 1]
    BY <1>3 DEF OffsetsKept, KeepsMessage
  <2>2. worker[w].offset + 1 \in DOMAIN log[w]
    BY <1>1, <1>2, <2>1
  <2>3. log'[w][worker[w].offset + 1] = log[w][worker[w].offset + 1]
    BY <1>2, <2>2
  <2> QED
    BY <1>1, <1>2, <1>3, <2>1, <2>3 DEF OffsetsKept, KeepsMessage, At
<1>4. worker[w].offset <= Len(log'[w])
  BY <1>1, <1>2 DEF OffsetsKept
<1> QED
  BY <1>3, <1>4 DEF OffsetsKept, KeepsMessage, At

\* Attempts stay backed if those of new messages and of new failures are.
LEMMA AttemptsStep ==
    ASSUME TypeOK, TypeOK', Grows, AttemptsInv,
           \A e \in Event : failures[e] <= failures'[e],
           \A t \in Topic : \A i \in DOMAIN log'[t] \ DOMAIN log[t] :
              /\ failures'[log'[t][i].event] >= log'[t][i].attempts
              /\ t = "dlq" => failures'[log'[t][i].event] >= MaxAttempts,
           \A w \in Consumer : worker'[w].pc = "failed" =>
              \/ At(w, "failed") /\ worker'[w].message = worker[w].message
              \/ failures'[worker'[w].message.event] >= worker'[w].message.attempts + 1
    PROVE  AttemptsInv'
<1>0. /\ \A e \in Event : failures[e] \in Nat /\ failures'[e] \in Nat
      /\ MaxAttempts \in Nat
  BY BoundsAssumption DEF TypeOK
<1>1. ASSUME NEW t \in Topic, NEW i \in DOMAIN log'[t]
      PROVE  failures'[log'[t][i].event] >= log'[t][i].attempts
  <2>1. CASE i \in DOMAIN log[t]
    <3>1. /\ log'[t][i] = log[t][i] /\ log[t][i].event \in Event
          /\ log[t][i].attempts \in Nat
      BY <2>1, TopicShape DEF Grows
    <3>2. failures[log[t][i].event] >= log[t][i].attempts
      BY <2>1 DEF AttemptsInv, AttemptsBacked
    <3>3. failures[log[t][i].event] <= failures'[log[t][i].event]
      BY <3>1
    <3> DEFINE e == log[t][i].event
               n == log[t][i].attempts
    <3>4. failures[e] \in Nat /\ failures'[e] \in Nat /\ n \in Nat
      BY <1>0, <3>1
    <3>5. failures'[e] >= n
      <4> HIDE DEF e, n
      <4> QED
        BY <3>2, <3>3, <3>4 DEF e, n
    <3> QED
      BY <3>1, <3>5
  <2> QED
    BY <2>1
<1>2. ASSUME NEW w \in Consumer, worker'[w].pc = "failed"
      PROVE  failures'[worker'[w].message.event] >= worker'[w].message.attempts + 1
  <2>1. CASE At(w, "failed") /\ worker'[w].message = worker[w].message
    <3> DEFINE e == worker[w].message.event
               n == worker[w].message.attempts
    <3>1. e \in Event /\ n \in Nat
      BY <2>1, BusyWorker DEF Worker, At, Current, Occupied, Step
    <3>2. failures[e] >= n + 1
      BY <2>1 DEF AttemptsInv, FailureCounted, Current
    <3>3. failures[e] <= failures'[e] /\ failures[e] \in Nat /\ failures'[e] \in Nat
      BY <1>0, <3>1
    <3>4. failures'[e] >= n + 1
      <4> HIDE DEF e, n
      <4> QED
        BY <3>1, <3>2, <3>3
    <3> QED
      BY <2>1, <3>4
  <2> QED
    BY <1>2, <2>1
<1>3. ASSUME NEW i \in DOMAIN log'["dlq"]
      PROVE  failures'[log'["dlq"][i].event] >= MaxAttempts
  <2>0. "dlq" \in Topic
    BY DEF Topic
  <2>1. CASE i \in DOMAIN log["dlq"]
    <3> DEFINE e == log["dlq"][i].event
    <3>1. log'["dlq"][i] = log["dlq"][i] /\ e \in Event
      BY <2>0, <2>1, TopicShape DEF Grows
    <3>2. failures[e] >= MaxAttempts
      BY <2>1, <3>1 DEF AttemptsInv, GivenUpAfterAllAttempts, Has
    <3>3. failures[e] <= failures'[e] /\ failures[e] \in Nat /\ failures'[e] \in Nat
      BY <1>0, <3>1
    <3>4. failures'[e] >= MaxAttempts
      <4> HIDE DEF e
      <4> QED
        BY <1>0, <3>2, <3>3
    <3> QED
      BY <3>1, <3>4
  <2> QED
    BY <2>0, <2>1
<1>4. AttemptsBacked'
  BY <1>1 DEF AttemptsBacked
<1>5. FailureCounted'
  BY <1>2 DEF FailureCounted, Current, At
<1>6. GivenUpAfterAllAttempts'
  BY <1>3 DEF GivenUpAfterAllAttempts, Has
<1> QED
  BY <1>4, <1>5, <1>6 DEF AttemptsInv

LEMMA RecordsSame ==
    ASSUME RecordsInv, UNCHANGED <<service, recorded, applied>>,
           \A w \in Worker : worker'[w].pc \in {"apply", "publish"} =>
              worker'[w].pc = worker[w].pc /\ worker'[w].message = worker[w].message
    PROVE  RecordsInv'
BY DEF RecordsInv, RecordsKept, UniqueEventIdAppliedAtMostOnce, AppliedAtMostOnce, At, Current

LEMMA GrowsKeepsHas ==
    ASSUME Grows, NEW t \in Topic, NEW e, Has(t, e)
    PROVE  Has(t, e)'
BY DEF Grows, Has

\* No consumer moves on to the next message.
Stays == \A v \in Consumer : worker'[v].offset <= worker[v].offset

\* While consumers stay, a message waits until its own consumer is done with it.
LEMMA AwaitingStep ==
    ASSUME TypeOK, TypeOK', OffsetsKept, Grows, NothingLost, Stays,
           service' = service, lost \subseteq lost', skipped \subseteq skipped',
           \A e \in Event : applied[e] <= applied'[e],
           NEW w \in Worker,
           \A v \in Consumer \ {w} : worker'[v].pc = "done" => At(v, "done"),
           service # "progress" /\ w \in Consumer /\ worker'[w].pc = "done" =>
              \/ At(w, "done")
              \/ Occupied(w) /\ \A d \in Event : d = Current(w) => Settled(d)',
           \A e \in Event : Has("base", e)' => Has("base", e) \/ Settled(e)'
    PROVE  NothingLost'
<1> SUFFICES ASSUME service # "progress", NEW e \in Event, Has("base", e)'
             PROVE  Settled(e)'
  BY DEF NothingLost
<1>1. CASE ~Has("base", e)
  BY <1>1
<1>2. CASE e \in lost \cup skipped \/ applied[e] > 0 \/ Has("dlq", e)
  <2>1. applied[e] \in Nat /\ applied'[e] \in Nat /\ applied[e] <= applied'[e]
    BY DEF TypeOK
  <2>2. applied[e] > 0 => applied'[e] > 0
    BY <2>1
  <2> QED
    BY <1>2, <2>2, GrowsKeepsHas DEF Settled, Topic
<1>3. CASE Awaiting(e)
  <2>0. PICK t \in Consumer : \E i \in DOMAIN log[t] :
          /\ i > worker[t].offset /\ log[t][i].event = e
          /\ ~(i = worker[t].offset + 1 /\ At(t, "done"))
    BY <1>3 DEF Awaiting
  <2>1. PICK i \in DOMAIN log[t] :
          /\ i > worker[t].offset /\ log[t][i].event = e
          /\ ~(i = worker[t].offset + 1 /\ At(t, "done"))
    BY <2>0
  <2>2. /\ i \in DOMAIN log'[t] /\ log'[t][i] = log[t][i] /\ i \in Nat
        /\ worker[t].offset \in Nat /\ worker'[t].offset \in Nat
        /\ worker'[t].offset <= worker[t].offset
    <3>1. t \in Topic /\ t \in Worker
      BY DEF Topic, Worker
    <3>2. i \in Nat /\ worker[t].offset \in Nat
      BY <3>1, TopicShape, OffsetTyped
    <3>3. worker'[t].offset \in Nat
      BY <3>1 DEF TypeOK, WorkerState
    <3> QED
      BY <3>1, <3>2, <3>3 DEF Grows, Stays
  <2>3. CASE ~(i = worker[t].offset + 1 /\ worker'[t].pc = "done")
    <3>1. i > worker'[t].offset /\ ~(i = worker'[t].offset + 1 /\ worker'[t].pc = "done")
      BY <2>1, <2>2, <2>3
    <3> QED
      BY <2>1, <2>2, <3>1 DEF Settled, Awaiting, At
  <2>4. CASE i = worker[t].offset + 1 /\ worker'[t].pc = "done"
    <3>1. /\ t = w /\ Occupied(w)
          /\ \A d \in Event : d = Current(w) => Settled(d)'
      BY <2>1, <2>4
    <3>2. Current(w) = e
      BY <2>1, <2>4, <3>1 DEF OffsetsKept, Current
    <3> QED
      BY <3>1, <3>2
  <2> QED
    BY <2>3, <2>4
<1> QED
  BY <1>1, <1>2, <1>3 DEF NothingLost, Settled

\* A message that is sent to a consumer's topic waits there.
LEMMA SentWaits ==
    ASSUME TypeOK, OffsetsKept, NEW t \in Consumer, NEW e \in Event, NEW n \in Nat,
           Send(t, e, n), \A v \in Consumer : KeepsMessage(v)
    PROVE  Awaiting(e)'
<1> DEFINE i == Len(log[t]) + 1
<1>1. /\ t \in Topic /\ worker[t].offset \in Nat /\ Len(log[t]) \in Nat
      /\ worker'[t].offset = worker[t].offset
      /\ worker'[t].pc = "done" => Occupied(t)
  BY TopicShape, OffsetTyped DEF Topic, Worker, KeepsMessage, Step
<1>2. i \in DOMAIN log'[t] /\ log'[t][i].event = e
  <2>1. DOMAIN log'[t] = 1 .. i /\ log'[t][i] = [event |-> e, attempts |-> n]
    BY <1>1, SendGrows
  <2>2. i \in 1 .. i
    BY <1>1
  <2> QED
    BY <2>1, <2>2
<1>3. i > worker'[t].offset /\ ~(i = worker'[t].offset + 1 /\ worker'[t].pc = "done")
  BY <1>1 DEF OffsetsKept
<1> HIDE DEF i
<1> QED
  BY <1>2, <1>3 DEF Awaiting, At

LEMMA HandledBacked ==
    ASSUME IInv, NEW w \in Consumer, Occupied(w)
    PROVE  failures[Current(w)] >= worker[w].message.attempts
<1>1. w \in Topic /\ worker[w].offset + 1 \in DOMAIN log[w]
  BY TopicShape, OffsetTyped DEF IInv, OffsetsKept, Topic, Worker
<1> QED
  BY <1>1 DEF IInv, OffsetsKept, AttemptsInv, AttemptsBacked, Current

LEMMA GotoOffsets ==
    ASSUME IInv, NEW w \in Worker, Occupied(w), NEW pc \in Step, Goto(w, pc),
           Grows, committed' = committed
    PROVE  OffsetsKept'
<1>1. \A v \in Consumer : KeepsMessage(v)
  BY GotoMoves DEF IInv, KeepsMessage, Worker, At, Occupied, Step
<1> QED
  BY <1>1, OffsetsStep DEF IInv

LEMMA CountFailureCounts ==
    ASSUME IInv, NEW w \in Worker, Occupied(w), CountFailure(w)
    PROVE  /\ failures' \in [Event -> Nat]
           /\ \A e \in Event : failures[e] <= failures'[e]
           /\ w \in Consumer =>
                 failures'[worker[w].message.event] >= worker[w].message.attempts + 1
<1> DEFINE c == Current(w)
<1>1. c \in Event /\ failures \in [Event -> Nat] /\ worker[w].message.attempts \in Nat
  BY BusyWorker DEF IInv, TypeOK
<1>2. CASE w \in Consumer
  <2>1. failures' = [failures EXCEPT ![c] = @ + 1]
    BY <1>2 DEF CountFailure
  <2>2. failures[c] >= worker[w].message.attempts
    BY <1>2, HandledBacked
  <2>3. c = worker[w].message.event
    BY DEF Current
  <2> HIDE DEF c
  <2> QED
    BY <1>1, <2>1, <2>2, <2>3
<1>3. CASE w \notin Consumer
  BY <1>1, <1>3 DEF CountFailure
<1> QED
  BY <1>2, <1>3

\* A step that changes neither the topics nor the failures.
LEMMA QuietAttempts ==
    ASSUME IInv, TypeOK', UNCHANGED <<log, failures>>,
           \A w \in Consumer : worker'[w].pc = "failed" =>
              worker'[w].pc = worker[w].pc /\ worker'[w].message = worker[w].message
    PROVE  AttemptsInv'
<1>1. Grows
  BY UnchangedGrows DEF IInv
<1>2. \A e \in Event : failures[e] <= failures'[e]
  BY DEF IInv, TypeOK
<1> QED
  BY <1>1, <1>2, AttemptsStep DEF IInv, At

\* A step that changes neither the topics nor the effects.
LEMMA QuietAwaiting ==
    ASSUME IInv, TypeOK', UNCHANGED <<log, service, lost, skipped, applied>>, Stays,
           NEW w \in Worker,
           \A v \in Consumer \ {w} : worker'[v].pc = "done" => At(v, "done"),
           service # "progress" /\ w \in Consumer /\ worker'[w].pc = "done" =>
              \/ At(w, "done")
              \/ Occupied(w) /\ applied[Current(w)] > 0
    PROVE  NothingLost'
<1>1. Grows
  BY UnchangedGrows DEF IInv
<1>2. \A e \in Event : applied[e] <= applied'[e]
  BY DEF IInv, TypeOK
<1>3. \A d \in Event : applied[d] > 0 => Settled(d)'
  BY DEF Settled
<1>4. \A e \in Event : Has("base", e)' => Has("base", e)
  BY DEF Has
<1>5. service # "progress" /\ w \in Consumer /\ worker'[w].pc = "done" =>
        \/ At(w, "done")
        \/ Occupied(w) /\ \A d \in Event : d = Current(w) => Settled(d)'
  BY <1>3
<1> QED
  BY <1>1, <1>2, <1>4, <1>5, AwaitingStep DEF IInv

-----------------------------------------------------------------------------
(* Initially, and what producers, operators and clients do *)

LEMMA InitIInv == Init => IInv
<1> SUFFICES ASSUME Init
             PROVE  IInv
  OBVIOUS
<1> USE DEF Init
<1>1. /\ [pc |-> "idle", offset |-> 0] \in WorkerState
      /\ [pc |-> "down", offset |-> 0] \in WorkerState
  BY DEF WorkerState
<1>2. TypeOK
  BY <1>1 DEF TypeOK
<1>3. \A t \in Topic : log[t] = <<>> /\ DOMAIN log[t] = {} /\ Len(log[t]) = 0
  BY EmptySeq
<1>4. \A w \in Worker : worker[w].pc \in {"down", "idle"} /\ worker[w].offset = 0
  OBVIOUS
<1>5. OffsetsKept
  BY <1>3, <1>4 DEF OffsetsKept, At, Occupied, Step, Consumer, Worker, Topic
<1>6. \A t \in Topic, e \in Event : ~Has(t, e)
  BY <1>3 DEF Has
<1>7. AttemptsInv
  BY <1>3, <1>4, <1>6
  DEF AttemptsInv, AttemptsBacked, FailureCounted, GivenUpAfterAllAttempts, At, Worker, Topic
<1>8. RecordsInv
  BY <1>4
  DEF RecordsInv, RecordsKept, UniqueEventIdAppliedAtMostOnce, AppliedAtMostOnce, At
<1>9. NothingLost
  BY <1>6 DEF NothingLost, Topic, Consumer
<1> QED
  BY <1>2, <1>5, <1>7, <1>8, <1>9 DEF IInv

\* A message with a fresh count is added to a consumer's topic.
LEMMA AddPreserves ==
    ASSUME IInv, NEW t \in Consumer, NEW e \in Event, Send(t, e, 0),
           UNCHANGED <<setting, committed, worker, store, history>>,
           {faults', crashes', ingests', replays'} \subseteq Nat
    PROVE  IInv'
<1> USE DEF setting, store, history
<1>0. t \in Topic
  BY DEF Topic
<1>1. /\ log' \in [Topic -> Seq(Message)] /\ Grows
      /\ \A u \in Topic \ {t} : log'[u] = log[u]
      /\ DOMAIN log'[t] = 1 .. Len(log[t]) + 1
      /\ log'[t][Len(log[t]) + 1] = [event |-> e, attempts |-> 0]
      /\ t \in Topic
  BY <1>0, SendGrows DEF IInv
<1>2. TypeOK'
  BY <1>1 DEF IInv, TypeOK
<1>3. OffsetsKept'
  BY <1>1, OffsetsStep DEF IInv, KeepsMessage, At, Occupied
<1>4. AttemptsInv'
  <2>1. \A d \in Event : failures[d] \in Nat
    BY DEF IInv, TypeOK
  <2>2. DOMAIN log[t] = 1 .. Len(log[t]) /\ Len(log[t]) \in Nat
    BY <1>1, TopicShape DEF IInv
  <2>3. ASSUME NEW u \in Topic, NEW i \in DOMAIN log'[u] \ DOMAIN log[u]
        PROVE  /\ failures'[log'[u][i].event] >= log'[u][i].attempts
               /\ u # "dlq"
    <3>1. u = t
      BY <1>1, <2>3
    <3>2. i = Len(log[t]) + 1
      BY <1>1, <2>2, <2>3, <3>1
    <3>3. log'[u][i].event = e /\ log'[u][i].attempts = 0
      BY <1>1, <3>1, <3>2
    <3> QED
      BY <2>1, <3>1, <3>3 DEF Consumer
  <2>4. \A d \in Event : failures[d] <= failures'[d]
    BY <2>1
  <2> QED
    BY <1>1, <1>2, <2>3, <2>4, AttemptsStep DEF IInv, At
<1>5. RecordsInv'
  BY RecordsSame DEF IInv
<1>6. NothingLost'
  <2>1. Awaiting(e)'
    BY <1>1, SentWaits DEF IInv, KeepsMessage, At, Occupied
  <2>2. ASSUME NEW d \in Event, Has("base", d)'
        PROVE  Has("base", d) \/ Settled(d)'
    <3>1. CASE d = e
      BY <2>1, <3>1 DEF Settled
    <3>2. CASE d # e
      <4>1. \A i \in DOMAIN log'[t] : log'[t][i].event = d => i \in DOMAIN log[t] /\ log[t][i].event = d
        <5>1. DOMAIN log[t] = 1 .. Len(log[t]) /\ Len(log[t]) \in Nat
          BY <1>1, TopicShape DEF IInv
        <5>2. \A i \in DOMAIN log'[t] : i \in DOMAIN log[t] \/ i = Len(log[t]) + 1
          BY <1>1, <5>1
        <5>3. log'[t][Len(log[t]) + 1].event = e
          BY <1>1
        <5> QED
          BY <1>1, <3>2, <5>2, <5>3 DEF Grows
      <4> QED
        BY <1>1, <2>2, <4>1 DEF Has, Topic, Consumer
    <3> QED
      BY <3>1, <3>2
  <2>3. \A d \in Event : applied[d] <= applied'[d]
    BY DEF IInv, TypeOK
  <2>4. "rest" \in Worker
    BY DEF Worker
  <2>5. Stays
    BY OffsetTyped DEF Stays, IInv, Worker
  <2> QED
    BY <1>1, <1>2, <2>2, <2>3, <2>4, <2>5, AwaitingStep DEF IInv, At, Consumer
<1> QED
  BY <1>2, <1>3, <1>4, <1>5, <1>6 DEF IInv

LEMMA PublishPreserves ==
    ASSUME IInv, NEW e \in Event, Publish(e)
    PROVE  IInv'
<1>1. "base" \in Consumer
  BY DEF Consumer
<1> QED
  BY <1>1, AddPreserves DEF Publish, bounds, IInv, TypeOK

LEMMA ReplayPreserves ==
    ASSUME IInv, NEW e \in Event, Replay(e)
    PROVE  IInv'
<1>1. "retry" \in Consumer
  BY DEF Consumer
<1>2. {faults, crashes, ingests, replays}' \subseteq Nat
  BY DEF Replay, IInv, TypeOK
<1>3. Send("retry", e, 0) /\ UNCHANGED <<setting, committed, worker, store, history>>
  BY DEF Replay
<1> QED
  BY <1>1, <1>2, <1>3, AddPreserves

\* A worker takes up, drops or finishes a message, and writes nothing.
LEMMA TurnPreserves ==
    ASSUME IInv, NEW w \in Worker, NEW r \in WorkerState, r.pc \in {"down", "idle", "check"},
           worker' = [worker EXCEPT ![w] = r],
           UNCHANGED <<setting, log, committed, store, history>>,
           {faults', crashes', ingests', replays'} \subseteq Nat,
           w \in Consumer =>
              /\ committed[w] <= r.offset /\ r.offset <= worker[w].offset
              /\ r.pc = "down" => r.offset = committed[w]
              /\ r.pc = "check" =>
                    /\ r.offset < Len(log[w])
                    /\ r.message = log[w][r.offset + 1]
    PROVE  IInv'
<1> USE DEF setting, store, history
<1>1. TypeOK'
  BY DEF IInv, TypeOK
<1>2. \A v \in Worker : worker'[v] = IF v = w THEN r ELSE worker[v]
  BY DEF IInv, TypeOK
<1>3. OffsetsKept'
  <2>1. \A v \in Consumer : /\ Len(log[v]) \in Nat /\ worker[v].offset \in Nat
                            /\ worker'[v].offset \in Nat
    BY TopicShape, OffsetTyped DEF IInv, Topic, Worker, TypeOK, WorkerState
  <2> QED
    BY <1>2, <2>1 DEF IInv, OffsetsKept, At, Occupied, Step, Worker
<1>4. AttemptsInv'
  <2>1. \A v \in Consumer : worker'[v].pc = "failed" =>
          worker'[v].pc = worker[v].pc /\ worker'[v].message = worker[v].message
    BY <1>2 DEF Worker
  <2> QED
    BY <1>1, <2>1, QuietAttempts
<1>5. RecordsInv'
  BY <1>2, RecordsSame DEF IInv
<1>6. NothingLost'
  <2>1. Stays
    BY <1>2, OffsetTyped DEF IInv, Stays, Worker
  <2> QED
    BY <1>1, <1>2, <2>1, QuietAwaiting DEF Worker, At
<1> QED
  BY <1>1, <1>3, <1>4, <1>5, <1>6 DEF IInv

LEMMA TakePreserves ==
    ASSUME IInv, NEW w \in Worker, Take(w)
    PROVE  IInv'
<1> DEFINE next == worker[w].offset + 1
           r == [pc |-> "check", offset |-> worker[w].offset, message |-> log[w][next]]
<1>1. /\ w \in Consumer /\ w \in Topic /\ worker[w].offset \in Nat
      /\ committed[w] <= worker[w].offset
  BY OffsetTyped DEF Take, Topic, IInv, OffsetsKept
<1>2. next \in DOMAIN log[w] /\ log[w][next] \in Message
  BY <1>1, TopicShape DEF Take, IInv
<1>3. r \in WorkerState
  BY <1>1, <1>2 DEF WorkerState, Step
<1>4. worker' = [worker EXCEPT ![w] = r]
  BY DEF Take
<1> QED
  <2>1. {faults', crashes', ingests', replays'} \subseteq Nat
    BY DEF Take, bounds, IInv, TypeOK
  <2>2. UNCHANGED <<setting, log, committed, store, history>> /\ r.offset < Len(log[w])
    BY DEF Take
  <2>3. /\ r.pc = "check" /\ committed[w] <= r.offset /\ r.offset <= worker[w].offset
        /\ r.message = log[w][r.offset + 1]
    BY <1>1
  <2> HIDE DEF r
  <2> QED
    BY <1>3, <1>4, <2>1, <2>2, <2>3, TurnPreserves

LEMMA IngestPreserves ==
    ASSUME IInv, NEW e \in Event, Ingest(e)
    PROVE  IInv'
<1> DEFINE r == [pc |-> "check", offset |-> 0, message |-> [event |-> e, attempts |-> 0]]
<1>1. r \in WorkerState
  BY DEF WorkerState, Step, Message
<1>2. "rest" \in Worker /\ "rest" \notin Consumer
  BY DEF Worker, Consumer
<1>3. {faults', crashes', ingests', replays'} \subseteq Nat
  BY DEF Ingest, IInv, TypeOK
<1>4. /\ worker' = [worker EXCEPT !["rest"] = r]
      /\ UNCHANGED <<setting, log, committed, store, history>>
  BY DEF Ingest
<1>5. r.pc = "check"
  OBVIOUS
<1> HIDE DEF r
<1> QED
  BY <1>1, <1>2, <1>3, <1>4, <1>5, TurnPreserves

LEMMA HaltPreserves ==
    ASSUME IInv, NEW w \in Worker, Halt(w),
           UNCHANGED <<setting, log, committed, store, history>>,
           {faults', crashes', ingests', replays'} \subseteq Nat
    PROVE  IInv'
<1> DEFINE r == [pc |-> IF w \in Consumer THEN "down" ELSE "idle",
                 offset |-> IF w \in Consumer THEN committed[w] ELSE 0]
<1>1. r \in WorkerState
  BY DEF WorkerState, IInv, TypeOK
<1>2. w \in Consumer => committed[w] \in Nat /\ committed[w] <= worker[w].offset
  BY DEF IInv, TypeOK, OffsetsKept
<1>3. worker' = [worker EXCEPT ![w] = r]
  BY DEF Halt
<1>4. /\ r.pc \in {"down", "idle"}
      /\ w \in Consumer => /\ r.offset = committed[w]
                           /\ committed[w] <= r.offset /\ r.offset <= worker[w].offset
  BY <1>2
<1>5. r.pc \in {"down", "idle", "check"} /\ r.pc # "check"
  BY <1>4
<1> HIDE DEF r
<1> QED
  BY <1>1, <1>3, <1>4, <1>5, TurnPreserves

LEMMA StartPreserves ==
    ASSUME IInv, NEW w \in Worker, Start(w)
    PROVE  IInv'
<1> USE DEF setting, store, bounds
<1>1. /\ w \in Consumer /\ w \in Topic /\ At(w, "down")
      /\ committed[w] \in Nat /\ worker[w].offset = committed[w]
      /\ Len(log[w]) \in Nat /\ worker[w].offset <= Len(log[w])
      /\ UNCHANGED <<setting, log, committed, store, failures, lost, bounds>>
  BY TopicShape DEF Start, IInv, OffsetsKept, TypeOK, Topic
<1>2. CASE committed[w] # 0
  <2> DEFINE r == [pc |-> "idle", offset |-> committed[w]]
  <2>1. r \in WorkerState
    BY <1>1 DEF WorkerState
  <2>2. worker' = [worker EXCEPT ![w] = r] /\ UNCHANGED skipped
    BY <1>2 DEF Start
  <2>3. {faults', crashes', ingests', replays'} \subseteq Nat
    <3>1. {faults, crashes, ingests, replays} \subseteq Nat
      BY DEF IInv, TypeOK
    <3> QED
      BY <1>1, <3>1
  <2>4. UNCHANGED history
    BY <1>1, <2>2 DEF history
  <2>5. r.pc = "idle" /\ committed[w] <= r.offset /\ r.offset <= worker[w].offset
    BY <1>1
  <2> HIDE DEF r
  <2> QED
    BY <1>1, <2>1, <2>2, <2>3, <2>4, <2>5, TurnPreserves
<1>3. CASE committed[w] = 0
  <2> DEFINE r == [pc |-> "idle", offset |-> Len(log[w])]
             S == {log[w][i].event : i \in DOMAIN log[w]}
  <2>1. worker' = [worker EXCEPT ![w] = r] /\ skipped' = skipped \cup S
    BY <1>3 DEF Start
  <2>2. r \in WorkerState
    BY <1>1 DEF WorkerState
  <2>3. S \subseteq Event
    BY <1>1, TopicShape DEF IInv
  <2>4. \A v \in Worker : worker'[v] = IF v = w THEN r ELSE worker[v]
    BY <2>1 DEF IInv, TypeOK
  <2>5. TypeOK'
    BY <1>1, <2>1, <2>2, <2>3 DEF IInv, TypeOK
  <2>6. OffsetsKept'
    BY <1>1, <2>4 DEF IInv, OffsetsKept, At, Occupied, Step, Worker
  <2>7. AttemptsInv'
    <3>1. \A v \in Consumer : worker'[v].pc = "failed" =>
            worker'[v].pc = worker[v].pc /\ worker'[v].message = worker[v].message
      BY <2>4 DEF Worker
    <3> QED
      BY <1>1, <2>5, <3>1, QuietAttempts
  <2>8. RecordsInv'
    BY <1>1, <2>4, RecordsSame DEF IInv
  <2>9. NothingLost'
    <3> SUFFICES ASSUME service # "progress", NEW e \in Event, Has("base", e)
                 PROVE  Settled(e)'
      BY <1>1 DEF NothingLost, Has
    <3>1. Settled(e)
      BY DEF IInv, NothingLost
    <3>2. CASE Awaiting(e)
      <4>1. PICK t \in Consumer : \E i \in DOMAIN log[t] :
              /\ i > worker[t].offset /\ log[t][i].event = e
              /\ ~(i = worker[t].offset + 1 /\ At(t, "done"))
        BY <3>2 DEF Awaiting
      <4>2. PICK i \in DOMAIN log[t] :
              /\ i > worker[t].offset /\ log[t][i].event = e
              /\ ~(i = worker[t].offset + 1 /\ At(t, "done"))
        BY <4>1
      <4>3. CASE t = w
        BY <2>1, <4>2, <4>3 DEF Settled
      <4>4. CASE t # w
        BY <1>1, <2>4, <4>2, <4>4 DEF Settled, Awaiting, At, Worker
      <4> QED
        BY <4>3, <4>4
    <3>3. CASE e \in lost \cup skipped \/ applied[e] > 0 \/ Has("dlq", e)
      BY <1>1, <2>1, <3>3 DEF Settled, Has
    <3> QED
      BY <3>1, <3>2, <3>3 DEF Settled
  <2> QED
    BY <2>5, <2>6, <2>7, <2>8, <2>9 DEF IInv
<1> QED
  BY <1>2, <1>3

LEMMA RejectPreserves ==
    ASSUME IInv, NEW w \in Worker, Reject(w)
    PROVE  IInv'
BY HaltPreserves DEF Reject, bounds, IInv, TypeOK

LEMMA CrashPreserves ==
    ASSUME IInv, NEW w \in Worker, Crash(w)
    PROVE  IInv'
BY HaltPreserves DEF Crash, IInv, TypeOK

LEMMA RespondPreserves ==
    ASSUME IInv, Respond
    PROVE  IInv'
<1> DEFINE r == [pc |-> "idle", offset |-> 0]
<1>1. r \in WorkerState
  BY DEF WorkerState
<1>2. "rest" \in Worker /\ "rest" \notin Consumer
  BY DEF Worker, Consumer
<1> QED
  BY <1>1, <1>2, TurnPreserves DEF Respond, bounds, IInv, TypeOK

LEMMA CommitPreserves ==
    ASSUME IInv, NEW w \in Worker, Commit(w)
    PROVE  IInv'
<1> DEFINE next == worker[w].offset + 1
           r == [pc |-> "idle", offset |-> next]
<1> USE DEF setting, store, history, bounds
<1>1. w \in Consumer /\ Occupied(w) /\ At(w, "done")
  BY DEF Commit, At, Occupied, Step
<1>2. worker[w].offset \in Nat /\ worker[w].offset < Len(log[w])
  BY <1>1, OffsetTyped DEF IInv, OffsetsKept
<1>3. /\ committed' = [committed EXCEPT ![w] = next]
      /\ worker' = [worker EXCEPT ![w] = r]
      /\ UNCHANGED <<setting, log, store, history, bounds>>
  BY DEF Commit
<1>4. r \in WorkerState
  BY <1>2 DEF WorkerState
<1>5. TypeOK'
  <2>1. next \in Nat
    BY <1>2
  <2>2. committed' \in [Consumer -> Nat]
    BY <1>3, <2>1 DEF IInv, TypeOK
  <2>3. worker' \in [Worker -> WorkerState]
    BY <1>3, <1>4 DEF IInv, TypeOK
  <2> QED
    BY <1>3, <2>2, <2>3 DEF IInv, TypeOK
<1>6. /\ \A v \in Worker : worker'[v] = IF v = w THEN r ELSE worker[v]
      /\ \A v \in Consumer : committed'[v] = IF v = w THEN next ELSE committed[v]
  BY <1>3 DEF IInv, TypeOK
<1>7. OffsetsKept'
  <2>1. next <= Len(log[w])
    BY <1>1, <1>2, TopicShape DEF IInv, Topic
  <2> QED
    BY <1>2, <1>3, <1>6, <2>1 DEF IInv, OffsetsKept, At, Occupied, Step, Worker
<1>8. AttemptsInv'
  <2>1. \A v \in Consumer : worker'[v].pc = "failed" =>
          worker'[v].pc = worker[v].pc /\ worker'[v].message = worker[v].message
    BY <1>6 DEF Worker
  <2>2. UNCHANGED <<log, failures>>
    BY <1>3
  <2> QED
    BY <1>5, <2>1, <2>2, QuietAttempts
<1>9. RecordsInv'
  BY <1>3, <1>6, RecordsSame DEF IInv
<1>10. NothingLost'
  <2> SUFFICES ASSUME service # "progress", NEW e \in Event, Has("base", e)
               PROVE  Settled(e)'
    BY <1>3 DEF NothingLost, Has
  <2>1. Settled(e)
    BY DEF IInv, NothingLost
  <2>2. CASE Awaiting(e)
    <3>1. PICK t \in Consumer : \E i \in DOMAIN log[t] :
            /\ i > worker[t].offset /\ log[t][i].event = e
            /\ ~(i = worker[t].offset + 1 /\ At(t, "done"))
      BY <2>2 DEF Awaiting
    <3>2. PICK i \in DOMAIN log[t] :
            /\ i > worker[t].offset /\ log[t][i].event = e
            /\ ~(i = worker[t].offset + 1 /\ At(t, "done"))
      BY <3>1
    <3>3. i \in Nat
      BY TopicShape DEF IInv, Topic
    <3>4. i > worker'[t].offset /\ ~(i = worker'[t].offset + 1 /\ worker'[t].pc = "done")
      <4>1. CASE t = w
        BY <1>1, <1>2, <1>6, <3>2, <3>3, <4>1 DEF Worker
      <4>2. CASE t # w
        BY <1>6, <3>2, <4>2 DEF Worker, At
      <4> QED
        BY <4>1, <4>2
    <3> QED
      BY <1>3, <3>2, <3>4 DEF Settled, Awaiting, At
  <2>3. CASE e \in lost \cup skipped \/ applied[e] > 0 \/ Has("dlq", e)
    BY <1>3, <2>3 DEF Settled, Has
  <2> QED
    BY <2>1, <2>2, <2>3 DEF Settled
<1> QED
  BY <1>5, <1>7, <1>8, <1>9, <1>10 DEF IInv

-----------------------------------------------------------------------------
(* What a worker does with its message *)

\* A step that moves one worker on, with the topics and offsets as they were.
LEMMA GotoQuiet ==
    ASSUME IInv, NEW w \in Worker, Occupied(w), NEW pc \in Step, Goto(w, pc),
           UNCHANGED <<log, committed>>
    PROVE  /\ OffsetsKept'
           /\ worker' \in [Worker -> WorkerState]
           /\ worker'[w].pc = pc
           /\ worker'[w].message = worker[w].message
           /\ \A v \in Worker \ {w} : worker'[v] = worker[v]
           /\ Current(w) \in Event /\ Stays
<1>1. Stays
  BY GotoMoves, OffsetTyped DEF IInv, Stays, Worker
<1> QED
  BY <1>1, GotoMoves, GotoOffsets, UnchangedGrows, BusyWorker DEF IInv

\* An effect that is counted settles its event.
LEMMA EffectSettles ==
    ASSUME IInv, TypeOK', UNCHANGED <<log, service, committed, lost, skipped>>,
           NEW w \in Worker, NEW pc \in Step, Goto(w, pc), Occupied(w),
           \A e \in Event : applied[e] <= applied'[e],
           service # "progress" /\ pc = "done" => applied'[worker[w].message.event] > 0
    PROVE  NothingLost'
<1>1. Grows
  BY UnchangedGrows DEF IInv
<1>2. worker'[w].pc = pc /\ (\A v \in Worker \ {w} : worker'[v] = worker[v]) /\ Stays
  BY GotoQuiet
<1>3. \A d \in Event : applied'[d] > 0 => Settled(d)'
  BY DEF Settled
<1>4. \A e \in Event : Has("base", e)' => Has("base", e)
  BY DEF Has
<1>5. service # "progress" /\ w \in Consumer /\ worker'[w].pc = "done" =>
        \A d \in Event : d = Current(w) => Settled(d)'
  BY <1>2, <1>3 DEF Current
<1>6. \A v \in Consumer \ {w} : worker'[v].pc = "done" => At(v, "done")
  BY <1>2 DEF Worker, At
<1> QED
  BY <1>1, <1>2, <1>4, <1>5, <1>6, AwaitingStep DEF IInv

LEMMA CheckPreserves ==
    ASSUME IInv, NEW w \in Worker, Check(w)
    PROVE  IInv'
<1> USE DEF setting, store, history, bounds
<1> DEFINE c == worker[w].message.event
<1>1. Occupied(w) /\ {"done", "record"} \subseteq Step
  BY DEF Check, At, Occupied, Step
<1>2. c \in Event /\ c = Current(w)
  BY <1>1, BusyWorker DEF IInv, Current
<1>3. PICK pc \in {"done", "record"} : Goto(w, pc)
  BY DEF Check, AnalyticsHandle, LookUp
<1>4. UNCHANGED <<setting, log, committed, history, bounds>>
  BY DEF Check
<1>5. /\ OffsetsKept' /\ worker' \in [Worker -> WorkerState]
      /\ worker'[w].pc = pc /\ worker'[w].message = worker[w].message
      /\ \A v \in Worker \ {w} : worker'[v] = worker[v]
  BY <1>1, <1>3, <1>4, GotoQuiet
<1>6. \A v \in Consumer : worker'[v].pc = "failed" =>
         worker'[v].pc = worker[v].pc /\ worker'[v].message = worker[v].message
  BY <1>5 DEF Worker
<1>7. \A v \in Worker : worker'[v].pc \in {"apply", "publish"} =>
         worker'[v].pc = worker[v].pc /\ worker'[v].message = worker[v].message
  BY <1>5
<1>8. CASE service = "analytics"
  <2>1. /\ recorded' = recorded \cup {c}
        /\ applied' = IF c \in recorded THEN applied ELSE [applied EXCEPT ![c] = @ + 1]
    BY <1>2, <1>8 DEF Check, AnalyticsHandle
  <2>2. TypeOK'
    BY <1>2, <1>4, <1>5, <2>1 DEF IInv, TypeOK
  <2>3. /\ \A e \in Event : applied[e] \in Nat /\ applied'[e] \in Nat
        /\ \A e \in Event \ {c} : applied'[e] = applied[e]
        /\ c \in recorded => applied'[c] = applied[c] /\ applied[c] > 0
        /\ c \notin recorded => applied[c] = 0 /\ applied'[c] = 1
    BY <1>2, <1>8, <2>1 DEF IInv, TypeOK, RecordsInv, RecordsKept
  <2>4. \A v \in Worker : worker'[v].pc # "apply"
    BY <1>7, <1>8 DEF IInv, RecordsInv, RecordsKept, At
  <2>5. (\A e \in Event \ recorded : applied[e] = 0)' /\ (\A e \in recorded : applied[e] > 0)'
    <3>1. \A e \in Event \ recorded' : applied'[e] = 0
      BY <2>1, <2>3 DEF IInv, RecordsInv, RecordsKept
    <3>2. \A e \in recorded' : applied'[e] > 0
      BY <1>8, <2>1, <2>3 DEF IInv, TypeOK, RecordsInv, RecordsKept
    <3> QED
      BY <3>1, <3>2
  <2>6. \A v \in Worker : worker'[v].pc = "publish" => applied'[worker'[v].message.event] > 0
    <3> SUFFICES ASSUME NEW v \in Worker, worker'[v].pc = "publish"
                 PROVE  applied'[worker'[v].message.event] > 0
      OBVIOUS
    <3>1. At(v, "publish") /\ worker'[v].message = worker[v].message
      BY <1>7 DEF At
    <3>2. worker[v].message.event \in Event /\ applied[worker[v].message.event] > 0
      BY <1>8, <3>1, BusyWorker DEF IInv, RecordsInv, RecordsKept, At, Occupied, Step, Current
    <3> QED
      BY <2>3, <3>1, <3>2
  <2>7. \A e \in Event : applied'[e] <= 1
    BY <1>8, <2>3
    DEF IInv, RecordsInv, UniqueEventIdAppliedAtMostOnce, AppliedAtMostOnce
  <2>8. RecordsInv'
    BY <2>4, <2>5, <2>6, <2>7
    DEF RecordsInv, RecordsKept, UniqueEventIdAppliedAtMostOnce, AppliedAtMostOnce, At, Current
  <2>9. AttemptsInv'
    BY <1>4, <1>6, <2>2, QuietAttempts
  <2>10. NothingLost'
    <3>1. \A e \in Event : applied[e] <= applied'[e]
      BY <2>3
    <3>2. applied'[c] > 0
      BY <2>3
    <3>3. pc \in Step
      BY <1>1
    <3> QED
      BY <1>1, <1>3, <1>4, <2>2, <3>1, <3>2, <3>3, EffectSettles
  <2> QED
    BY <1>5, <2>2, <2>8, <2>9, <2>10 DEF IInv
<1>9. CASE service # "analytics"
  <2>1. UNCHANGED store /\ Goto(w, IF c \in recorded THEN "done" ELSE "record")
    BY <1>2, <1>9 DEF Check, LookUp
  <2>2. TypeOK'
    BY <1>4, <1>5, <2>1 DEF IInv, TypeOK
  <2>3. RecordsInv'
    BY <1>4, <1>7, <2>1, RecordsSame DEF IInv
  <2>4. AttemptsInv'
    BY <1>4, <1>6, <2>2, QuietAttempts
  <2>5. (IF c \in recorded THEN "done" ELSE "record") \in Step
    BY <1>1
  <2>6. service # "progress" /\ (IF c \in recorded THEN "done" ELSE "record") = "done"
          => applied'[c] > 0
    BY <2>1 DEF IInv, RecordsInv, RecordsKept
  <2>7. \A e \in Event : applied[e] <= applied'[e]
    BY <2>1 DEF IInv, TypeOK
  <2>8. NothingLost'
    BY <1>1, <1>4, <2>1, <2>2, <2>5, <2>6, <2>7, EffectSettles
  <2> QED
    BY <1>5, <2>2, <2>3, <2>4, <2>8 DEF IInv
<1> QED
  BY <1>8, <1>9

LEMMA RecordNotificationPreserves ==
    ASSUME IInv, NEW w \in Worker, RecordNotification(w)
    PROVE  IInv'
<1> USE DEF setting, store, history, bounds
<1> DEFINE c == worker[w].message.event
<1>1. Occupied(w) /\ "publish" \in Step /\ Goto(w, "publish") /\ service = "notification"
  BY DEF RecordNotification, At, Occupied, Step
<1>2. c \in Event /\ c = Current(w)
  BY <1>1, BusyWorker DEF IInv, Current
<1>3. /\ recorded' = recorded \cup {c} /\ applied' = [applied EXCEPT ![c] = @ + 1]
      /\ UNCHANGED <<setting, log, committed, history, bounds>>
  BY <1>2 DEF RecordNotification
<1>4. /\ OffsetsKept' /\ worker' \in [Worker -> WorkerState]
      /\ worker'[w].pc = "publish" /\ worker'[w].message = worker[w].message
      /\ \A v \in Worker \ {w} : worker'[v] = worker[v]
  BY <1>1, <1>3, GotoQuiet
<1>5. TypeOK'
  BY <1>2, <1>3, <1>4 DEF IInv, TypeOK
<1>6. /\ \A e \in Event : applied[e] \in Nat /\ applied[e] <= applied'[e]
      /\ \A e \in Event \ {c} : applied'[e] = applied[e]
      /\ applied'[c] > 0
  BY <1>2, <1>3 DEF IInv, TypeOK
<1>7. \A v \in Consumer : worker'[v].pc = "failed" =>
         worker'[v].pc = worker[v].pc /\ worker'[v].message = worker[v].message
  BY <1>4 DEF Worker
<1>8. AttemptsInv'
  BY <1>3, <1>5, <1>7, QuietAttempts
<1>9. RecordsInv'
  <2>1. (\A e \in Event \ recorded : applied[e] = 0)'
    BY <1>3, <1>6 DEF IInv, RecordsInv, RecordsKept
  <2>2. (\A e \in recorded : applied[e] > 0)'
    <3>1. \A e \in recorded' : applied'[e] > 0
      BY <1>1, <1>3, <1>6 DEF IInv, TypeOK, RecordsInv, RecordsKept
    <3> QED
      BY <3>1
  <2>3. \A v \in Worker : worker'[v].pc # "apply"
    BY <1>1, <1>4 DEF IInv, RecordsInv, RecordsKept, At
  <2>4. \A v \in Worker : worker'[v].pc = "publish" => applied'[worker'[v].message.event] > 0
    <3> SUFFICES ASSUME NEW v \in Worker \ {w}, worker'[v].pc = "publish"
                 PROVE  applied'[worker'[v].message.event] > 0
      BY <1>4, <1>6
    <3>1. At(v, "publish") /\ worker'[v].message = worker[v].message
      BY <1>4 DEF At
    <3>2. worker[v].message.event \in Event /\ applied[worker[v].message.event] > 0
      BY <1>1, <3>1, BusyWorker DEF IInv, RecordsInv, RecordsKept, At, Occupied, Step, Current
    <3> QED
      BY <1>6, <3>1, <3>2
  <2> QED
    BY <1>1, <1>3, <2>1, <2>2, <2>3, <2>4
    DEF RecordsInv, RecordsKept, UniqueEventIdAppliedAtMostOnce, At, Current
<1>10. NothingLost'
  BY <1>1, <1>3, <1>5, <1>6, EffectSettles
<1> QED
  BY <1>4, <1>5, <1>8, <1>9, <1>10 DEF IInv

LEMMA RecordProgressPreserves ==
    ASSUME IInv, NEW w \in Worker, RecordProgress(w)
    PROVE  IInv'
<1> USE DEF setting, store, history, bounds
<1> DEFINE c == worker[w].message.event
<1>1. Occupied(w) /\ {"apply", "failed"} \subseteq Step /\ service = "progress"
  BY DEF RecordProgress, At, Occupied, Step
<1>2. c \in Event /\ c = Current(w)
  BY <1>1, BusyWorker DEF IInv, Current
<1>3. UNCHANGED <<setting, log, committed, applied, lost, skipped, bounds>>
  BY DEF RecordProgress
<1>4. NothingLost'
  BY <1>1, <1>3 DEF NothingLost
<1>5. CASE c \in recorded
  <2>1. Goto(w, "failed") /\ CountFailure(w) /\ UNCHANGED recorded
    BY <1>2, <1>5 DEF RecordProgress, InsertEvent
  <2>2. /\ OffsetsKept' /\ worker' \in [Worker -> WorkerState]
        /\ worker'[w].pc = "failed" /\ worker'[w].message = worker[w].message
        /\ \A v \in Worker \ {w} : worker'[v] = worker[v]
    BY <1>1, <1>3, <2>1, GotoQuiet
  <2>3. /\ failures' \in [Event -> Nat]
        /\ \A e \in Event : failures[e] <= failures'[e]
        /\ w \in Consumer =>
              failures'[worker[w].message.event] >= worker[w].message.attempts + 1
    BY <1>1, <2>1, CountFailureCounts
  <2>4. TypeOK'
    BY <1>3, <2>1, <2>2, <2>3 DEF IInv, TypeOK
  <2>5. AttemptsInv'
    <3>1. Grows
      BY <1>3, UnchangedGrows DEF IInv
    <3>2. \A v \in Consumer : worker'[v].pc = "failed" =>
             \/ At(v, "failed") /\ worker'[v].message = worker[v].message
             \/ failures'[worker'[v].message.event] >= worker'[v].message.attempts + 1
      BY <2>2, <2>3 DEF Worker, At
    <3> QED
      BY <1>3, <2>3, <2>4, <3>1, <3>2, AttemptsStep DEF IInv
  <2>6. RecordsInv'
    BY <1>3, <2>1, <2>2, RecordsSame DEF IInv
  <2> QED
    BY <1>4, <2>2, <2>4, <2>5, <2>6 DEF IInv
<1>6. CASE c \notin recorded
  <2>1. Goto(w, "apply") /\ recorded' = recorded \cup {c} /\ UNCHANGED failures
    BY <1>2, <1>6 DEF RecordProgress, InsertEvent
  <2>2. /\ OffsetsKept' /\ worker' \in [Worker -> WorkerState]
        /\ worker'[w].pc = "apply" /\ worker'[w].message = worker[w].message
        /\ \A v \in Worker \ {w} : worker'[v] = worker[v]
    BY <1>1, <1>3, <2>1, GotoQuiet
  <2>3. TypeOK'
    BY <1>2, <1>3, <2>1, <2>2 DEF IInv, TypeOK
  <2>4. AttemptsInv'
    <3>1. \A v \in Consumer : worker'[v].pc = "failed" =>
             worker'[v].pc = worker[v].pc /\ worker'[v].message = worker[v].message
      BY <2>2 DEF Worker
    <3> QED
      BY <1>3, <2>1, <2>3, <3>1, QuietAttempts
  <2>5. applied[c] = 0 /\ \A v \in Worker : At(v, "apply") => worker[v].message.event # c
    BY <1>2, <1>6 DEF IInv, RecordsInv, RecordsKept, Current
  <2>6. RecordsInv'
    <3>1. \A v \in Worker : worker'[v].pc = "apply" =>
             /\ worker'[v].message.event \in recorded'
             /\ applied'[worker'[v].message.event] = 0
             /\ \A u \in Worker : worker'[u].pc = "apply"
                    /\ worker'[u].message.event = worker'[v].message.event => u = v
      BY <1>3, <2>1, <2>2, <2>5 DEF IInv, RecordsInv, RecordsKept, Current, At
    <3> QED
      BY <1>1, <1>3, <2>1, <3>1
      DEF IInv, RecordsInv, RecordsKept, UniqueEventIdAppliedAtMostOnce, AppliedAtMostOnce,
          Current, At
  <2> QED
    BY <1>4, <2>2, <2>3, <2>4, <2>6 DEF IInv
<1> QED
  BY <1>5, <1>6

LEMMA ApplyProgressPreserves ==
    ASSUME IInv, NEW w \in Worker, ApplyProgress(w)
    PROVE  IInv'
<1> USE DEF setting, store, history, bounds
<1> DEFINE c == worker[w].message.event
<1>1. Occupied(w) /\ "publish" \in Step /\ Goto(w, "publish") /\ At(w, "apply")
  BY DEF ApplyProgress, At, Occupied, Step
<1>2. /\ c \in Event /\ c = Current(w)
      /\ service = "progress" /\ c \in recorded /\ applied[c] = 0
  BY <1>1, BusyWorker DEF IInv, RecordsInv, RecordsKept, Current
<1>3. /\ applied' = [applied EXCEPT ![c] = @ + 1]
      /\ UNCHANGED <<setting, log, committed, recorded, history, bounds>>
  BY <1>2 DEF ApplyProgress
<1>4. /\ OffsetsKept' /\ worker' \in [Worker -> WorkerState]
      /\ worker'[w].pc = "publish" /\ worker'[w].message = worker[w].message
      /\ \A v \in Worker \ {w} : worker'[v] = worker[v]
  BY <1>1, <1>3, GotoQuiet
<1>5. TypeOK'
  BY <1>2, <1>3, <1>4 DEF IInv, TypeOK
<1>6. AttemptsInv'
  <2>1. \A v \in Consumer : worker'[v].pc = "failed" =>
           worker'[v].pc = worker[v].pc /\ worker'[v].message = worker[v].message
    BY <1>4 DEF Worker
  <2> QED
    BY <1>3, <1>5, <2>1, QuietAttempts
<1>7. applied'[c] = 1 /\ \A e \in Event \ {c} : applied'[e] = applied[e]
  BY <1>2, <1>3 DEF IInv, TypeOK
<1>8. RecordsInv'
  <2>1. \A v \in Worker : worker'[v].pc = "apply" =>
           /\ worker'[v].message = worker[v].message /\ At(v, "apply") /\ v # w
           /\ worker[v].message.event \in Event \ {c}
    BY <1>1, <1>4, BusyWorker DEF IInv, RecordsInv, RecordsKept, Current, At, Occupied,
       Step
  <2>2. \A v \in Worker : worker'[v].pc = "apply" =>
           /\ worker'[v].message.event \in recorded
           /\ applied'[worker'[v].message.event] = 0
           /\ \A u \in Worker : worker'[u].pc = "apply"
                  /\ worker'[u].message.event = worker'[v].message.event => u = v
    BY <1>7, <2>1 DEF IInv, RecordsInv, RecordsKept, Current
  <2>3. (\A e \in Event \ recorded : applied[e] = 0)'
    BY <1>2, <1>3, <1>7 DEF IInv, RecordsInv, RecordsKept
  <2>4. \A e \in Event : applied'[e] <= 1
    BY <1>2, <1>7
    DEF IInv, RecordsInv, UniqueEventIdAppliedAtMostOnce, AppliedAtMostOnce
  <2> QED
    BY <1>2, <1>3, <2>2, <2>3, <2>4
    DEF RecordsInv, RecordsKept, UniqueEventIdAppliedAtMostOnce, AppliedAtMostOnce, Current, At
<1>9. NothingLost'
  BY <1>2, <1>3 DEF NothingLost
<1> QED
  BY <1>4, <1>5, <1>6, <1>8, <1>9 DEF IInv

LEMMA PublishResultPreserves ==
    ASSUME IInv, NEW w \in Worker, PublishResult(w)
    PROVE  IInv'
<1> USE DEF setting, store, history, bounds
<1>1. Occupied(w) /\ "done" \in Step /\ Goto(w, "done") /\ At(w, "publish")
  BY DEF PublishResult, At, Occupied, Step
<1>2. UNCHANGED <<setting, log, committed, store, history, bounds>>
  BY DEF PublishResult
<1>3. /\ OffsetsKept' /\ worker' \in [Worker -> WorkerState]
      /\ worker'[w].pc = "done" /\ worker'[w].message = worker[w].message
      /\ \A v \in Worker \ {w} : worker'[v] = worker[v]
  BY <1>1, <1>2, GotoQuiet
<1>4. TypeOK'
  BY <1>2, <1>3 DEF IInv, TypeOK
<1>5. AttemptsInv'
  <2>1. \A v \in Consumer : worker'[v].pc = "failed" =>
           worker'[v].pc = worker[v].pc /\ worker'[v].message = worker[v].message
    BY <1>3 DEF Worker
  <2> QED
    BY <1>2, <1>4, <2>1, QuietAttempts
<1>6. RecordsInv'
  BY <1>2, <1>3, RecordsSame DEF IInv
<1>7. NothingLost'
  <2>1. service # "progress" => applied'[worker[w].message.event] > 0
    BY <1>1, <1>2 DEF IInv, RecordsInv, RecordsKept, Current
  <2>2. \A e \in Event : applied[e] <= applied'[e]
    BY <1>2 DEF IInv, TypeOK
  <2> QED
    BY <1>1, <1>2, <1>4, <2>1, <2>2, EffectSettles
<1> QED
  BY <1>3, <1>4, <1>5, <1>6, <1>7 DEF IInv

LEMMA FailPreserves ==
    ASSUME IInv, NEW w \in Worker, Fail(w)
    PROVE  IInv'
<1> USE DEF setting, store, history, bounds
<1>1. Occupied(w) /\ "failed" \in Step /\ Goto(w, "failed") /\ CountFailure(w)
  BY DEF Fail, At, Occupied, Step
<1>2. UNCHANGED <<setting, log, committed, store, lost, skipped, crashes, ingests, replays>>
      /\ faults' = faults + 1
  BY DEF Fail
<1>3. /\ OffsetsKept' /\ worker' \in [Worker -> WorkerState]
      /\ worker'[w].pc = "failed" /\ worker'[w].message = worker[w].message
      /\ (\A v \in Worker \ {w} : worker'[v] = worker[v]) /\ Stays
  BY <1>1, <1>2, GotoQuiet
<1>4. /\ failures' \in [Event -> Nat]
      /\ \A e \in Event : failures[e] <= failures'[e]
      /\ w \in Consumer =>
            failures'[worker[w].message.event] >= worker[w].message.attempts + 1
  BY <1>1, CountFailureCounts
<1>5. TypeOK'
  BY <1>2, <1>3, <1>4 DEF IInv, TypeOK
<1>6. AttemptsInv'
  <2>1. Grows
    BY <1>2, UnchangedGrows DEF IInv
  <2>2. \A v \in Consumer : worker'[v].pc = "failed" =>
           \/ At(v, "failed") /\ worker'[v].message = worker[v].message
           \/ failures'[worker'[v].message.event] >= worker'[v].message.attempts + 1
    BY <1>3, <1>4 DEF Worker, At
  <2> QED
    BY <1>2, <1>4, <1>5, <2>1, <2>2, AttemptsStep DEF IInv
<1>7. RecordsInv'
  BY <1>2, <1>3, RecordsSame DEF IInv
<1>8. NothingLost'
  BY <1>2, <1>3, <1>5, QuietAwaiting DEF Worker, At
<1> QED
  BY <1>3, <1>5, <1>6, <1>7, <1>8 DEF IInv

LEMMA LoseSendPreserves ==
    ASSUME IInv, NEW w \in Worker, LoseSend(w)
    PROVE  IInv'
<1> USE DEF setting, store, history, bounds
<1> DEFINE c == worker[w].message.event
<1>1. Occupied(w) /\ "done" \in Step /\ Goto(w, "done")
  BY DEF LoseSend, At, Occupied, Step
<1>2. /\ lost' = lost \cup {c} /\ faults' = faults + 1
      /\ UNCHANGED <<setting, log, committed, store, failures, skipped, crashes, ingests,
                      replays>>
  BY DEF LoseSend, Current
<1>3. /\ OffsetsKept' /\ worker' \in [Worker -> WorkerState]
      /\ worker'[w].pc = "done" /\ worker'[w].message = worker[w].message
      /\ \A v \in Worker \ {w} : worker'[v] = worker[v]
      /\ Current(w) \in Event /\ Stays
  BY <1>1, <1>2, GotoQuiet
<1>4. TypeOK'
  BY <1>2, <1>3 DEF IInv, TypeOK, Current
<1>5. AttemptsInv'
  <2>1. \A v \in Consumer : worker'[v].pc = "failed" =>
           worker'[v].pc = worker[v].pc /\ worker'[v].message = worker[v].message
    BY <1>3 DEF Worker
  <2> QED
    BY <1>2, <1>4, <2>1, QuietAttempts
<1>6. RecordsInv'
  BY <1>2, <1>3, RecordsSame DEF IInv
<1>7. NothingLost'
  <2>1. Grows
    BY <1>2, UnchangedGrows DEF IInv
  <2>2. \A d \in Event : d = Current(w) => Settled(d)'
    BY <1>2 DEF Settled, Current
  <2>3. \A e \in Event : Has("base", e)' => Has("base", e)
    BY <1>2 DEF Has
  <2>4. \A e \in Event : applied[e] <= applied'[e]
    BY <1>2 DEF IInv, TypeOK
  <2>5. \A v \in Consumer \ {w} : worker'[v].pc = "done" => At(v, "done")
    BY <1>3 DEF Worker, At
  <2> QED
    BY <1>1, <1>2, <1>3, <1>4, <2>1, <2>2, <2>3, <2>4, <2>5, AwaitingStep DEF IInv
<1> QED
  BY <1>3, <1>4, <1>5, <1>6, <1>7 DEF IInv

LEMMA ReroutePreserves ==
    ASSUME IInv, NEW w \in Worker, Reroute(w)
    PROVE  IInv'
<1> USE DEF setting, store, history, bounds
<1> DEFINE c == worker[w].message.event
           n == worker[w].message.attempts + 1
           t == IF Exhausted(n) THEN "dlq" ELSE "retry"
           m == [event |-> c, attempts |-> n]
<1>1. /\ w \in Consumer /\ Occupied(w) /\ At(w, "failed")
      /\ "done" \in Step /\ Goto(w, "done")
  BY DEF Reroute, At, Occupied, Step
<1>2. c \in Event /\ c = Current(w) /\ n \in Nat /\ t \in Topic
  BY <1>1, BusyWorker DEF IInv, Current, Topic, Consumer
<1>3. Send(t, c, n) /\ UNCHANGED <<setting, committed, store, history, bounds>>
  BY <1>2 DEF Reroute
<1>4. failures[c] >= n /\ failures[c] \in Nat
  BY <1>1, <1>2 DEF IInv, TypeOK, AttemptsInv, FailureCounted
<1> HIDE DEF n, t, c
<1>5. /\ log' \in [Topic -> Seq(Message)] /\ Grows
      /\ \A u \in Topic \ {t} : log'[u] = log[u]
      /\ DOMAIN log'[t] = 1 .. Len(log[t]) + 1
      /\ log'[t][Len(log[t]) + 1] = m
  BY <1>2, <1>3, SendGrows DEF IInv
<1>6. /\ OffsetsKept' /\ worker' \in [Worker -> WorkerState]
      /\ worker'[w].pc = "done" /\ worker'[w].message = worker[w].message
      /\ worker'[w].offset = worker[w].offset
      /\ \A v \in Worker \ {w} : worker'[v] = worker[v]
  <2>1. w \in Worker
    OBVIOUS
  <2> QED
    BY <1>1, <1>3, <1>5, GotoMoves, GotoOffsets DEF IInv
<1>7. TypeOK'
  BY <1>3, <1>5, <1>6 DEF IInv, TypeOK
<1>8. DOMAIN log[t] = 1 .. Len(log[t]) /\ Len(log[t]) \in Nat
  BY <1>2, TopicShape DEF IInv
<1>9. \A i \in DOMAIN log'[t] \ DOMAIN log[t] : log'[t][i] = m
  BY <1>5, <1>8
<1>10. AttemptsInv'
  <2>1. t = "dlq" => n >= MaxAttempts
    BY DEF t, Exhausted
  <2>2. t = "dlq" => failures[c] >= MaxAttempts
    BY <1>2, <1>4, <2>1, BoundsAssumption
  <2>3. ASSUME NEW u \in Topic, NEW i \in DOMAIN log'[u] \ DOMAIN log[u]
        PROVE  /\ failures'[log'[u][i].event] >= log'[u][i].attempts
               /\ u = "dlq" => failures'[log'[u][i].event] >= MaxAttempts
    <3>1. u = t
      BY <1>5, <2>3
    <3>2. log'[u][i].event = c /\ log'[u][i].attempts = n
      BY <1>9, <2>3, <3>1
    <3> QED
      BY <1>3, <1>4, <2>2, <3>1, <3>2
  <2>4. \A v \in Consumer : worker'[v].pc = "failed" =>
           At(v, "failed") /\ worker'[v].message = worker[v].message
    BY <1>6 DEF Worker, At
  <2>5. \A e \in Event : failures[e] <= failures'[e]
    BY <1>3 DEF IInv, TypeOK
  <2> QED
    BY <1>5, <1>7, <2>3, <2>4, <2>5, AttemptsStep DEF IInv
<1>11. RecordsInv'
  BY <1>3, <1>6, RecordsSame DEF IInv
<1>12. NothingLost'
  <2>1. ASSUME NEW d \in Event, d = c
        PROVE  Settled(d)'
    <3>1. CASE t = "dlq"
      <4>1. Len(log[t]) + 1 \in DOMAIN log'[t]
        BY <1>5, <1>8
      <4>2. \E i \in DOMAIN log'["dlq"] : log'["dlq"][i].event = d
        BY <1>5, <2>1, <3>1, <4>1
      <4> QED
        BY <4>2 DEF Settled, Has
    <3>2. CASE t # "dlq"
      <4>1. t \in Consumer
        BY <1>2, <3>2 DEF Topic
      <4>2. \A v \in Consumer : KeepsMessage(v)
        BY <1>1, <1>6 DEF Worker, KeepsMessage, At, Occupied, Step
      <4>3. Send(t, d, n)
        BY <1>3, <2>1
      <4>4. Awaiting(d)'
        BY <1>2, <1>3, <4>1, <4>2, <4>3, SentWaits DEF IInv
      <4> QED
        BY <4>4 DEF Settled
    <3> QED
      BY <3>1, <3>2
  <2>2. \A e \in Event : Has("base", e)' => Has("base", e)
    <3>1. t # "base" /\ "base" \in Topic
      BY DEF t, Topic, Consumer
    <3> QED
      BY <1>5, <3>1 DEF Has
  <2>3. \A d \in Event : d = Current(w) => Settled(d)'
    BY <1>2, <2>1
  <2>4. \A e \in Event : applied[e] <= applied'[e]
    BY <1>3 DEF IInv, TypeOK
  <2>5. \A v \in Consumer \ {w} : worker'[v].pc = "done" => At(v, "done")
    BY <1>6 DEF Worker, At
  <2>6. Stays
    BY <1>6, OffsetTyped DEF IInv, Stays, Worker
  <2> QED
    BY <1>1, <1>3, <1>5, <1>7, <2>2, <2>3, <2>4, <2>5, <2>6, AwaitingStep DEF IInv
<1> QED
  BY <1>6, <1>7, <1>10, <1>11, <1>12 DEF IInv

-----------------------------------------------------------------------------
(* Theorems *)

LEMMA StutterPreserves ==
    ASSUME IInv, UNCHANGED vars
    PROVE  IInv'
<1> USE DEF vars, setting, store, history, bounds
<1>1. TypeOK' /\ OffsetsKept'
  BY DEF IInv, TypeOK, OffsetsKept, At, Occupied
<1>2. AttemptsInv'
  BY <1>1, QuietAttempts
<1>3. RecordsInv'
  BY RecordsSame DEF IInv
<1>4. "rest" \in Worker
  BY DEF Worker
<1>5. NothingLost'
  <2>1. Stays
    BY OffsetTyped DEF IInv, Stays, Worker
  <2> QED
    BY <1>1, <1>4, <2>1, QuietAwaiting DEF At, Consumer
<1> QED
  BY <1>1, <1>2, <1>3, <1>5 DEF IInv

LEMMA NextPreserves == IInv /\ [Next]_vars => IInv'
<1> SUFFICES ASSUME IInv, [Next]_vars
             PROVE  IInv'
  OBVIOUS
<1>1. CASE UNCHANGED vars
  BY <1>1, StutterPreserves
<1>2. ASSUME NEW e \in Event, Publish(e) \/ Replay(e) \/ Ingest(e)
      PROVE  IInv'
  BY <1>2, PublishPreserves, ReplayPreserves, IngestPreserves
<1>3. ASSUME NEW w \in Worker,
             Start(w) \/ Take(w) \/ Check(w) \/ Reject(w) \/ Reroute(w) \/ Commit(w)
      PROVE  IInv'
  BY <1>3, StartPreserves, TakePreserves, CheckPreserves, RejectPreserves, ReroutePreserves, CommitPreserves
<1>4. ASSUME NEW w \in Worker,
             RecordNotification(w) \/ RecordProgress(w) \/ ApplyProgress(w) \/ PublishResult(w)
      PROVE  IInv'
  BY <1>4, RecordNotificationPreserves, RecordProgressPreserves, ApplyProgressPreserves,
     PublishResultPreserves
<1>5. ASSUME NEW w \in Worker, Fail(w) \/ LoseSend(w) \/ Crash(w)
      PROVE  IInv'
  BY <1>5, FailPreserves, LoseSendPreserves, CrashPreserves
<1>6. CASE Respond
  BY <1>6, RespondPreserves
<1> QED
  BY <1>1, <1>2, <1>3, <1>4, <1>5, <1>6 DEF Next, Proceed

LEMMA Invariance == Spec => []IInv
<1> QED
  BY InitIInv, NextPreserves, PTL DEF Spec

\* The topics, offsets and counters are what the consumers take them for, and an event
\* is in the dead-letter topic only after as many failures of its handler as there are
\* attempts (consume_event), for any number of crashes, retries and replays.
THEOREM GivenUpLate == Spec => []QueuesAgree
<1>1. IInv => QueuesAgree
  BY DEF IInv, AttemptsInv, QueuesAgree
<1> QED
  BY <1>1, Invariance, PTL

\* A service that stores each event under a unique event_id applies it at most once
\* (process_progress_event and ingest_event), whatever is redelivered, retried, replayed
\* or posted to its REST endpoint.
THEOREM AppliedOnce == Spec => []UniqueEventIdAppliedAtMostOnce
<1>1. IInv => UniqueEventIdAppliedAtMostOnce
  BY DEF IInv, RecordsInv
<1> QED
  BY <1>1, Invariance, PTL

LEMMA WaitingIsPending ==
    ASSUME NEW e, Awaiting(e)
    PROVE  Pending(e)
BY DEF Awaiting, Pending

\* Where the record of an event and its effect are one commit, an event that reached
\* its topic has taken effect, waits in a topic ahead of the consumer or is in the
\* dead-letter topic, unless the broker rejected a message of it or a consumer whose group
\* had no offset yet started behind one (consume_event commits its offset last).
THEOREM NothingDisappears == Spec => []AtomicHandlerLosesNothing
<1>1. IInv => AtomicHandlerLosesNothing
  BY WaitingIsPending DEF IInv, NothingLost, Settled, AtomicHandlerLosesNothing, Accounted
<1> QED
  BY <1>1, Invariance, PTL

-----------------------------------------------------------------------------
(* The dashboards *)

\* A request that has read an aggregate has read the latest of its scope, unless a
\* write has committed since.
ReadCurrent ==
    \A v \in Viewing :
        viewing[v].pc = "read" /\ ~viewing[v].overtaken =>
            viewing[v].shown = Latest(viewing[v].key.scope)

\* Between the deletion and the commit of a write, the entries of its scope are those
\* that the write has overtaken.
OnlyOvertaken ==
    \A w \in Writing : writing[w].pc = "invalidated" =>
        \A k \in Key :
            k.scope = writing[w].scope /\ cached[k] # NoEntry => cached[k].overtaken

DashboardsInv == DashboardsTypeOK /\ DashboardCurrent /\ ReadCurrent /\ OnlyOvertaken

Before == {d \in Nat \X Nat : d[1] < d[2]}

\* Among some dates there is a last one.
LEMMA LastDate ==
    ASSUME NEW days \in SUBSET Day, days # {}
    PROVE  Max(days) \in days
<1>1. LastDay \in Nat BY DashboardsAssumption
<1>2. IsWellFoundedOn(Before, Nat) BY NatLessThanWellFounded DEF OpToRel, Before
<1> DEFINE Distances == {LastDay - x : x \in days}
<1>3. Distances \subseteq Nat BY <1>1 DEF Day
<1>4. Distances # {} OBVIOUS
<1> HIDE DEF Distances
<1>5. PICK d \in Distances : \A e \in Distances : <<e, d>> \notin Before
  BY <1>2, <1>3, <1>4, WFMin
<1>6. PICK m \in days : d = LastDay - m BY DEF Distances
<1>7. ASSUME NEW x \in days PROVE m >= x
  <2>1. LastDay - x \in Distances /\ LastDay - x \in Nat BY <1>3 DEF Distances
  <2>2. ~ (LastDay - x < d) BY <2>1, <1>3, <1>5 DEF Before
  <2> QED BY <2>2, <1>1, <1>6 DEF Day
<1> QED BY <1>7 DEF Max

LEMMA LatestTyped ==
    ASSUME DashboardsTypeOK, NEW s \in DashboardScope
    PROVE  Latest(s) \in Shown
<1> DEFINE days == {d \in Day : aggregate[<<s, d>>] # 0}
<1>1. MaxMetrics \in Nat BY DashboardsAssumption
<1>2. CASE days = {} BY <1>1, <1>2 DEF Latest, Shown, NothingShown
<1>3. CASE days # {}
  <2>1. Max(days) \in days BY <1>3, LastDate
  <2>2. Max(days) \in Day /\ aggregate[<<s, Max(days)>>] \in 0 .. MaxMetrics
    BY <2>1 DEF DashboardsTypeOK
  <2>3. Latest(s) = [day |-> Max(days), metrics |-> aggregate[<<s, Max(days)>>]]
    BY <1>3 DEF Latest
  <2> QED BY <2>2, <2>3 DEF Shown
<1> QED BY <1>2, <1>3

\* The latest aggregate of a scope is a matter of the table of aggregates alone, and of
\* the rows of that scope.
LEMMA LatestKept ==
    ASSUME NEW s, \A d \in Day : aggregate'[<<s, d>>] = aggregate[<<s, d>>]
    PROVE  Latest(s)' = Latest(s)
<1>1. {d \in Day : aggregate[<<s, d>>] # 0}' = {d \in Day : aggregate[<<s, d>>] # 0}
  BY Zenon
<1>2. CASE {d \in Day : aggregate[<<s, d>>] # 0} = {} BY <1>1, <1>2 DEF Latest
<1>3. CASE {d \in Day : aggregate[<<s, d>>] # 0} # {}
  <2> DEFINE days == {d \in Day : aggregate[<<s, d>>] # 0}
  <2>1. Max(days) \in Day BY <1>3, LastDate
  <2>2. aggregate'[<<s, Max(days)>>] = aggregate[<<s, Max(days)>>] BY <2>1
  <2>3. Max(days') = Max(days) BY <1>1
  <2> QED BY <1>1, <1>3, <2>2, <2>3 DEF Latest
<1> QED BY <1>2, <1>3

LEMMA KeyScoped == \A k \in Key : k.scope \in DashboardScope
BY DEF Key, DashboardScope

LEMMA ReadingTyped ==
    ASSUME DashboardsTypeOK, NEW v \in Viewing
    PROVE  /\ viewing[v] # Waiting /\ viewing[v].pc = "missed" => viewing[v].key \in Key
           /\ viewing[v].pc = "missed" => viewing[v].key \in Key
           /\ viewing[v].pc = "read" =>
                 /\ viewing[v].key \in Key /\ viewing[v].shown \in Shown
                 /\ viewing[v].overtaken \in BOOLEAN
                 /\ viewing[v] \in [pc : {"read"}, key : Key, shown : Shown, overtaken : BOOLEAN]
BY DEF DashboardsTypeOK, ViewingState, Waiting

LEMMA WritingTyped ==
    ASSUME DashboardsTypeOK, NEW w \in Writing, writing[w].pc \in {"stored", "invalidated"}
    PROVE  writing[w] \in [pc : {"stored", "invalidated"}, scope : ManagedScope, day : Day,
                           metrics : 1 .. MaxMetrics]
BY DEF DashboardsTypeOK, WritingState, Waiting

LEMMA EntryTyped ==
    ASSUME DashboardsTypeOK, NEW k \in Key, cached[k] # NoEntry
    PROVE  cached[k] \in Entry
BY DEF DashboardsTypeOK

LEMMA DashboardsBegin == ASSUME DashboardsInit PROVE DashboardsInv
<1>1. MaxMetrics \in Nat \ {0} /\ MaxRedisFaults \in Nat BY DashboardsAssumption
<1>2. aggregate \in [DashboardScope \X Day -> 0 .. MaxMetrics] BY <1>1 DEF DashboardsInit
<1>3. cached \in [Key -> Entry \cup {NoEntry}] /\ \A k \in Key : cached[k] = NoEntry
  BY DEF DashboardsInit
<1>4. /\ viewing \in [Viewing -> ViewingState] /\ \A v \in Viewing : viewing[v] = Waiting
      /\ writing \in [Writing -> WritingState] /\ \A w \in Writing : writing[w] = Waiting
  BY DEF DashboardsInit, ViewingState, WritingState
<1>5. written \in 0 .. MaxMetrics /\ redisFaults \in 0 .. MaxRedisFaults
  BY <1>1 DEF DashboardsInit
<1>6. DashboardsTypeOK BY <1>2, <1>3, <1>4, <1>5 DEF DashboardsTypeOK
<1> QED BY <1>3, <1>4, <1>6 DEF DashboardsInv, DashboardCurrent, ReadCurrent, OnlyOvertaken, Waiting

\* A step that leaves the aggregates as they are leaves what is the latest.
LEMMA LatestUnchanged ==
    ASSUME UNCHANGED aggregate
    PROVE  \A s : Latest(s)' = Latest(s)
<1> SUFFICES ASSUME NEW s PROVE Latest(s)' = Latest(s) OBVIOUS
<1> QED BY LatestKept

LEMMA AskDashboardKeeps ==
    ASSUME DashboardsInv, NEW v \in Viewing, NEW k \in Key, AskDashboard(v, k)
    PROVE  DashboardsInv'
<1>0. DashboardsTypeOK BY DEF DashboardsInv
<1>1. \A s : Latest(s)' = Latest(s) BY LatestUnchanged DEF AskDashboard
<1> DEFINE next == [pc |-> "missed", key |-> k]
<1>2. /\ viewing' = [viewing EXCEPT ![v] = next] /\ next \in ViewingState /\ next.pc = "missed"
      /\ UNCHANGED <<aggregate, cached, writing, written>>
  BY DEF AskDashboard, ViewingState
<1>3. redisFaults' \in 0 .. MaxRedisFaults
  BY <1>0, DashboardsAssumption DEF AskDashboard, DashboardsTypeOK
<1> HIDE DEF next
<1>4. DashboardsTypeOK' BY <1>0, <1>2, <1>3 DEF DashboardsTypeOK
<1>5. ReadCurrent' BY <1>0, <1>1, <1>2 DEF ReadCurrent, DashboardsInv, DashboardsTypeOK
<1>6. DashboardCurrent' /\ OnlyOvertaken'
  BY <1>1, <1>2 DEF DashboardsInv, DashboardCurrent, OnlyOvertaken
<1> QED BY <1>4, <1>5, <1>6 DEF DashboardsInv

LEMMA ReadDashboardKeeps ==
    ASSUME DashboardsInv, NEW v \in Viewing, ReadDashboard(v)
    PROVE  DashboardsInv'
<1>0. DashboardsTypeOK BY DEF DashboardsInv
<1>1. \A s : Latest(s)' = Latest(s) BY LatestUnchanged DEF ReadDashboard
<1> PICK key : key = viewing[v].key OBVIOUS
<1> PICK shown : shown = Latest(key.scope) OBVIOUS
<1> DEFINE next == [pc |-> "read", key |-> key, shown |-> shown, overtaken |-> FALSE]
<1>2. key \in Key BY <1>0, ReadingTyped DEF ReadDashboard
<1>3. shown \in Shown BY <1>0, <1>2, KeyScoped, LatestTyped
<1>4. /\ viewing' = [viewing EXCEPT ![v] = next] /\ next \in ViewingState
      /\ next.shown = shown /\ next.key = key
      /\ UNCHANGED <<aggregate, cached, writing, written, redisFaults>>
  BY <1>2, <1>3 DEF ReadDashboard, ViewingState
<1> HIDE DEF next
<1>5. DashboardsTypeOK' BY <1>0, <1>4 DEF DashboardsTypeOK
<1>6. ReadCurrent'
  BY <1>0, <1>1, <1>4 DEF ReadCurrent, DashboardsInv, DashboardsTypeOK
<1>7. DashboardCurrent' /\ OnlyOvertaken'
  BY <1>1, <1>4 DEF DashboardsInv, DashboardCurrent, OnlyOvertaken
<1> QED BY <1>5, <1>6, <1>7 DEF DashboardsInv

LEMMA StoreDashboardKeeps ==
    ASSUME DashboardsInv, NEW v \in Viewing, StoreDashboard(v)
    PROVE  DashboardsInv'
<1>0. DashboardsTypeOK BY DEF DashboardsInv
<1>1. \A s : Latest(s)' = Latest(s) BY LatestUnchanged DEF StoreDashboard
<1> PICK key : key = viewing[v].key OBVIOUS
<1> PICK shown : shown = viewing[v].shown OBVIOUS
<1> PICK late \in BOOLEAN : late = (viewing[v].overtaken \/ Overtaking(key.scope) # {}) OBVIOUS
<1> DEFINE entry == [shown |-> shown, overtaken |-> late]
<1>2. key \in Key /\ shown \in Shown BY <1>0, ReadingTyped DEF StoreDashboard
<1>3. /\ cached' = [cached EXCEPT ![key] = entry] /\ entry \in Entry
      /\ entry.shown = shown /\ entry.overtaken = late
      /\ viewing' = [viewing EXCEPT ![v] = Waiting] /\ Waiting \in ViewingState
      /\ UNCHANGED <<aggregate, writing, written, redisFaults>>
  BY <1>2 DEF StoreDashboard, ViewingState, Entry
<1> HIDE DEF entry
<1>4. DashboardsTypeOK' BY <1>0, <1>3 DEF DashboardsTypeOK
<1>5. ReadCurrent'
  BY <1>0, <1>1, <1>3 DEF ReadCurrent, DashboardsInv, DashboardsTypeOK, Waiting
<1>6. DashboardCurrent'
  <2>1. ~late => shown = Latest(key.scope) BY DEF DashboardsInv, ReadCurrent, StoreDashboard
  <2> QED BY <1>0, <1>1, <1>2, <1>3, <2>1 DEF DashboardsInv, DashboardCurrent, DashboardsTypeOK
<1>7. OnlyOvertaken'
  <2>1. \A w \in Writing : writing[w].pc = "invalidated" /\ writing[w].scope = key.scope => late
    BY DEF Overtaking
  <2> QED BY <1>0, <1>2, <1>3, <2>1 DEF DashboardsInv, OnlyOvertaken, DashboardsTypeOK
<1> QED BY <1>4, <1>5, <1>6, <1>7 DEF DashboardsInv

LEMMA ExpireDashboardKeeps ==
    ASSUME DashboardsInv, NEW k \in Key, ExpireDashboard(k)
    PROVE  DashboardsInv'
<1>0. DashboardsTypeOK BY DEF DashboardsInv
<1>1. \A s : Latest(s)' = Latest(s) BY LatestUnchanged DEF ExpireDashboard
<1>2. /\ cached' = [cached EXCEPT ![k] = NoEntry]
      /\ UNCHANGED <<aggregate, viewing, writing, written, redisFaults>>
  BY DEF ExpireDashboard
<1>3. DashboardsTypeOK' BY <1>0, <1>2 DEF DashboardsTypeOK
<1>4. ReadCurrent' BY <1>1, <1>2 DEF ReadCurrent, DashboardsInv
<1>5. DashboardCurrent' /\ OnlyOvertaken'
  BY <1>0, <1>1, <1>2 DEF DashboardsInv, DashboardCurrent, OnlyOvertaken, DashboardsTypeOK
<1> QED BY <1>3, <1>4, <1>5 DEF DashboardsInv

LEMMA StoreAggregateKeeps ==
    ASSUME DashboardsInv, NEW w \in Writing, NEW s \in DashboardScope, NEW d \in Day,
           StoreAggregate(w, s, d)
    PROVE  DashboardsInv'
<1>0. DashboardsTypeOK BY DEF DashboardsInv
<1>1. \A t : Latest(t)' = Latest(t) BY LatestUnchanged DEF StoreAggregate
<1>2. written + 1 \in 1 .. MaxMetrics /\ written' = written + 1 /\ written' \in 0 .. MaxMetrics
  BY <1>0, DashboardsAssumption DEF StoreAggregate, DashboardsTypeOK
<1> DEFINE next == [pc |-> "stored", scope |-> s, day |-> d, metrics |-> written + 1]
<1>3. /\ writing' = [writing EXCEPT ![w] = next] /\ next \in WritingState /\ next.pc = "stored"
      /\ UNCHANGED <<aggregate, cached, viewing, redisFaults>>
  BY <1>2 DEF StoreAggregate, WritingState
<1> HIDE DEF next
<1>4. DashboardsTypeOK' BY <1>0, <1>2, <1>3 DEF DashboardsTypeOK
<1>5. ReadCurrent' /\ DashboardCurrent'
  BY <1>1, <1>3 DEF ReadCurrent, DashboardCurrent, DashboardsInv
<1>6. OnlyOvertaken' BY <1>0, <1>3 DEF DashboardsInv, OnlyOvertaken, DashboardsTypeOK
<1> QED BY <1>4, <1>5, <1>6 DEF DashboardsInv

\* What becomes of a write when the entries of its scope are deleted, or fail to be.
LEMMA InvalidatedTyped ==
    ASSUME DashboardsTypeOK, NEW w \in Writing, writing[w].pc = "stored",
           writing' = [writing EXCEPT ![w].pc = "invalidated"]
    PROVE  /\ writing' \in [Writing -> WritingState]
           /\ writing'[w].scope = writing[w].scope
           /\ \A x \in Writing \ {w} : writing'[x] = writing[x]
<1>1. writing[w] \in [pc : {"stored", "invalidated"}, scope : ManagedScope, day : Day,
                      metrics : 1 .. MaxMetrics]
  BY WritingTyped
<1>2. writing'[w] = [writing[w] EXCEPT !.pc = "invalidated"] BY DEF DashboardsTypeOK
<1>3. writing'[w] \in WritingState /\ writing'[w].scope = writing[w].scope
  BY <1>1, <1>2 DEF WritingState
<1> QED BY <1>3 DEF DashboardsTypeOK

\* Deleting the entries of a scope, or marking those that stay as overtaken.
LEMMA InvalidationKeeps ==
    ASSUME DashboardsInv, NEW w \in Writing, writing[w].pc = "stored",
           writing' = [writing EXCEPT ![w].pc = "invalidated"],
           UNCHANGED <<aggregate, viewing, written>>,
           redisFaults' \in 0 .. MaxRedisFaults,
           cached' \in [Key -> Entry \cup {NoEntry}],
           \A k \in Key : k.scope = writing[w].scope /\ cached'[k] # NoEntry => cached'[k].overtaken,
           \A k \in Key : k.scope # writing[w].scope => cached'[k] = cached[k]
    PROVE  DashboardsInv'
<1>0. DashboardsTypeOK BY DEF DashboardsInv
<1>1. \A s : Latest(s)' = Latest(s) BY LatestUnchanged
<1>2. /\ writing' \in [Writing -> WritingState]
      /\ writing'[w].scope = writing[w].scope
      /\ \A x \in Writing \ {w} : writing'[x] = writing[x]
  BY <1>0, InvalidatedTyped
<1>3. DashboardsTypeOK' BY <1>0, <1>2 DEF DashboardsTypeOK
<1>4. ReadCurrent' BY <1>1 DEF DashboardsInv, ReadCurrent
<1>5. DashboardCurrent' BY <1>1 DEF DashboardsInv, DashboardCurrent
<1>6. OnlyOvertaken'
  <2> SUFFICES ASSUME NEW x \in Writing, writing'[x].pc = "invalidated",
                      NEW k \in Key, k.scope = writing'[x].scope, cached'[k] # NoEntry
               PROVE  cached'[k].overtaken
    BY DEF OnlyOvertaken
  <2>1. CASE k.scope = writing[w].scope BY <2>1
  <2>2. CASE k.scope # writing[w].scope
    <3>1. writing'[x] = writing[x] /\ cached'[k] = cached[k] BY <1>2, <2>2
    <3> QED BY <3>1 DEF DashboardsInv, OnlyOvertaken
  <2> QED BY <2>1, <2>2
<1> QED BY <1>3, <1>4, <1>5, <1>6 DEF DashboardsInv

LEMMA InvalidateKeeps ==
    ASSUME DashboardsInv, NEW w \in Writing, InvalidateDashboards(w)
    PROVE  DashboardsInv'
<1>0. DashboardsTypeOK BY DEF DashboardsInv
<1>1. /\ cached' \in [Key -> Entry \cup {NoEntry}]
      /\ \A k \in Key : cached'[k] = IF k.scope = writing[w].scope THEN NoEntry ELSE cached[k]
  BY <1>0 DEF InvalidateDashboards, Dropped, DashboardsTypeOK
<1> QED BY <1>0, <1>1, InvalidationKeeps DEF InvalidateDashboards, DashboardsTypeOK

LEMMA FailInvalidationKeeps ==
    ASSUME DashboardsInv, NEW w \in Writing, FailInvalidation(w)
    PROVE  DashboardsInv'
<1>0. DashboardsTypeOK BY DEF DashboardsInv
<1>1. \A k \in Key : cached'[k] = IF k.scope = writing[w].scope /\ cached[k] # NoEntry
                                  THEN [cached[k] EXCEPT !.overtaken = TRUE] ELSE cached[k]
  BY DEF FailInvalidation, Overtake
<1>2. \A k \in Key : cached[k] # NoEntry => cached[k] \in Entry BY <1>0, EntryTyped
<1>3. \A k \in Key : cached'[k] \in Entry \cup {NoEntry}
  BY <1>1, <1>2 DEF Entry
<1>4. cached' \in [Key -> Entry \cup {NoEntry}] BY <1>3 DEF FailInvalidation, Overtake
<1>5. \A k \in Key : k.scope = writing[w].scope /\ cached'[k] # NoEntry => cached'[k].overtaken
  BY <1>1, <1>2 DEF Entry
<1>6. redisFaults' \in 0 .. MaxRedisFaults
  BY <1>0, DashboardsAssumption DEF FailInvalidation, DashboardsTypeOK
<1> QED BY <1>1, <1>4, <1>5, <1>6, InvalidationKeeps DEF FailInvalidation

LEMMA CommitAggregateKeeps ==
    ASSUME DashboardsInv, NEW w \in Writing, CommitAggregate(w)
    PROVE  DashboardsInv'
<1>0. DashboardsTypeOK BY DEF DashboardsInv
<1> PICK s : s = writing[w].scope OBVIOUS
<1> PICK day : day = writing[w].day OBVIOUS
<1>1. /\ s \in ManagedScope /\ day \in Day
      /\ writing[w].metrics \in 1 .. MaxMetrics
  BY <1>0, WritingTyped DEF CommitAggregate
<1>2. /\ aggregate' = [aggregate EXCEPT ![<<s, day>>] = writing[w].metrics]
      /\ writing' = [writing EXCEPT ![w] = Waiting]
      /\ UNCHANGED <<cached, written, redisFaults>>
  BY DEF CommitAggregate
<1>3. aggregate' \in [DashboardScope \X Day -> 0 .. MaxMetrics]
  BY <1>0, <1>1, <1>2, DashboardsAssumption DEF DashboardsTypeOK, ManagedScope, DashboardScope
<1>4. \A t \in DashboardScope \ {s} : Latest(t)' = Latest(t)
  <2> SUFFICES ASSUME NEW t \in DashboardScope \ {s} PROVE Latest(t)' = Latest(t) OBVIOUS
  <2>1. \A d \in Day : aggregate'[<<t, d>>] = aggregate[<<t, d>>]
    BY <1>0, <1>2 DEF DashboardsTypeOK
  <2> QED BY <2>1, LatestKept
<1>5. \A v \in Viewing : viewing'[v] = IF viewing[v].pc = "read" /\ viewing[v].key.scope = s
                                       THEN [viewing[v] EXCEPT !.overtaken = TRUE] ELSE viewing[v]
  BY DEF CommitAggregate
<1>6. \A v \in Viewing : viewing[v].pc = "read" =>
          viewing[v] \in [pc : {"read"}, key : Key, shown : Shown, overtaken : BOOLEAN]
  BY <1>0, ReadingTyped
<1>7. \A v \in Viewing : viewing[v].pc = "read" /\ viewing[v].key.scope = s =>
          /\ viewing'[v] \in [pc : {"read"}, key : Key, shown : Shown, overtaken : BOOLEAN]
          /\ viewing'[v].overtaken
  BY <1>5, <1>6
<1>8. viewing' \in [Viewing -> ViewingState]
  <2>1. \A v \in Viewing : viewing'[v] \in ViewingState
    BY <1>0, <1>5, <1>7 DEF DashboardsTypeOK, ViewingState
  <2> QED BY <2>1 DEF CommitAggregate
<1>9. DashboardsTypeOK' BY <1>0, <1>2, <1>3, <1>8 DEF DashboardsTypeOK, WritingState
<1>10. ReadCurrent'
  <2> SUFFICES ASSUME NEW v \in Viewing, viewing'[v].pc = "read", ~viewing'[v].overtaken
               PROVE  (viewing[v].shown = Latest(viewing[v].key.scope))'
    BY DEF ReadCurrent
  <2>1. viewing'[v] = viewing[v] /\ viewing[v].key.scope # s BY <1>5, <1>7
  <2>2. viewing[v].key.scope \in DashboardScope \ {s} BY <1>6, <2>1, KeyScoped
  <2>3. Latest(viewing[v].key.scope)' = Latest(viewing[v].key.scope)
    BY <1>4, <2>1, <2>2
  <2> QED BY <2>1, <2>3 DEF DashboardsInv, ReadCurrent
<1>11. DashboardCurrent'
  <2> SUFFICES ASSUME NEW k \in Key, cached[k] # NoEntry, ~cached[k].overtaken
               PROVE  cached[k].shown = Latest(k.scope)'
    BY <1>2 DEF DashboardCurrent
  <2>1. k.scope # s BY DEF DashboardsInv, OnlyOvertaken, CommitAggregate
  <2>2. Latest(k.scope)' = Latest(k.scope) BY <1>4, <2>1, KeyScoped
  <2> QED BY <2>2 DEF DashboardsInv, DashboardCurrent
<1>12. OnlyOvertaken'
  BY <1>0, <1>2 DEF DashboardsInv, OnlyOvertaken, DashboardsTypeOK, Waiting
<1> QED BY <1>9, <1>10, <1>11, <1>12 DEF DashboardsInv

LEMMA StopDashboardKeeps ==
    ASSUME DashboardsInv, StopDashboard
    PROVE  DashboardsInv'
<1>0. DashboardsTypeOK BY DEF DashboardsInv
<1>1. \A s : Latest(s)' = Latest(s) BY LatestUnchanged DEF StopDashboard
<1>2. CASE /\ \E w \in Writing : writing[w] # Waiting /\ writing' = [writing EXCEPT ![w] = Waiting]
           /\ UNCHANGED <<aggregate, cached, viewing, written, redisFaults>>
  <2>1. DashboardsTypeOK' BY <1>0, <1>2 DEF DashboardsTypeOK, WritingState
  <2>2. ReadCurrent' /\ DashboardCurrent'
    BY <1>1, <1>2 DEF ReadCurrent, DashboardCurrent, DashboardsInv
  <2>3. OnlyOvertaken' BY <1>0, <1>2 DEF DashboardsInv, OnlyOvertaken, DashboardsTypeOK, Waiting
  <2> QED BY <2>1, <2>2, <2>3 DEF DashboardsInv
<1>3. CASE /\ \E v \in Viewing : viewing[v] # Waiting /\ viewing' = [viewing EXCEPT ![v] = Waiting]
           /\ UNCHANGED <<aggregate, cached, writing, written, redisFaults>>
  <2>1. DashboardsTypeOK' BY <1>0, <1>3 DEF DashboardsTypeOK, ViewingState
  <2>2. ReadCurrent' BY <1>0, <1>1, <1>3 DEF ReadCurrent, DashboardsInv, DashboardsTypeOK, Waiting
  <2>3. DashboardCurrent' /\ OnlyOvertaken'
    BY <1>1, <1>3 DEF DashboardsInv, DashboardCurrent, OnlyOvertaken
  <2> QED BY <2>1, <2>2, <2>3 DEF DashboardsInv
<1> QED BY <1>2, <1>3 DEF StopDashboard

LEMMA DashboardsKeep == ASSUME DashboardsInv, DashboardsNext PROVE DashboardsInv'
BY AskDashboardKeeps, ReadDashboardKeeps, StoreDashboardKeeps, ExpireDashboardKeeps,
   StoreAggregateKeeps, InvalidateKeeps, FailInvalidationKeeps, CommitAggregateKeeps,
   StopDashboardKeeps
DEF DashboardsNext

LEMMA DashboardsStutter ==
    ASSUME DashboardsInv, UNCHANGED dashboardVars
    PROVE  DashboardsInv'
<1>1. UNCHANGED <<aggregate, cached, viewing, writing, written, redisFaults>> BY DEF dashboardVars
<1>2. \A s : Latest(s)' = Latest(s) BY <1>1, LatestUnchanged
<1> QED
  BY <1>1, <1>2 DEF DashboardsInv, DashboardsTypeOK, DashboardCurrent, ReadCurrent, OnlyOvertaken

-----------------------------------------------------------------------------
(* The reports *)

FactFigure == {"events", "by_type"}
MetricFigure == {"average", "metrics", "by_name"}
IndexFigure == {"indexed", "by_status"}
FigureName == FactFigure \cup MetricFigure \cup IndexFigure \cup {"active"}

\* The rows that a figure can ever be counted from: facts and metrics are never changed.
Source(figure, scope) ==
    CASE figure \in FactFigure -> FactRows(scope)
      [] figure \in MetricFigure -> MetricRows(scope)
      [] OTHER -> {r \in Resource \X Record : Within(scope, r[2].institution)}

\* The figures are a part of the report's queries, and all of them when it is stored.
Fitting(x) ==
    /\ Len(x.figures) <= Len(Queries[x.type])
    /\ x.stored => x.figures = <<>> \/ Len(x.figures) = Len(Queries[x.type])

Sourced(x) ==
    \A k \in DOMAIN x.figures : x.figures[k] \subseteq Source(Queries[x.type][k], x.scope)

\* What is only ever added to is counted in full by a later figure.
Growing(x) ==
    \A j, k \in DOMAIN x.figures : j < k =>
        /\ Queries[x.type][j] \in FactFigure /\ Queries[x.type][k] \in FactFigure =>
              x.figures[j] \subseteq x.figures[k]
        /\ Queries[x.type][j] \in MetricFigure /\ Queries[x.type][k] \in MetricFigure =>
              x.figures[j] \subseteq x.figures[k]

\* Until a row is written, the figures are those that the queries would give now ...
UpToDate(x) ==
    ~x.moved /\ ~x.stored /\ Len(x.figures) < Len(Queries[x.type]) =>
        \A k \in DOMAIN x.figures : x.figures[k] = FigureRows(Queries[x.type][k], x.scope)

\* ... and so they are, all of them, counted from the same rows.
Together(x) ==
    ~x.moved => \A j, k \in DOMAIN x.figures :
        /\ \A same \in {FactFigure, MetricFigure, IndexFigure} :
              Queries[x.type][j] \in same /\ Queries[x.type][k] \in same =>
                  x.figures[j] = x.figures[k]
        /\ Queries[x.type][j] = "active" /\ Queries[x.type][k] \in IndexFigure =>
              x.figures[j] = Active(x.figures[k])

ReportsInv ==
    /\ ReportsTypeOK
    /\ \A n \in Snapshot : snapshot[n] # Unbegun =>
          /\ Fitting(snapshot[n]) /\ Sourced(snapshot[n]) /\ Growing(snapshot[n])
          /\ UpToDate(snapshot[n]) /\ Together(snapshot[n])

LEMMA QueriesTyped ==
    ASSUME NEW t \in ReportType
    PROVE  /\ Len(Queries[t]) \in {3, 4}
           /\ DOMAIN Queries[t] = 1 .. Len(Queries[t])
           /\ \A k \in 1 .. Len(Queries[t]) : Queries[t][k] \in FigureName
<1>1. CASE t = "active_users" BY <1>1 DEF Queries, FigureName, FactFigure, MetricFigure, IndexFigure
<1>2. CASE t = "enrollments" BY <1>2 DEF Queries, FigureName, FactFigure, MetricFigure, IndexFigure
<1>3. CASE t = "completion_rates" BY <1>3 DEF Queries, FigureName, FactFigure, MetricFigure, IndexFigure
<1>4. CASE t = "assessment_results" BY <1>4 DEF Queries, FigureName, FactFigure, MetricFigure, IndexFigure
<1>5. CASE t = "system_usage" BY <1>5 DEF Queries, FigureName, FactFigure, MetricFigure, IndexFigure
<1> QED BY <1>1, <1>2, <1>3, <1>4, <1>5 DEF ReportType

\* What is listed or averaged is counted by a later query, and whoever counts the active
\* counts all by status.
LEMMA QueriesOrdered ==
    ASSUME NEW t \in ReportType, NEW k \in 1 .. Len(Queries[t])
    PROVE  /\ Queries[t][k] = "by_name" =>
                 \E j \in 1 .. Len(Queries[t]) : k < j /\ Queries[t][j] = "metrics"
           /\ Queries[t][k] = "average" =>
                 \E j \in 1 .. Len(Queries[t]) : k < j /\ Queries[t][j] = "metrics"
           /\ Queries[t][k] = "by_type" =>
                 \E j \in 1 .. Len(Queries[t]) : k < j /\ Queries[t][j] = "events"
           /\ Queries[t][k] = "active" =>
                 \E j \in 1 .. Len(Queries[t]) : Queries[t][j] = "by_status"
           /\ Queries[t][k] = "by_status" =>
                 \E j \in 1 .. Len(Queries[t]) : Queries[t][j] = "indexed"
<1>1. CASE t = "active_users"
  <2>1. Queries[t] = <<"active", "indexed", "events", "by_status">> BY <1>1 DEF Queries
  <2> QED BY <2>1
<1>2. CASE t = "enrollments"
  <2>1. Queries[t] = <<"indexed", "events", "by_status">> BY <1>2 DEF Queries
  <2> QED BY <2>1
<1>3. CASE t = "completion_rates"
  <2>1. Queries[t] = <<"average", "metrics", "events">> BY <1>3 DEF Queries
  <2> QED BY <2>1
<1>4. CASE t = "assessment_results"
  <2>1. Queries[t] = <<"average", "metrics", "indexed", "by_status">> BY <1>4 DEF Queries
  <2> QED BY <2>1
<1>5. CASE t = "system_usage"
  <2>1. Queries[t] = <<"by_name", "by_type", "metrics", "events">> BY <1>5 DEF Queries
  <2> QED BY <2>1
<1> QED BY <1>1, <1>2, <1>3, <1>4, <1>5 DEF ReportType

\* What a query of each kind gives.
LEMMA FigureKinds ==
    ASSUME NEW scope
    PROVE  /\ \A figure \in FactFigure : FigureRows(figure, scope) = FactRows(scope)
           /\ \A figure \in MetricFigure : FigureRows(figure, scope) = MetricRows(scope)
           /\ \A figure \in IndexFigure : FigureRows(figure, scope) = IndexRows(scope)
           /\ FigureRows("active", scope) = Active(IndexRows(scope))
BY DEF FactFigure, MetricFigure, IndexFigure, FigureRows

LEMMA FigureSourced ==
    ASSUME ReportsTypeOK, NEW figure \in FigureName, NEW scope
    PROVE  /\ FigureRows(figure, scope) \subseteq Source(figure, scope)
           /\ FigureRows(figure, scope) \in SUBSET AnyRow
<1>1. CASE figure \in FactFigure
  <2>1. FigureRows(figure, scope) = FactRows(scope) BY <1>1, FigureKinds
  <2>2. Source(figure, scope) = FactRows(scope) BY <1>1 DEF Source, FactFigure, MetricFigure
  <2> QED BY <2>1, <2>2 DEF FactRows, AnyRow, ReportsTypeOK
<1>2. CASE figure \in MetricFigure
  <2>1. FigureRows(figure, scope) = MetricRows(scope) BY <1>2, FigureKinds
  <2>2. Source(figure, scope) = MetricRows(scope) BY <1>2 DEF Source, FactFigure, MetricFigure
  <2> QED BY <2>1, <2>2 DEF MetricRows, AnyRow, ReportsTypeOK
<1>3. CASE figure \in IndexFigure \cup {"active"}
  <2>1. FigureRows(figure, scope) \subseteq IndexRows(scope) BY <1>3, FigureKinds DEF Active
  <2>2. Source(figure, scope) = {r \in Resource \X Record : Within(scope, r[2].institution)}
    BY <1>3 DEF Source, FactFigure, MetricFigure, IndexFigure
  <2>3. IndexRows(scope) \subseteq {r \in Resource \X Record : Within(scope, r[2].institution)}
    BY DEF IndexRows
  <2> QED BY <2>1, <2>2, <2>3 DEF AnyRow
<1> QED BY <1>1, <1>2, <1>3 DEF FigureName

LEMMA MakingTyped ==
    ASSUME ReportsTypeOK, NEW n \in Snapshot, snapshot[n] # Unbegun
    PROVE  /\ snapshot[n] \in ReportSnapshot
           /\ snapshot[n].type \in ReportType /\ snapshot[n].figures \in Seq(SUBSET AnyRow)
           /\ snapshot[n].stored \in BOOLEAN /\ snapshot[n].moved \in BOOLEAN
BY DEF ReportsTypeOK, ReportSnapshot

LEMMA ReportsBegin == ASSUME ReportsInit PROVE ReportsInv
<1>1. /\ snapshot \in [Snapshot -> ReportSnapshot \cup {Unbegun}]
      /\ \A n \in Snapshot : snapshot[n] = Unbegun
  BY DEF ReportsInit
<1>2. writes \in 0 .. MaxWrites BY ReportsAssumption DEF ReportsInit
<1>3. /\ DOMAIN facts \subseteq Fact /\ \A e \in DOMAIN facts : facts[e] \in Institution
      /\ DOMAIN metrics \subseteq Metric /\ \A m \in DOMAIN metrics : metrics[m] \in Institution
      /\ DOMAIN indexed \subseteq Resource /\ \A r \in DOMAIN indexed : indexed[r] \in Record
  <2>1. CASE facts = <<>> /\ metrics = <<>> /\ indexed = <<>>
    <3>1. DOMAIN facts = {} /\ DOMAIN metrics = {} /\ DOMAIN indexed = {} BY <2>1
    <3> QED BY <3>1
  <2>2. CASE \E e \in Fact, m \in Metric, r \in Resource, i \in Institution :
                /\ facts = [x \in {e} |-> i] /\ metrics = [x \in {m} |-> i]
                /\ indexed = [x \in {r} |-> [institution |-> i, status |-> "other"]]
    BY <2>2 DEF Record, ResourceStatus
  <2> QED BY <2>1, <2>2 DEF ReportsInit
<1> QED BY <1>1, <1>2, <1>3 DEF ReportsInv, ReportsTypeOK

-----------------------------------------------------------------------------

\* What Move leaves of the snapshots.
LEMMA MoveTyped ==
    ASSUME ReportsTypeOK, Move, NEW n \in Snapshot, snapshot[n] # Unbegun
    PROVE  /\ snapshot'[n] \in ReportSnapshot
           /\ snapshot'[n].type = snapshot[n].type /\ snapshot'[n].scope = snapshot[n].scope
           /\ snapshot'[n].figures = snapshot[n].figures
           /\ snapshot'[n].stored = snapshot[n].stored
           /\ ~snapshot'[n].moved =>
                 /\ ~snapshot[n].moved
                 /\ snapshot[n].stored \/ Len(snapshot[n].figures) = 0
                    \/ Len(snapshot[n].figures) >= Len(Queries[snapshot[n].type])
<1>1. snapshot[n] \in ReportSnapshot /\ Len(snapshot[n].figures) \in Nat
      /\ Len(Queries[snapshot[n].type]) \in Nat
  BY MakingTyped, QueriesTyped
<1>2. snapshot'[n] =
        IF Making(n) /\ Len(snapshot[n].figures) \in 1 .. Len(Queries[snapshot[n].type]) - 1
        THEN [snapshot[n] EXCEPT !.moved = TRUE] ELSE snapshot[n]
  BY DEF Move
<1>3. CASE Making(n) /\ Len(snapshot[n].figures) \in 1 .. Len(Queries[snapshot[n].type]) - 1
  <2>1. snapshot'[n] = [snapshot[n] EXCEPT !.moved = TRUE] BY <1>2, <1>3
  <2> QED BY <1>1, <2>1 DEF ReportSnapshot
<1>4. CASE ~ (Making(n) /\ Len(snapshot[n].figures) \in 1 .. Len(Queries[snapshot[n].type]) - 1)
  <2>1. snapshot'[n] = snapshot[n] BY <1>2, <1>4
  <2>2. snapshot[n].stored \/ Len(snapshot[n].figures) = 0
        \/ Len(snapshot[n].figures) >= Len(Queries[snapshot[n].type])
    BY <1>1, <1>4 DEF Making
  <2> QED BY <1>1, <2>1, <2>2
<1> QED BY <1>3, <1>4

\* A write of a table, which adds to the facts and metrics.
LEMMA TablesKeep ==
    ASSUME ReportsInv, Move, writes' \in 0 .. MaxWrites,
           DOMAIN facts' \subseteq Fact, \A e \in DOMAIN facts' : facts'[e] \in Institution,
           DOMAIN metrics' \subseteq Metric, \A m \in DOMAIN metrics' : metrics'[m] \in Institution,
           DOMAIN indexed' \subseteq Resource, \A r \in DOMAIN indexed' : indexed'[r] \in Record,
           \A s : FactRows(s) \subseteq FactRows(s)' /\ MetricRows(s) \subseteq MetricRows(s)'
    PROVE  ReportsInv'
<1>0. ReportsTypeOK BY DEF ReportsInv
<1>1. \A n \in Snapshot : snapshot[n] = Unbegun => snapshot'[n] = Unbegun
  BY DEF Move, Making
<1>2. \A n \in Snapshot : snapshot[n] # Unbegun => snapshot'[n] \in ReportSnapshot
  BY <1>0, MoveTyped
<1>3. snapshot' \in [Snapshot -> ReportSnapshot \cup {Unbegun}]
  <2>1. \A n \in Snapshot : snapshot'[n] \in ReportSnapshot \cup {Unbegun} BY <1>1, <1>2
  <2> QED BY <2>1 DEF Move
<1>4. ReportsTypeOK' BY <1>3 DEF ReportsTypeOK
<1>5. ASSUME NEW n \in Snapshot, snapshot'[n] # Unbegun
      PROVE  /\ Fitting(snapshot[n])' /\ Sourced(snapshot[n])' /\ Growing(snapshot[n])'
             /\ UpToDate(snapshot[n])' /\ Together(snapshot[n])'
  <2>1. snapshot[n] # Unbegun BY <1>1, <1>5
  <2> PICK x : x = snapshot[n] OBVIOUS
  <2> PICK y : y = snapshot'[n] OBVIOUS
  <2>2. /\ y.type = x.type /\ y.scope = x.scope /\ y.figures = x.figures /\ y.stored = x.stored
        /\ ~y.moved => ~x.moved /\ (x.stored \/ Len(x.figures) = 0
                                    \/ Len(x.figures) >= Len(Queries[x.type]))
    BY <1>0, <2>1, MoveTyped
  <2>3. x.type \in ReportType /\ x.figures \in Seq(SUBSET AnyRow) BY <1>0, <2>1, MakingTyped
  <2>4. Fitting(x) /\ Sourced(x) /\ Growing(x) /\ Together(x) BY <2>1 DEF ReportsInv
  <2>5. Fitting(y) /\ Growing(y) /\ Together(y) BY <2>2, <2>4 DEF Fitting, Growing, Together
  <2>6. Sourced(y)'
    <3> SUFFICES ASSUME NEW k \in DOMAIN x.figures
                 PROVE  x.figures[k] \subseteq Source(Queries[x.type][k], x.scope)'
      BY <2>2 DEF Sourced
    <3>1. x.figures[k] \subseteq Source(Queries[x.type][k], x.scope) BY <2>4 DEF Sourced
    <3>2. Source(Queries[x.type][k], x.scope) \subseteq Source(Queries[x.type][k], x.scope)'
      <4>1. FactRows(x.scope) \subseteq FactRows(x.scope)' /\ MetricRows(x.scope) \subseteq MetricRows(x.scope)'
        OBVIOUS
      <4>2. CASE Queries[x.type][k] \in FactFigure BY <4>1, <4>2 DEF Source, FactFigure, MetricFigure
      <4>3. CASE Queries[x.type][k] \in MetricFigure BY <4>1, <4>3 DEF Source, FactFigure, MetricFigure
      <4>4. CASE Queries[x.type][k] \notin FactFigure \cup MetricFigure BY <4>4 DEF Source
      <4> QED BY <4>2, <4>3, <4>4
    <3> QED BY <3>1, <3>2
  <2>7. UpToDate(y)'
    <3>1. DOMAIN x.figures = 1 .. Len(x.figures) /\ Len(x.figures) \in Nat
          /\ Len(Queries[x.type]) \in Nat
      BY <2>3, QueriesTyped
    <3> QED BY <2>2, <3>1 DEF UpToDate
  <2> QED BY <2>5, <2>6, <2>7 DEF Fitting, Sourced, Growing, UpToDate, Together
<1> QED BY <1>4, <1>5 DEF ReportsInv

LEMMA IngestFactKeeps ==
    ASSUME ReportsInv, NEW e \in Fact, NEW i \in Institution, IngestFact(e, i)
    PROVE  ReportsInv'
<1>0. ReportsTypeOK BY DEF ReportsInv
<1>1. /\ DOMAIN facts' = DOMAIN facts \cup {e} /\ facts'[e] = i
      /\ \A x \in DOMAIN facts : facts'[x] = facts[x]
  BY DEF IngestFact, Store
<1>2. \A s : FactRows(s) \subseteq FactRows(s)' BY <1>1 DEF FactRows
<1>3. \A s : MetricRows(s)' = MetricRows(s) BY DEF IngestFact, MetricRows
<1>4. /\ DOMAIN facts' \subseteq Fact /\ \A x \in DOMAIN facts' : facts'[x] \in Institution
      /\ UNCHANGED <<metrics, indexed, writes>>
  BY <1>0, <1>1 DEF IngestFact, ReportsTypeOK
<1> QED BY <1>0, <1>2, <1>3, <1>4, TablesKeep DEF IngestFact, ReportsTypeOK

LEMMA CreateMetricKeeps ==
    ASSUME ReportsInv, NEW m \in Metric, NEW i \in Institution, CreateMetric(m, i)
    PROVE  ReportsInv'
<1>0. ReportsTypeOK BY DEF ReportsInv
<1>1. /\ DOMAIN metrics' = DOMAIN metrics \cup {m} /\ metrics'[m] = i
      /\ \A x \in DOMAIN metrics : metrics'[x] = metrics[x]
  BY DEF CreateMetric, Store
<1>2. \A s : MetricRows(s) \subseteq MetricRows(s)' BY <1>1 DEF MetricRows
<1>3. \A s : FactRows(s)' = FactRows(s) BY DEF CreateMetric, FactRows
<1>4. /\ DOMAIN metrics' \subseteq Metric /\ \A x \in DOMAIN metrics' : metrics'[x] \in Institution
      /\ UNCHANGED <<facts, indexed, writes>>
  BY <1>0, <1>1 DEF CreateMetric, ReportsTypeOK
<1> QED BY <1>0, <1>2, <1>3, <1>4, TablesKeep DEF CreateMetric, ReportsTypeOK

LEMMA IndexResourceKeeps ==
    ASSUME ReportsInv, NEW r \in Resource, NEW x \in Record, IndexResource(r, x)
    PROVE  ReportsInv'
<1>0. ReportsTypeOK BY DEF ReportsInv
<1>1. /\ DOMAIN indexed' = DOMAIN indexed \cup {r} /\ indexed'[r] = x
      /\ \A q \in DOMAIN indexed \ {r} : indexed'[q] = indexed[q]
  BY DEF IndexResource, Store
<1>2. \A s : FactRows(s)' = FactRows(s) /\ MetricRows(s)' = MetricRows(s)
  BY DEF IndexResource, FactRows, MetricRows
<1>3. /\ DOMAIN indexed' \subseteq Resource /\ \A q \in DOMAIN indexed' : indexed'[q] \in Record
      /\ UNCHANGED <<facts, metrics>>
  BY <1>0, <1>1 DEF IndexResource, ReportsTypeOK
<1>4. writes' \in 0 .. MaxWrites
  BY <1>0, ReportsAssumption DEF IndexResource, ReportsTypeOK
<1> QED BY <1>0, <1>2, <1>3, <1>4, TablesKeep DEF IndexResource, ReportsTypeOK

LEMMA DropResourceKeeps ==
    ASSUME ReportsInv, NEW r \in Resource, DropResource(r)
    PROVE  ReportsInv'
<1>0. ReportsTypeOK BY DEF ReportsInv
<1>1. \A s : FactRows(s)' = FactRows(s) /\ MetricRows(s)' = MetricRows(s)
  BY DEF DropResource, FactRows, MetricRows
<1>2. /\ DOMAIN indexed' \subseteq Resource /\ \A q \in DOMAIN indexed' : indexed'[q] \in Record
      /\ UNCHANGED <<facts, metrics>>
  BY <1>0 DEF DropResource, ReportsTypeOK
<1>3. writes' \in 0 .. MaxWrites
  BY <1>0, ReportsAssumption DEF DropResource, ReportsTypeOK
<1> QED BY <1>0, <1>1, <1>2, <1>3, TablesKeep DEF DropResource, ReportsTypeOK

-----------------------------------------------------------------------------

\* A step of one report, which leaves the tables as they are.
LEMMA SnapshotKeeps ==
    ASSUME ReportsInv, NEW n \in Snapshot, UNCHANGED <<reportTables, writes>>,
           NEW y \in ReportSnapshot \cup {Unbegun}, snapshot' = [snapshot EXCEPT ![n] = y],
           y # Unbegun => Fitting(y) /\ Sourced(y) /\ Growing(y) /\ UpToDate(y) /\ Together(y)
    PROVE  ReportsInv'
<1>0. ReportsTypeOK BY DEF ReportsInv
<1>1. UNCHANGED <<facts, metrics, indexed, writes>> BY DEF reportTables
<1>2. snapshot'[n] = y /\ \A m \in Snapshot \ {n} : snapshot'[m] = snapshot[m]
  BY <1>0 DEF ReportsTypeOK
<1>3. ReportsTypeOK' BY <1>0, <1>1 DEF ReportsTypeOK
<1>4. \A m \in Snapshot : snapshot'[m] # Unbegun =>
        /\ Fitting(snapshot'[m]) /\ Sourced(snapshot'[m]) /\ Growing(snapshot'[m])
        /\ UpToDate(snapshot'[m]) /\ Together(snapshot'[m])
  BY <1>2 DEF ReportsInv
<1>5. \A s : FactRows(s)' = FactRows(s) /\ MetricRows(s)' = MetricRows(s) /\ IndexRows(s)' = IndexRows(s)
  BY <1>1 DEF FactRows, MetricRows, IndexRows
<1>6. \A f, s : Source(f, s)' = Source(f, s) /\ FigureRows(f, s)' = FigureRows(f, s)
  BY <1>5 DEF Source, FigureRows
<1>7. ASSUME NEW m \in Snapshot, snapshot'[m] # Unbegun
      PROVE  /\ Fitting(snapshot[m])' /\ Sourced(snapshot[m])' /\ Growing(snapshot[m])'
             /\ UpToDate(snapshot[m])' /\ Together(snapshot[m])'
  <2> PICK x : x = snapshot'[m] OBVIOUS
  <2>1. Fitting(x) /\ Sourced(x) /\ Growing(x) /\ UpToDate(x) /\ Together(x) BY <1>4, <1>7
  <2>2. Sourced(x)' BY <1>6, <2>1 DEF Sourced
  <2>3. UpToDate(x)' BY <1>6, <2>1 DEF UpToDate
  <2> QED BY <2>1, <2>2, <2>3 DEF Fitting, Sourced, Growing, UpToDate, Together
<1> QED BY <1>3, <1>7 DEF ReportsInv

\* A report without a figure.
LEMMA EmptyReport ==
    ASSUME NEW type \in ReportType, NEW scope \in Institution \cup {"all"}, NEW isStored \in BOOLEAN,
           NEW y, y = [type |-> type, scope |-> scope, figures |-> <<>>, stored |-> isStored,
                       moved |-> FALSE]
    PROVE  /\ y \in ReportSnapshot
           /\ Fitting(y) /\ Sourced(y) /\ Growing(y) /\ UpToDate(y) /\ Together(y)
<1>1. y.figures = <<>> /\ y.type = type BY Zenon
<1>2. <<>> \in Seq(SUBSET AnyRow) OBVIOUS
<1>3. y \in ReportSnapshot BY <1>2 DEF ReportSnapshot
<1>4. Len(y.figures) = 0 /\ DOMAIN y.figures = {} BY <1>1
<1>5. Len(Queries[type]) \in {3, 4} BY QueriesTyped
<1>6. Fitting(y) BY <1>1, <1>4, <1>5 DEF Fitting
<1> QED BY <1>3, <1>4, <1>6 DEF Sourced, Growing, UpToDate, Together

LEMMA BeginReportKeeps ==
    ASSUME ReportsInv, NEW n \in Snapshot, NEW type \in ReportType,
           NEW scope \in Institution \cup {"all"},
           BeginReport(n, type, scope) \/ PostReport(n, type, scope)
    PROVE  ReportsInv'
<1> DEFINE Empty(isStored) == [type |-> type, scope |-> scope, figures |-> <<>>,
                              stored |-> isStored, moved |-> FALSE]
<1>1. PICK b \in BOOLEAN : snapshot' = [snapshot EXCEPT ![n] = Empty(b)]
  BY DEF BeginReport, PostReport
<1>2. UNCHANGED <<reportTables, writes>> BY DEF BeginReport, PostReport
<1> PICK y : y = Empty(b) OBVIOUS
<1>3. /\ y \in ReportSnapshot
      /\ Fitting(y) /\ Sourced(y) /\ Growing(y) /\ UpToDate(y) /\ Together(y)
  BY EmptyReport
<1>4. snapshot' = [snapshot EXCEPT ![n] = y] BY <1>1
<1> QED BY <1>2, <1>3, <1>4, SnapshotKeeps

LEMMA FailReportKeeps ==
    ASSUME ReportsInv, NEW n \in Snapshot, FailReport(n)
    PROVE  ReportsInv'
BY SnapshotKeeps DEF FailReport

LEMMA StoreReportKeeps ==
    ASSUME ReportsInv, NEW n \in Snapshot, StoreReport(n)
    PROVE  ReportsInv'
<1>0. ReportsTypeOK BY DEF ReportsInv
<1>1. snapshot[n] # Unbegun /\ ~snapshot[n].stored BY DEF StoreReport, Making
<1> PICK x : x = snapshot[n] OBVIOUS
<1> PICK y : y = [x EXCEPT !.stored = TRUE] OBVIOUS
<1>2. snapshot' = [snapshot EXCEPT ![n] = y] BY Zenon DEF StoreReport
<1>3. x \in ReportSnapshot BY <1>0, <1>1, MakingTyped
<1>4. y \in ReportSnapshot /\ y.stored BY <1>3 DEF ReportSnapshot
<1>5. y.type = x.type /\ y.scope = x.scope /\ y.figures = x.figures /\ y.moved = x.moved
  BY <1>3 DEF ReportSnapshot
<1>6. Fitting(x) /\ Sourced(x) /\ Growing(x) /\ UpToDate(x) /\ Together(x) BY <1>1 DEF ReportsInv
<1>7. Len(x.figures) = Len(Queries[x.type]) BY DEF StoreReport
<1>8. Fitting(y) BY <1>5, <1>6, <1>7 DEF Fitting
<1>9. UpToDate(y) BY <1>4 DEF UpToDate
<1>10. Sourced(y) /\ Growing(y) /\ Together(y) BY <1>5, <1>6 DEF Sourced, Growing, Together
<1> QED BY <1>2, <1>4, <1>8, <1>9, <1>10, SnapshotKeeps DEF StoreReport

LEMMA QueryFigureKeeps ==
    ASSUME ReportsInv, NEW n \in Snapshot, QueryFigure(n)
    PROVE  ReportsInv'
<1>0. ReportsTypeOK BY DEF ReportsInv
<1>1. snapshot[n] # Unbegun /\ ~snapshot[n].stored BY DEF QueryFigure, Making
<1> PICK x : x = snapshot[n] OBVIOUS
<1> PICK last : last = Len(x.figures) + 1 OBVIOUS
<1> PICK figure : figure = Queries[x.type][last] OBVIOUS
<1> PICK counted : counted = FigureRows(figure, x.scope) OBVIOUS
<1> PICK y : y = [x EXCEPT !.figures = Append(x.figures, counted)] OBVIOUS
<1>2. snapshot' = [snapshot EXCEPT ![n] = y] BY Zenon DEF QueryFigure
<1>3. /\ x \in ReportSnapshot /\ x.type \in ReportType /\ x.figures \in Seq(SUBSET AnyRow)
      /\ x.stored = FALSE /\ x.moved \in BOOLEAN
  BY <1>0, <1>1, MakingTyped
<1>4. Fitting(x) /\ Sourced(x) /\ Growing(x) /\ UpToDate(x) /\ Together(x) BY <1>1 DEF ReportsInv
<1>5. Len(x.figures) < Len(Queries[x.type]) BY DEF QueryFigure
<1>6. Len(x.figures) \in Nat /\ Len(Queries[x.type]) \in Nat /\ last \in 1 .. Len(Queries[x.type])
      /\ DOMAIN x.figures = 1 .. Len(x.figures)
  BY <1>3, <1>5, QueriesTyped
<1>7. figure \in FigureName BY <1>3, <1>6, QueriesTyped
<1>8. counted \subseteq Source(figure, x.scope) /\ counted \in SUBSET AnyRow
  BY <1>0, <1>7, FigureSourced
<1>9. Append(x.figures, counted) \in Seq(SUBSET AnyRow) BY <1>3, <1>8
<1>10. y \in ReportSnapshot /\ y.figures = Append(x.figures, counted)
  BY <1>3, <1>9 DEF ReportSnapshot
<1>11. y.type = x.type /\ y.scope = x.scope /\ y.stored = FALSE /\ y.moved = x.moved
  BY <1>3 DEF ReportSnapshot
<1>12. /\ Len(y.figures) = last /\ DOMAIN y.figures = 1 .. last /\ y.figures[last] = counted
       /\ \A k \in 1 .. Len(x.figures) : y.figures[k] = x.figures[k]
  BY <1>3, <1>8, <1>10
<1>13. \A k \in 1 .. last : k = last \/ k \in 1 .. Len(x.figures) BY <1>6
<1>14. \A k \in 1 .. Len(x.figures) : Queries[x.type][k] \in FigureName
  BY <1>3, <1>5, <1>6, QueriesTyped
<1>15. ~x.moved => \A k \in 1 .. last : y.figures[k] = FigureRows(Queries[x.type][k], x.scope)
  <2>1. ~x.moved => \A k \in 1 .. Len(x.figures) :
            x.figures[k] = FigureRows(Queries[x.type][k], x.scope)
    BY <1>3, <1>4, <1>5, <1>6 DEF UpToDate
  <2> QED BY <2>1, <1>12, <1>13
<1>16. Fitting(y) BY <1>6, <1>11, <1>12 DEF Fitting
<1>17. Sourced(y)
  <2>1. \A k \in 1 .. last : y.figures[k] \subseteq Source(Queries[x.type][k], x.scope)
    BY <1>4, <1>6, <1>8, <1>12, <1>13 DEF Sourced
  <2> QED BY <2>1, <1>11, <1>12 DEF Sourced
<1>18. Growing(y)
  <2>1. \A j \in 1 .. Len(x.figures) :
          /\ Queries[x.type][j] \in FactFigure /\ figure \in FactFigure => y.figures[j] \subseteq counted
          /\ Queries[x.type][j] \in MetricFigure /\ figure \in MetricFigure =>
                y.figures[j] \subseteq counted
    <3> SUFFICES ASSUME NEW j \in 1 .. Len(x.figures)
                 PROVE  /\ Queries[x.type][j] \in FactFigure /\ figure \in FactFigure =>
                              y.figures[j] \subseteq counted
                        /\ Queries[x.type][j] \in MetricFigure /\ figure \in MetricFigure =>
                              y.figures[j] \subseteq counted
      OBVIOUS
    <3>1. y.figures[j] \subseteq Source(Queries[x.type][j], x.scope)
      BY <1>4, <1>6, <1>12 DEF Sourced
    <3>2. CASE Queries[x.type][j] \in FactFigure /\ figure \in FactFigure
      <4>1. Source(Queries[x.type][j], x.scope) = counted
        BY <3>2, FigureKinds DEF Source, FactFigure, MetricFigure
      <4> QED BY <3>1, <4>1
    <3>3. CASE Queries[x.type][j] \in MetricFigure /\ figure \in MetricFigure
      <4>1. Source(Queries[x.type][j], x.scope) = MetricRows(x.scope)
        BY <3>3 DEF Source, FactFigure, MetricFigure
      <4>2. counted = MetricRows(x.scope) BY <3>3, FigureKinds
      <4> QED BY <3>1, <4>1, <4>2
    <3> QED BY <3>2, <3>3
  <2>2. \A j, k \in 1 .. last : j < k => j \in 1 .. Len(x.figures) BY <1>6
  <2> SUFFICES ASSUME NEW j \in 1 .. last, NEW k \in 1 .. last, j < k
               PROVE  /\ Queries[x.type][j] \in FactFigure /\ Queries[x.type][k] \in FactFigure =>
                            y.figures[j] \subseteq y.figures[k]
                      /\ Queries[x.type][j] \in MetricFigure /\ Queries[x.type][k] \in MetricFigure =>
                            y.figures[j] \subseteq y.figures[k]
    BY <1>11, <1>12 DEF Growing
  <2>3. j \in 1 .. Len(x.figures) BY <2>2
  <2>4. CASE k = last BY <2>1, <2>3, <2>4, <1>12
  <2>5. CASE k \in 1 .. Len(x.figures)
    <3>1. y.figures[j] = x.figures[j] /\ y.figures[k] = x.figures[k] BY <2>3, <2>5, <1>12
    <3> QED BY <2>3, <2>5, <3>1, <1>4, <1>6 DEF Growing
  <2> QED BY <2>4, <2>5, <1>13
<1>19. UpToDate(y) BY <1>11, <1>12, <1>15 DEF UpToDate
<1>20. Together(y)
  <2> SUFFICES ASSUME ~x.moved PROVE Together(y) BY <1>11 DEF Together
  <2>1. \A k \in 1 .. last : y.figures[k] = FigureRows(Queries[x.type][k], x.scope) BY <1>15, <1>11
  <2>2. ASSUME NEW same \in {FactFigure, MetricFigure, IndexFigure},
               NEW j \in 1 .. last, NEW k \in 1 .. last,
               Queries[x.type][j] \in same, Queries[x.type][k] \in same
        PROVE  y.figures[j] = y.figures[k]
    <3>1. CASE same = FactFigure
      <4>1. y.figures[j] = FactRows(x.scope) BY <2>1, <2>2, <3>1, FigureKinds
      <4>2. y.figures[k] = FactRows(x.scope) BY <2>1, <2>2, <3>1, FigureKinds
      <4> QED BY <4>1, <4>2
    <3>2. CASE same = MetricFigure
      <4>1. y.figures[j] = MetricRows(x.scope) BY <2>1, <2>2, <3>2, FigureKinds
      <4>2. y.figures[k] = MetricRows(x.scope) BY <2>1, <2>2, <3>2, FigureKinds
      <4> QED BY <4>1, <4>2
    <3>3. CASE same = IndexFigure
      <4>1. y.figures[j] = IndexRows(x.scope) BY <2>1, <2>2, <3>3, FigureKinds
      <4>2. y.figures[k] = IndexRows(x.scope) BY <2>1, <2>2, <3>3, FigureKinds
      <4> QED BY <4>1, <4>2
    <3> QED BY <3>1, <3>2, <3>3
  <2>3. ASSUME NEW j \in 1 .. last, NEW k \in 1 .. last,
               Queries[x.type][j] = "active", Queries[x.type][k] \in IndexFigure
        PROVE  y.figures[j] = Active(y.figures[k])
    <3>1. y.figures[j] = Active(IndexRows(x.scope)) BY <2>1, <2>3, FigureKinds
    <3>2. y.figures[k] = IndexRows(x.scope) BY <2>1, <2>3, FigureKinds
    <3> QED BY <3>1, <3>2
  <2>4. DOMAIN y.figures = 1 .. last /\ y.type = x.type BY <1>11, <1>12
  <2>5. \A j, k \in 1 .. last :
          /\ \A same \in {FactFigure, MetricFigure, IndexFigure} :
                Queries[x.type][j] \in same /\ Queries[x.type][k] \in same =>
                    y.figures[j] = y.figures[k]
          /\ Queries[x.type][j] = "active" /\ Queries[x.type][k] \in IndexFigure =>
                y.figures[j] = Active(y.figures[k])
    <3> TAKE j, k \in 1 .. last
    <3>1. \A same \in {FactFigure, MetricFigure, IndexFigure} :
            Queries[x.type][j] \in same /\ Queries[x.type][k] \in same => y.figures[j] = y.figures[k]
      <4> TAKE same \in {FactFigure, MetricFigure, IndexFigure}
      <4> HAVE Queries[x.type][j] \in same /\ Queries[x.type][k] \in same
      <4> QED BY <2>2
    <3>2. Queries[x.type][j] = "active" /\ Queries[x.type][k] \in IndexFigure =>
            y.figures[j] = Active(y.figures[k])
      BY <2>3
    <3> QED BY <3>1, <3>2, Zenon
  <2> QED BY <2>4, <2>5 DEF Together
<1> QED BY <1>2, <1>10, <1>16, <1>17, <1>18, <1>19, <1>20, SnapshotKeeps DEF QueryFigure

LEMMA ReportsKeep == ASSUME ReportsInv, ReportsNext PROVE ReportsInv'
BY IngestFactKeeps, CreateMetricKeeps, IndexResourceKeeps, DropResourceKeeps, BeginReportKeeps,
   QueryFigureKeeps, StoreReportKeeps, FailReportKeeps
DEF ReportsNext

LEMMA ReportsStutter ==
    ASSUME ReportsInv, UNCHANGED reportVars
    PROVE  ReportsInv'
<1>0. ReportsTypeOK BY DEF ReportsInv
<1>1. UNCHANGED <<facts, metrics, indexed, snapshot, writes>> BY DEF reportVars, reportTables
<1>2. \A s : FactRows(s)' = FactRows(s) /\ MetricRows(s)' = MetricRows(s) /\ IndexRows(s)' = IndexRows(s)
  BY <1>1 DEF FactRows, MetricRows, IndexRows
<1>3. \A f, s : Source(f, s)' = Source(f, s) /\ FigureRows(f, s)' = FigureRows(f, s)
  BY <1>2 DEF Source, FigureRows
<1>4. ReportsTypeOK' BY <1>0, <1>1 DEF ReportsTypeOK
<1> QED
  BY <1>1, <1>3, <1>4 DEF ReportsInv, Fitting, Sourced, Growing, UpToDate, Together

-----------------------------------------------------------------------------
(* What a finished report says *)

LEMMA GeneratedTyped ==
    ASSUME ReportsInv, NEW n \in Generated
    PROVE  /\ snapshot[n] \in ReportSnapshot /\ snapshot[n].type \in ReportType
           /\ DOMAIN snapshot[n].figures = 1 .. Len(Queries[snapshot[n].type])
           /\ Sourced(snapshot[n]) /\ Growing(snapshot[n]) /\ Together(snapshot[n])
           /\ \A k \in DOMAIN snapshot[n].figures : snapshot[n].figures[k] \subseteq AnyRow
<1>1. n \in Snapshot /\ snapshot[n] # Unbegun /\ snapshot[n].stored /\ snapshot[n].figures # <<>>
  BY DEF Generated
<1>2. /\ snapshot[n] \in ReportSnapshot /\ snapshot[n].type \in ReportType
      /\ snapshot[n].figures \in Seq(SUBSET AnyRow)
  BY <1>1, MakingTyped DEF ReportsInv
<1>3. Len(snapshot[n].figures) = Len(Queries[snapshot[n].type]) BY <1>1 DEF ReportsInv, Fitting
<1> QED BY <1>1, <1>2, <1>3 DEF ReportsInv

\* The place of a figure, by name.
LEMMA PlaceIs ==
    ASSUME NEW n, NEW name
    PROVE  /\ \A k : k \in Place(n, name) <=>
                 k \in DOMAIN snapshot[n].figures /\ Queries[snapshot[n].type][k] = name
           /\ \A row : row \in Figure(n, name) <=>
                 \E k \in Place(n, name) : row \in snapshot[n].figures[k]
BY DEF Place, Figure

\* Two figures of which the second is counted later from all that the first was.
LEMMA Contains ==
    ASSUME ReportsInv, NEW n \in Generated, NEW name, NEW whole,
           \A k \in 1 .. Len(Queries[snapshot[n].type]) : Queries[snapshot[n].type][k] = name =>
               \E j \in 1 .. Len(Queries[snapshot[n].type]) :
                   k < j /\ Queries[snapshot[n].type][j] = whole,
           {name, whole} \subseteq FactFigure \/ {name, whole} \subseteq MetricFigure
    PROVE  Contained(n, name, whole)
<1> SUFFICES ASSUME NEW row \in Figure(n, name) PROVE row \in Figure(n, whole)
  BY DEF Contained
<1>1. PICK k \in Place(n, name) : row \in snapshot[n].figures[k] BY PlaceIs
<1>2. k \in DOMAIN snapshot[n].figures /\ Queries[snapshot[n].type][k] = name BY PlaceIs
<1>3. DOMAIN snapshot[n].figures = 1 .. Len(Queries[snapshot[n].type]) /\ Growing(snapshot[n])
  BY GeneratedTyped
<1>4. PICK j \in DOMAIN snapshot[n].figures : k < j /\ Queries[snapshot[n].type][j] = whole
  BY <1>2, <1>3
<1>5. snapshot[n].figures[k] \subseteq snapshot[n].figures[j] BY <1>2, <1>3, <1>4 DEF Growing
<1> QED BY <1>1, <1>4, <1>5, PlaceIs

LEMMA ReportsListed == ASSUME ReportsInv PROVE ListedIsCounted
<1> SUFFICES ASSUME NEW n \in Generated
             PROVE  /\ Contained(n, "by_name", "metrics")
                    /\ Contained(n, "by_type", "events")
                    /\ Contained(n, "average", "metrics")
  BY DEF ListedIsCounted
<1>1. snapshot[n].type \in ReportType BY GeneratedTyped
<1>2. Contained(n, "by_name", "metrics") BY <1>1, QueriesOrdered, Contains DEF MetricFigure
<1>3. Contained(n, "by_type", "events") BY <1>1, QueriesOrdered, Contains DEF FactFigure
<1>4. Contained(n, "average", "metrics") BY <1>1, QueriesOrdered, Contains DEF MetricFigure
<1> QED BY <1>2, <1>3, <1>4

\* Two figures of a report that are counted from the same rows.
LEMMA Equals ==
    ASSUME ReportsInv, NEW n \in Generated, ~snapshot[n].moved, NEW name, NEW other,
           \A k \in 1 .. Len(Queries[snapshot[n].type]) : Queries[snapshot[n].type][k] = name =>
               \E j \in 1 .. Len(Queries[snapshot[n].type]) : Queries[snapshot[n].type][j] = other,
           \E same \in {FactFigure, MetricFigure, IndexFigure} : {name, other} \subseteq same
    PROVE  Equal(n, name, other)
<1> SUFFICES ASSUME Place(n, name) # {} PROVE Figure(n, name) = Figure(n, other)
  BY DEF Equal
<1>1. DOMAIN snapshot[n].figures = 1 .. Len(Queries[snapshot[n].type]) /\ Together(snapshot[n])
  BY GeneratedTyped
<1>2. PICK k0 : k0 \in Place(n, name) OBVIOUS
<1>3. PICK j0 \in DOMAIN snapshot[n].figures : Queries[snapshot[n].type][j0] = other
  BY <1>1, <1>2, PlaceIs
<1>4. j0 \in Place(n, other) BY <1>3, PlaceIs
<1>5. ASSUME NEW k \in Place(n, name), NEW j \in Place(n, other)
      PROVE  snapshot[n].figures[k] = snapshot[n].figures[j]
  <2>1. /\ k \in DOMAIN snapshot[n].figures /\ Queries[snapshot[n].type][k] = name
        /\ j \in DOMAIN snapshot[n].figures /\ Queries[snapshot[n].type][j] = other
    BY PlaceIs
  <2>2. PICK same \in {FactFigure, MetricFigure, IndexFigure} : name \in same /\ other \in same
    OBVIOUS
  <2> QED BY <1>1, <2>1, <2>2 DEF Together
<1>6. ASSUME NEW row \in Figure(n, name) PROVE row \in Figure(n, other)
  <2>1. PICK k \in Place(n, name) : row \in snapshot[n].figures[k] BY PlaceIs
  <2> QED BY <1>4, <1>5, <2>1, PlaceIs
<1>7. ASSUME NEW row \in Figure(n, other) PROVE row \in Figure(n, name)
  <2>1. PICK j \in Place(n, other) : row \in snapshot[n].figures[j] BY PlaceIs
  <2> QED BY <1>2, <1>5, <2>1, PlaceIs
<1> QED BY <1>6, <1>7

LEMMA ReportsAddUp == ASSUME ReportsInv PROVE ReportAddsUp
<1> SUFFICES ASSUME NEW n \in Generated, ~snapshot[n].moved
             PROVE  /\ Equal(n, "by_status", "indexed")
                    /\ Place(n, "active") # {} =>
                          Figure(n, "active") = Active(Figure(n, "by_status"))
                    /\ Equal(n, "by_type", "events")
                    /\ Equal(n, "average", "metrics")
  BY DEF ReportAddsUp
<1>1. /\ snapshot[n].type \in ReportType /\ Together(snapshot[n])
      /\ DOMAIN snapshot[n].figures = 1 .. Len(Queries[snapshot[n].type])
  BY GeneratedTyped
<1>2. Equal(n, "by_status", "indexed")
  <2>1. {"by_status", "indexed"} \subseteq IndexFigure BY DEF IndexFigure
  <2> QED BY <1>1, <2>1, QueriesOrdered, Equals
<1>3. Equal(n, "by_type", "events")
  <2>1. {"by_type", "events"} \subseteq FactFigure BY DEF FactFigure
  <2> QED BY <1>1, <2>1, QueriesOrdered, Equals
<1>4. Equal(n, "average", "metrics")
  <2>1. {"average", "metrics"} \subseteq MetricFigure BY DEF MetricFigure
  <2> QED BY <1>1, <2>1, QueriesOrdered, Equals
<1>5. ASSUME Place(n, "active") # {} PROVE Figure(n, "active") = Active(Figure(n, "by_status"))
  <2>1. PICK k0 : k0 \in Place(n, "active") BY <1>5
  <2>2. k0 \in 1 .. Len(Queries[snapshot[n].type]) /\ Queries[snapshot[n].type][k0] = "active"
    BY <1>1, <2>1, PlaceIs
  <2>3. PICK j0 \in DOMAIN snapshot[n].figures : Queries[snapshot[n].type][j0] = "by_status"
    BY <1>1, <2>2, QueriesOrdered
  <2>4. j0 \in Place(n, "by_status") BY <2>3, PlaceIs
  <2>5. ASSUME NEW k \in Place(n, "active"), NEW j \in Place(n, "by_status")
        PROVE  snapshot[n].figures[k] = Active(snapshot[n].figures[j])
    <3>1. /\ k \in DOMAIN snapshot[n].figures /\ Queries[snapshot[n].type][k] = "active"
          /\ j \in DOMAIN snapshot[n].figures /\ Queries[snapshot[n].type][j] = "by_status"
      BY PlaceIs
    <3>2. Queries[snapshot[n].type][j] \in IndexFigure BY <3>1 DEF IndexFigure
    <3> QED BY <1>1, <3>1, <3>2 DEF Together
  <2>6. ASSUME NEW row \in Figure(n, "active") PROVE row \in Active(Figure(n, "by_status"))
    <3>1. PICK k \in Place(n, "active") : row \in snapshot[n].figures[k] BY PlaceIs
    <3>2. row \in Active(snapshot[n].figures[j0]) BY <2>4, <2>5, <3>1
    <3>3. row \in snapshot[n].figures[j0] /\ row[2].status = "active" BY <3>2 DEF Active
    <3>4. row \in Figure(n, "by_status") BY <2>4, <3>3, PlaceIs
    <3> QED BY <3>3, <3>4 DEF Active
  <2>7. ASSUME NEW row \in Active(Figure(n, "by_status")) PROVE row \in Figure(n, "active")
    <3>1. row \in Figure(n, "by_status") /\ row[2].status = "active" BY DEF Active
    <3>2. PICK j \in Place(n, "by_status") : row \in snapshot[n].figures[j] BY <3>1, PlaceIs
    <3>3. row \in Active(snapshot[n].figures[j]) BY <3>1, <3>2 DEF Active
    <3>4. row \in snapshot[n].figures[k0] BY <2>1, <2>5, <3>2, <3>3
    <3> QED BY <2>1, <3>4, PlaceIs
  <2> QED BY <2>6, <2>7
<1> QED BY <1>2, <1>3, <1>4, <1>5

LEMMA ReportsWithin == ASSUME ReportsInv PROVE ReportWithinScope
<1> SUFFICES ASSUME NEW n \in Generated, snapshot[n].scope # "all",
                    NEW k \in DOMAIN snapshot[n].figures, NEW row \in snapshot[n].figures[k]
             PROVE  CASE row \in Fact -> facts[row] = snapshot[n].scope
                      [] row \in Metric -> metrics[row] = snapshot[n].scope
                      [] OTHER -> row[2].institution = snapshot[n].scope
  BY Zenon DEF ReportWithinScope
<1> PICK name : name = Queries[snapshot[n].type][k] OBVIOUS
<1> PICK scope : scope = snapshot[n].scope OBVIOUS
<1>1. row \in Source(name, scope) BY GeneratedTyped DEF Sourced
<1>2. \A i : Within(scope, i) => scope = i BY DEF Within
<1>3. Fact \cap Metric = {}
      /\ (Fact \cup Metric) \cap (Resource \X Record) = {}
  BY ReportsAssumption DEF Record, ResourceStatus
<1>4. ReportsTypeOK BY DEF ReportsInv
<1>5. CASE name \in FactFigure
  <2>1. row \in FactRows(scope) BY <1>1, <1>5 DEF Source, FactFigure, MetricFigure
  <2>2. row \in Fact /\ facts[row] = scope BY <1>2, <1>4, <2>1 DEF FactRows, ReportsTypeOK
  <2>3. row \notin Metric BY <1>3, <2>2
  <2> QED BY <2>2, <2>3
<1>6. CASE name \in MetricFigure
  <2>1. row \in MetricRows(scope) BY <1>1, <1>6 DEF Source, FactFigure, MetricFigure
  <2>2. row \in Metric /\ metrics[row] = scope BY <1>2, <1>4, <2>1 DEF MetricRows, ReportsTypeOK
  <2>3. row \notin Fact BY <1>3, <2>2
  <2> QED BY <2>2, <2>3
<1>7. CASE name \notin FactFigure \cup MetricFigure
  <2>1. row \in Resource \X Record /\ Within(scope, row[2].institution)
    BY <1>1, <1>7 DEF Source
  <2>2. row[2].institution = scope /\ row \notin Fact /\ row \notin Metric BY <1>2, <1>3, <2>1
  <2> QED BY <2>2
<1> QED BY <1>5, <1>6, <1>7

-----------------------------------------------------------------------------
(* All of it *)

LEMMA DashboardsSteps == ASSUME DashboardsInv, [EdgeNext]_edgeVars PROVE DashboardsInv'
<1>1. CASE DashboardsNext BY <1>1, DashboardsKeep
<1>2. CASE UNCHANGED dashboardVars BY <1>2, DashboardsStutter
<1> QED BY <1>1, <1>2 DEF EdgeNext, edgeVars

LEMMA ReportsSteps == ASSUME ReportsInv, [EdgeNext]_edgeVars PROVE ReportsInv'
<1>1. CASE ReportsNext BY <1>1, ReportsKeep
<1>2. CASE UNCHANGED reportVars BY <1>2, ReportsStutter
<1> QED BY <1>1, <1>2 DEF EdgeNext, edgeVars

\* A cached dashboard shows the latest aggregate of its scope unless a write overtook the
\* request that stored it: upsert_dashboard_aggregate against cached_dashboard_payload.
THEOREM DashboardsSound == EdgeSpec => []DashboardsAgree
<1>1. EdgeInit => DashboardsInv BY DashboardsBegin DEF EdgeInit
<1>2. DashboardsInv /\ [EdgeNext]_edgeVars => DashboardsInv' BY DashboardsSteps
<1>3. DashboardsInv => DashboardsAgree BY DEF DashboardsInv, DashboardsAgree
<1> QED BY <1>1, <1>2, <1>3, PTL DEF EdgeSpec

\* The figures of a generated report agree with each other, as far as queries without a
\* transaction let them, and are of its scope: generate_report_snapshot.
THEOREM ReportsSound == EdgeSpec => []ReportsAgree
<1>1. EdgeInit => ReportsInv BY ReportsBegin DEF EdgeInit
<1>2. ReportsInv /\ [EdgeNext]_edgeVars => ReportsInv' BY ReportsSteps
<1>3. ReportsInv => ReportsAgree
  BY ReportsListed, ReportsAddUp, ReportsWithin DEF ReportsInv, ReportsAgree
<1> QED BY <1>1, <1>2, <1>3, PTL DEF EdgeSpec

-----------------------------------------------------------------------------
(* The notifications *)

Work == [pc : {"find", "prefer", "announce"}, notice : Notice, rest : BOOLEAN,
         todo : SUBSET Recipient, to : Recipient \cup {"nobody"},
         found : SUBSET Recipient, made : SUBSET Recipient,
         restores : BOOLEAN, seen : Template \cup {NoTemplate}]

\* The preferences of the recipients of an event, as they are now, are on record.
Noted(n) ==
    \A p \in audience[n] : IF Enabled(p) THEN <<n, p>> \in wanted ELSE <<n, p>> \in declined

\* Whoever a handler notifies wanted it and, unless the event is handled twice at a time,
\* has no notification of it yet; nobody is forgotten.
MadeRightly(w) ==
    /\ \A p \in w.made : <<w.notice, p>> \in wanted
    /\ w.notice \notin overlapped /\ w.pc # "announce" =>
          \A p \in w.made : Existing(w.notice, p) = {}
    /\ w.notice \notin overlapped /\ w.pc = "prefer" => Existing(w.notice, w.to) = {}

Answered(n, p) == Existing(n, p) # {} \/ <<n, p>> \in declined

NobodyForgotten(w) ==
    /\ w.todo \subseteq audience[w.notice]
    /\ w.pc = "prefer" => w.to \in w.todo
    /\ w.pc # "announce" => \A p \in audience[w.notice] \ w.todo : p \in w.made \/ Answered(w.notice, p)
    /\ w.pc = "announce" => \A p \in audience[w.notice] : Answered(w.notice, p)

Restoring(w) == w.restores => ~Usable(w.seen)

Handling(w) == Noted(w.notice) /\ MadeRightly(w) /\ NobodyForgotten(w) /\ Restoring(w)

HandlersApart ==
    \A g, h \in Handler :
        /\ handler[g] # NoWork /\ handler[h] # NoWork
        /\ handler[g].notice = handler[h].notice /\ handler[g].notice \notin overlapped
        => g = h

OneNotification ==
    \A i, j \in DOMAIN inbox :
        /\ inbox[i].notice = inbox[j].notice /\ inbox[i].to = inbox[j].to
        /\ inbox[i].notice \notin overlapped
        => i = j

InboxInv ==
    /\ InboxTypeOK
    /\ \A h \in Handler : handler[h] # NoWork => Handling(handler[h])
    /\ HandlersApart /\ OneNotification /\ OptOutRespected /\ AnnouncedIsSettled

LEMMA WorkTyped ==
    ASSUME InboxTypeOK, NEW h \in Handler
    PROVE  /\ handler[h] # NoWork <=> handler[h] \in Work
           /\ handler[h].pc # "idle" => handler[h] \in Work
<1>1. handler[h] = NoWork \/ handler[h] \in Work BY DEF InboxTypeOK, HandlerState, Work
<1>2. \A w \in Work : w.pc # "idle" BY DEF Work
<1> QED BY <1>1, <1>2 DEF NoWork

LEMMA WorkInState == Work \subseteq HandlerState /\ NoWork \in HandlerState /\ NoWork \notin Work
<1>1. \A w \in Work : w.pc # "idle" BY DEF Work
<1> QED BY <1>1 DEF Work, HandlerState, NoWork

LEMMA InboxBegin == ASSUME InboxInit PROVE InboxInv
<1>1. \A h \in Handler : handler[h] = NoWork BY DEF InboxInit
<1>2. inbox = <<>> /\ announced = {} BY DEF InboxInit
<1>3. handler \in [Handler -> HandlerState] /\ opener \in [Opener -> OpenerState]
  BY DEF InboxInit, HandlerState, OpenerState
<1>4. inbox \in Seq(Notification) /\ DOMAIN inbox = {} BY <1>2
<1>5. InboxTypeOK BY <1>3, <1>4 DEF InboxInit, InboxTypeOK
<1> QED
  BY <1>1, <1>2, <1>4, <1>5
  DEF InboxInv, HandlersApart, OneNotification, OptOutRespected, AnnouncedIsSettled

-----------------------------------------------------------------------------
(* Steps that notify nobody *)

\* The rows are the same, but for their marks.
SameNotes ==
    /\ DOMAIN inbox' = DOMAIN inbox
    /\ \A i \in DOMAIN inbox : inbox'[i].notice = inbox[i].notice /\ inbox'[i].to = inbox[i].to

LEMMA ExistingKept ==
    ASSUME SameNotes
    PROVE  \A n, p : Existing(n, p)' = Existing(n, p)
BY DEF SameNotes, Existing

\* What holds of a handler's work holds when the records of preferences grow.
LEMMA HandlingKept ==
    ASSUME NEW w, Handling(w), UNCHANGED audience, wanted \subseteq wanted', declined \subseteq declined',
           overlapped \subseteq overlapped', \A n, p : Existing(n, p)' = Existing(n, p),
           Noted(w.notice)'
    PROVE  Handling(w)'
<1>1. \A n, p : Answered(n, p) => Answered(n, p)' BY DEF Answered
<1>2. MadeRightly(w)' BY DEF Handling, MadeRightly
<1>3. NobodyForgotten(w)' BY <1>1 DEF Handling, NobodyForgotten
<1>4. Restoring(w)' BY DEF Handling, Restoring, Usable
<1> QED BY <1>2, <1>3, <1>4 DEF Handling

LEMMA NotedKept ==
    ASSUME NEW n, Noted(n), UNCHANGED <<audience, preference>>,
           wanted \subseteq wanted', declined \subseteq declined'
    PROVE  Noted(n)'
BY DEF Noted, Enabled

LEMMA SettledKept ==
    ASSUME AnnouncedIsSettled, SameNotes, UNCHANGED <<audience, announced>>, declined \subseteq declined'
    PROVE  AnnouncedIsSettled'
BY DEF AnnouncedIsSettled, SameNotes

LEMMA RowsKept ==
    ASSUME OneNotification, OptOutRespected, SameNotes, wanted \subseteq wanted',
           overlapped \subseteq overlapped'
    PROVE  OneNotification' /\ OptOutRespected'
BY DEF OneNotification, OptOutRespected, SameNotes

\* A step that leaves the handlers and the preferences as they are.
LEMMA OthersKeep ==
    ASSUME InboxInv, SameNotes, InboxTypeOK',
           UNCHANGED <<audience, preference, announced, handler, overlapped, wanted, declined>>
    PROVE  InboxInv'
<1>1. \A n, p : Existing(n, p)' = Existing(n, p) BY ExistingKept
<1>2. ASSUME NEW h \in Handler, handler'[h] # NoWork PROVE Handling(handler[h])'
  <2> PICK w : w = handler[h] OBVIOUS
  <2>1. Handling(w) BY <1>2 DEF InboxInv
  <2>2. Noted(w.notice)' BY <2>1, NotedKept DEF Handling
  <2>3. Handling(w)' BY <1>1, <2>1, <2>2, HandlingKept
  <2>4. w = handler'[h] OBVIOUS
  <2> QED BY <2>3, <2>4 DEF Handling, Noted, MadeRightly, NobodyForgotten, Restoring
<1>3. HandlersApart' BY DEF InboxInv, HandlersApart
<1>4. OneNotification' /\ OptOutRespected' /\ AnnouncedIsSettled'
  BY RowsKept, SettledKept DEF InboxInv
<1> QED BY <1>2, <1>3, <1>4 DEF InboxInv

LEMMA SameNotesIfUnchanged == ASSUME UNCHANGED inbox PROVE SameNotes
BY DEF SameNotes

LEMMA CreateTemplateKeeps ==
    ASSUME InboxInv, NEW active \in BOOLEAN, CreateTemplate(active)
    PROVE  InboxInv'
<1>1. template' \in Template BY DEF CreateTemplate, Template, Wording
<1>2. edits' \in Nat BY DEF InboxInv, InboxTypeOK, CreateTemplate, Edit
<1>3. InboxTypeOK' BY <1>1, <1>2 DEF InboxInv, InboxTypeOK, CreateTemplate, inboxHistory
<1> QED BY <1>3, OthersKeep, SameNotesIfUnchanged DEF CreateTemplate, inboxHistory

LEMMA OpenersKeep ==
    ASSUME InboxInv, NEW r \in Opener, NEW o \in OpenerState, opener' = [opener EXCEPT ![r] = o],
           edits' \in Nat, UNCHANGED <<inboxRows, handler, handlings, inboxHistory>>
    PROVE  InboxInv'
<1>1. UNCHANGED <<audience, template, preference, inbox, announced, handler, handlings,
                  overlapped, wanted, declined>>
  BY DEF inboxRows, inboxHistory
<1>2. InboxTypeOK' BY <1>1 DEF InboxInv, InboxTypeOK
<1> QED BY <1>1, <1>2, OthersKeep, SameNotesIfUnchanged

LEMMA LoadTemplateKeeps ==
    ASSUME InboxInv, NEW r \in Opener, LoadTemplate(r)
    PROVE  InboxInv'
<1>1. template \in Template BY DEF InboxInv, InboxTypeOK, LoadTemplate
<1>2. [pc |-> "template", copy |-> template] \in OpenerState BY <1>1 DEF OpenerState
<1>3. edits' \in Nat BY DEF InboxInv, InboxTypeOK, LoadTemplate
<1> QED BY <1>2, <1>3, OpenersKeep DEF LoadTemplate

LEMMA OpenNoteKeeps ==
    ASSUME InboxInv, NEW r \in Opener, NEW i \in 1 .. Len(inbox), NEW mark \in BOOLEAN,
           OpenNote(r, i, mark)
    PROVE  InboxInv'
<1>1. inbox \in Seq(Notification) BY DEF InboxInv, InboxTypeOK
<1>2. i \in Nat \ {0} /\ inbox[i] \in Notification BY <1>1
<1>3. inbox[i].read \in BOOLEAN BY <1>2 DEF Notification
<1>4. [pc |-> "note", note |-> i, seen |-> inbox[i].read, mark |-> mark] \in OpenerState
  BY <1>2, <1>3 DEF OpenerState
<1>5. edits' \in Nat BY DEF InboxInv, InboxTypeOK, OpenNote, Edit
<1> QED BY <1>4, <1>5, OpenersKeep DEF OpenNote

\* Marking a row, or several.
LEMMA MarkedTyped ==
    ASSUME inbox \in Seq(Notification), DOMAIN inbox' = DOMAIN inbox,
           inbox' = [i \in DOMAIN inbox |-> inbox'[i]],
           \A i \in DOMAIN inbox :
               inbox'[i] = inbox[i] \/ \E b \in BOOLEAN : inbox'[i] = [inbox[i] EXCEPT !.read = b]
    PROVE  inbox' \in Seq(Notification) /\ SameNotes
<1>1. DOMAIN inbox = 1 .. Len(inbox) /\ Len(inbox) \in Nat BY LenProperties
<1>2. \A i \in DOMAIN inbox : inbox[i] \in Notification BY <1>1
<1>3. \A i \in DOMAIN inbox :
          /\ inbox'[i] \in Notification
          /\ inbox'[i].notice = inbox[i].notice /\ inbox'[i].to = inbox[i].to
  BY <1>2 DEF Notification
<1>4. inbox' \in [1 .. Len(inbox) -> Notification] BY <1>1, <1>3
<1>5. inbox' \in Seq(Notification) BY <1>1, <1>4, SeqDef
<1> QED BY <1>3, <1>5 DEF SameNotes

LEMMA MarkNoteKeeps ==
    ASSUME InboxInv, NEW r \in Opener, MarkNote(r)
    PROVE  InboxInv'
<1>1. inbox \in Seq(Notification) /\ opener[r] \in OpenerState BY DEF InboxInv, InboxTypeOK
<1>2. opener[r].mark \in BOOLEAN BY <1>1 DEF MarkNote, OpenerState, NoWork
<1> PICK mark \in BOOLEAN : mark = opener[r].mark BY <1>2
<1> PICK k : k = opener[r].note OBVIOUS
<1>3. inbox' = inbox \/ inbox' = [inbox EXCEPT ![k].read = mark] BY Zenon DEF MarkNote
<1>4. inbox' \in Seq(Notification) /\ SameNotes
  <2>1. CASE inbox' = inbox BY <1>1, <2>1, SameNotesIfUnchanged
  <2>2. CASE inbox' = [inbox EXCEPT ![k].read = mark]
    <3>1. DOMAIN inbox' = DOMAIN inbox /\ inbox' = [i \in DOMAIN inbox |-> inbox'[i]] BY <2>2
    <3>2. \A i \in DOMAIN inbox :
            inbox'[i] = inbox[i] \/ \E b \in BOOLEAN : inbox'[i] = [inbox[i] EXCEPT !.read = b]
      BY <2>2
    <3> QED BY <1>1, <3>1, <3>2, MarkedTyped
  <2> QED BY <1>3, <2>1, <2>2
<1>5. opener' \in [Opener -> OpenerState]
  BY DEF InboxInv, InboxTypeOK, MarkNote, CloseRequest, OpenerState
<1>6. UNCHANGED <<audience, template, preference, announced, handler, handlings, edits,
                  overlapped, wanted, declined>>
  BY DEF MarkNote, inboxHistory
<1>7. InboxTypeOK' BY <1>4, <1>5, <1>6 DEF InboxInv, InboxTypeOK
<1> QED BY <1>4, <1>6, <1>7, OthersKeep

LEMMA ReadAllKeeps ==
    ASSUME InboxInv, NEW p \in Recipient, ReadAll(p)
    PROVE  InboxInv'
<1>1. inbox \in Seq(Notification) BY DEF InboxInv, InboxTypeOK
<1>2. DOMAIN inbox' = DOMAIN inbox /\ inbox' = [i \in DOMAIN inbox |-> inbox'[i]] BY DEF ReadAll
<1>3. \A i \in DOMAIN inbox :
          inbox'[i] = inbox[i] \/ \E b \in BOOLEAN : inbox'[i] = [inbox[i] EXCEPT !.read = b]
  BY DEF ReadAll
<1>4. inbox' \in Seq(Notification) /\ SameNotes BY <1>1, <1>2, <1>3, MarkedTyped
<1>5. edits' \in Nat BY DEF InboxInv, InboxTypeOK, ReadAll, Edit
<1>6. UNCHANGED <<audience, template, preference, announced, handler, opener, handlings,
                  overlapped, wanted, declined>>
  BY DEF ReadAll, inboxHistory
<1>7. InboxTypeOK' BY <1>4, <1>5, <1>6 DEF InboxInv, InboxTypeOK
<1> QED BY <1>4, <1>6, <1>7, OthersKeep

LEMMA SaveTemplateKeeps ==
    ASSUME InboxInv, NEW r \in Opener, NEW patch \in TemplatePatch, SaveTemplate(r, patch)
    PROVE  InboxInv'
<1> PICK copy : copy = opener[r].copy OBVIOUS
<1>1. copy \in Template BY DEF InboxInv, InboxTypeOK, SaveTemplate, OpenerState, NoWork
<1>2. template' = [f \in DOMAIN copy |-> IF f \in DOMAIN patch THEN patch[f] ELSE copy[f]]
  BY DEF SaveTemplate
<1>3. template' \in Template
  <2>1. DOMAIN copy = {"active", "wording"} /\ copy.active \in BOOLEAN /\ copy.wording \in Wording
    BY <1>1 DEF Template
  <2>2. ASSUME NEW b \in BOOLEAN, patch = [active |-> b]
        PROVE  template' \in Template
    <3>1. DOMAIN patch = {"active"} /\ patch["active"] = b BY <2>2
    <3>2. template' = [f \in {"active", "wording"} |-> IF f \in DOMAIN patch THEN patch[f] ELSE copy[f]]
      BY <1>2, <2>1
    <3>3. template' = [active |-> b, wording |-> copy.wording]
      BY <3>1, <3>2
    <3> QED BY <2>1, <3>1, <3>3 DEF Template
  <2>3. CASE patch = [wording |-> "custom"]
    <3>1. DOMAIN patch = {"wording"} /\ patch["wording"] = "custom" BY <2>3
    <3>2. template' = [f \in {"active", "wording"} |-> IF f \in DOMAIN patch THEN patch[f] ELSE copy[f]]
      BY <1>2, <2>1
    <3>3. template' = [active |-> copy.active, wording |-> "custom"] BY <3>1, <3>2
    <3> QED BY <2>1, <3>3 DEF Template, Wording
  <2> QED BY <2>2, <2>3 DEF TemplatePatch
<1>4. opener' \in [Opener -> OpenerState] /\ edits' \in Nat
  BY DEF InboxInv, InboxTypeOK, SaveTemplate, CloseRequest, OpenerState, Edit
<1>5. UNCHANGED <<audience, preference, inbox, announced, handler, handlings,
                  overlapped, wanted, declined>>
  BY DEF SaveTemplate, inboxHistory
<1>6. InboxTypeOK' BY <1>3, <1>4, <1>5 DEF InboxInv, InboxTypeOK
<1> QED BY <1>5, <1>6, OthersKeep, SameNotesIfUnchanged

LEMMA SetPreferenceKeeps ==
    ASSUME InboxInv, NEW p \in Recipient, NEW c \in Channel, NEW on \in BOOLEAN,
           SetPreference(p, c, on)
    PROVE  InboxInv'
<1>0. InboxTypeOK BY DEF InboxInv
<1>1. UNCHANGED <<audience, template, inbox, announced, handler, opener, handlings, overlapped>>
  BY DEF SetPreference
<1>2. preference' = [preference EXCEPT ![<<p, c>>] = on] BY DEF SetPreference
<1>3. preference' \in [Recipient \X Channel -> BOOLEAN] BY <1>0, <1>2 DEF InboxTypeOK
<1>4. /\ wanted \subseteq wanted' /\ declined \subseteq declined'
      /\ wanted' \subseteq Notice \X Recipient /\ declined' \subseteq Notice \X Recipient
  BY <1>0 DEF SetPreference, InboxTypeOK
<1>5. \A n, q : Existing(n, q)' = Existing(n, q)
  BY <1>1, ExistingKept, SameNotesIfUnchanged
<1>6. ASSUME NEW h \in Handler, handler'[h] # NoWork PROVE Handling(handler[h])'
  <2> PICK w : w = handler[h] OBVIOUS
  <2>1. Handling(w) /\ w \in Work BY <1>0, <1>1, <1>6, WorkTyped DEF InboxInv
  <2>2. w.notice \in Notice BY <2>1 DEF Work
  <2>3. c = "in_app" => IF on THEN <<w.notice, p>> \in wanted' ELSE <<w.notice, p>> \in declined'
    BY <1>1, <1>6, <2>2 DEF SetPreference
  <2>4. Noted(w.notice)'
    <3> SUFFICES ASSUME NEW q \in audience[w.notice]
                 PROVE  IF preference'[<<q, "in_app">>] THEN <<w.notice, q>> \in wanted'
                        ELSE <<w.notice, q>> \in declined'
      BY <1>1 DEF Noted, Enabled
    <3>1. q \in Recipient BY <1>0, <2>2 DEF InboxTypeOK
    <3>2. IF preference[<<q, "in_app">>] THEN <<w.notice, q>> \in wanted
          ELSE <<w.notice, q>> \in declined
      BY <2>1 DEF Handling, Noted, Enabled
    <3>3. CASE q = p /\ c = "in_app"
      <4>1. preference'[<<q, "in_app">>] = on BY <1>0, <1>2, <3>3 DEF InboxTypeOK
      <4> QED BY <2>3, <3>3, <4>1
    <3>4. CASE ~(q = p /\ c = "in_app")
      <4>1. preference'[<<q, "in_app">>] = preference[<<q, "in_app">>]
        BY <1>0, <1>2, <3>1, <3>4 DEF InboxTypeOK, Channel
      <4> QED BY <1>4, <3>2, <4>1
    <3> QED BY <3>3, <3>4
  <2>5. Handling(w)' BY <1>1, <1>4, <1>5, <2>1, <2>4, HandlingKept
  <2>6. w = handler'[h] BY <1>1
  <2> QED BY <2>5, <2>6 DEF Handling, Noted, MadeRightly, NobodyForgotten, Restoring
<1>7. InboxTypeOK' BY <1>0, <1>1, <1>3, <1>4 DEF InboxTypeOK, SetPreference, Edit
<1>8. HandlersApart' BY <1>1 DEF InboxInv, HandlersApart
<1>9. OneNotification' /\ OptOutRespected' /\ AnnouncedIsSettled'
  BY <1>1, <1>4, RowsKept, SettledKept, SameNotesIfUnchanged DEF InboxInv
<1> QED BY <1>6, <1>7, <1>8, <1>9 DEF InboxInv

-----------------------------------------------------------------------------
(* Handling an event *)

\* A step that gives a handler other work on its event, or none.
LEMMA HandlersKeep ==
    ASSUME InboxInv, NEW h \in Handler, NEW v,
           handler' = [handler EXCEPT ![h] = v],
           v = NoWork \/ (/\ v \in Work /\ Handling(v)' /\ handler[h] # NoWork
                          /\ v.notice = handler[h].notice),
           \A g \in Handler \ {h} : handler[g] # NoWork => Handling(handler[g])',
           overlapped' = overlapped
    PROVE  /\ handler' \in [Handler -> HandlerState]
           /\ \A g \in Handler : handler'[g] # NoWork => Handling(handler[g])'
           /\ HandlersApart'
<1>0. InboxTypeOK /\ HandlersApart BY DEF InboxInv
<1>1. v \in HandlerState BY WorkInState
<1>2. handler' \in [Handler -> HandlerState] BY <1>0, <1>1 DEF InboxTypeOK
<1>3. handler'[h] = v /\ \A g \in Handler \ {h} : handler'[g] = handler[g]
  BY <1>0 DEF InboxTypeOK
<1>4. ASSUME NEW g \in Handler, handler'[g] # NoWork PROVE Handling(handler[g])'
  <2> PICK w : w = handler'[g] OBVIOUS
  <2>1. Handling(w)'
    <3>1. CASE g = h
      <4>1. w = v /\ v # NoWork BY <1>3, <1>4, <3>1
      <4> QED BY <4>1
    <3>2. CASE g # h
      <4> PICK u : u = handler[g] OBVIOUS
      <4>1. handler[g] # NoWork /\ w = u BY <1>3, <1>4, <3>2
      <4>2. Handling(handler[g])' BY <3>2, <4>1
      <4> QED
        BY <1>3, <3>2, <4>1, <4>2 DEF Handling, Noted, MadeRightly, NobodyForgotten, Restoring
    <3> QED BY <3>1, <3>2
  <2> QED BY <2>1 DEF Handling, Noted, MadeRightly, NobodyForgotten, Restoring
<1>5. HandlersApart' BY <1>0, <1>3 DEF HandlersApart
<1> QED BY <1>2, <1>4, <1>5

LEMMA WorkFields ==
    ASSUME NEW w \in Work
    PROVE  /\ w.notice \in Notice /\ w.todo \in SUBSET Recipient /\ w.found \in SUBSET Recipient
           /\ w.made \in SUBSET Recipient /\ w.rest \in BOOLEAN /\ w.restores \in BOOLEAN
           /\ w.to \in Recipient \cup {"nobody"} /\ w.pc \in {"find", "prefer", "announce"}
BY DEF Work

\* What becomes of a handler's work.
FoundWork(w, p) == [w EXCEPT !.todo = @ \ {p}, !.found = @ \cup {p}]
PreferWork(w, p) == [w EXCEPT !.pc = "prefer", !.to = p]
NextWork(w) == [w EXCEPT !.pc = "find", !.to = "nobody", !.todo = @ \ {w.to}]
MadeWork(w, made) == [w EXCEPT !.made = made]
RestoreWork(w, made, t) == [w EXCEPT !.made = made, !.restores = TRUE, !.seen = t]

\* The fields that the steps change together.
LEMMA FoundFields ==
    ASSUME NEW w \in Work, NEW p \in Recipient, NEW v,
           v = FoundWork(w, p)
    PROVE  /\ v \in Work /\ v.pc = w.pc /\ v.notice = w.notice /\ v.todo = w.todo \ {p} /\ v.to = w.to
           /\ v.made = w.made /\ v.restores = w.restores /\ v.seen = w.seen
<1> PICK todo : todo = w.todo \ {p} OBVIOUS
<1> PICK found : found = w.found \cup {p} OBVIOUS
<1> PICK one : one = [w EXCEPT !.todo = todo] OBVIOUS
<1>1. v = [one EXCEPT !.found = found] BY Zenon DEF FoundWork
<1>2. todo \in SUBSET Recipient /\ found \in SUBSET Recipient BY WorkFields
<1>3. one \in Work BY <1>2 DEF Work
<1>4. one.pc = w.pc /\ one.notice = w.notice /\ one.todo = todo /\ one.to = w.to
      /\ one.made = w.made /\ one.restores = w.restores /\ one.seen = w.seen
  BY DEF Work
<1>5. v \in Work BY <1>1, <1>2, <1>3 DEF Work
<1> QED BY <1>1, <1>3, <1>4, <1>5 DEF Work

LEMMA PreferFields ==
    ASSUME NEW w \in Work, NEW p \in Recipient, NEW v, v = PreferWork(w, p)
    PROVE  /\ v \in Work /\ v.pc = "prefer" /\ v.notice = w.notice /\ v.todo = w.todo /\ v.to = p
           /\ v.made = w.made /\ v.restores = w.restores /\ v.seen = w.seen
<1> PICK one : one = [w EXCEPT !.pc = "prefer"] OBVIOUS
<1>1. v = [one EXCEPT !.to = p] BY Zenon DEF PreferWork
<1>2. one \in Work BY DEF Work
<1>3. one.pc = "prefer" /\ one.notice = w.notice /\ one.todo = w.todo
      /\ one.made = w.made /\ one.restores = w.restores /\ one.seen = w.seen
  BY DEF Work
<1>4. v \in Work BY <1>1, <1>2 DEF Work
<1> QED BY <1>1, <1>2, <1>3, <1>4 DEF Work

LEMMA NextFields ==
    ASSUME NEW w \in Work, NEW v,
           v = NextWork(w)
    PROVE  /\ v \in Work /\ v.pc = "find" /\ v.notice = w.notice /\ v.todo = w.todo \ {w.to}
           /\ v.made = w.made /\ v.restores = w.restores /\ v.seen = w.seen
<1> PICK todo : todo = w.todo \ {w.to} OBVIOUS
<1>one. PICK one : one = [w EXCEPT !.pc = "find"] OBVIOUS
<1>two. PICK two : two = [one EXCEPT !.to = "nobody"] OBVIOUS
<1> USE <1>one, <1>two
<1>1. v = [two EXCEPT !.todo = todo]
  <2>1. two = [w EXCEPT !.pc = "find", !.to = "nobody"] BY Zenon
  <2> QED BY <2>1, Zenon DEF NextWork
<1>2. todo \in SUBSET Recipient BY WorkFields
<1>3. one \in Work BY DEF Work
<1>4. one.pc = "find" /\ one.notice = w.notice /\ one.todo = w.todo
      /\ one.made = w.made /\ one.restores = w.restores /\ one.seen = w.seen
  BY DEF Work
<1>5. two \in Work BY <1>3 DEF Work
<1>6. two.pc = "find" /\ two.notice = w.notice
      /\ two.made = w.made /\ two.restores = w.restores /\ two.seen = w.seen
  BY <1>3, <1>4 DEF Work
<1> HIDE <1>one, <1>two
<1>7. v \in Work BY <1>1, <1>2, <1>5 DEF Work
<1> QED BY <1>1, <1>5, <1>6, <1>7 DEF Work

LEMMA MadeFields ==
    ASSUME NEW w \in Work, NEW made \in SUBSET Recipient, NEW v, v = MadeWork(w, made)
    PROVE  /\ v \in Work /\ v.pc = w.pc /\ v.notice = w.notice /\ v.todo = w.todo
           /\ v.made = made /\ v.restores = w.restores /\ v.seen = w.seen
<1>1. v \in Work BY DEF Work, MadeWork
<1> QED BY <1>1 DEF Work, MadeWork

LEMMA RestoreFields ==
    ASSUME NEW w \in Work, NEW made \in SUBSET Recipient, NEW t \in Template \cup {NoTemplate},
           NEW v, v = RestoreWork(w, made, t)
    PROVE  /\ v \in Work /\ v.pc = w.pc /\ v.notice = w.notice /\ v.todo = w.todo
           /\ v.made = made /\ v.seen = t
<1> PICK one : one = MadeWork(w, made) OBVIOUS
<1> PICK two : two = [one EXCEPT !.restores = TRUE] OBVIOUS
<1>1. v = [two EXCEPT !.seen = t]
  <2>1. two = [w EXCEPT !.made = made, !.restores = TRUE] BY Zenon DEF MadeWork
  <2> QED BY <2>1, Zenon DEF RestoreWork
<1>2. /\ one \in Work /\ one.pc = w.pc /\ one.notice = w.notice /\ one.todo = w.todo
      /\ one.made = made
  BY MadeFields
<1>3. two \in Work BY <1>2 DEF Work
<1>4. two.pc = w.pc /\ two.notice = w.notice /\ two.todo = w.todo /\ two.made = made
  BY <1>2 DEF Work
<1>5. v \in Work BY <1>1, <1>3 DEF Work
<1> QED BY <1>1, <1>3, <1>4, <1>5 DEF Work

\* A step of a handler that writes nothing.
LEMMA WorkKeeps ==
    ASSUME InboxInv, NEW h \in Handler, NEW v, handler' = [handler EXCEPT ![h] = v],
           v = NoWork \/ (/\ v \in Work /\ Handling(v) /\ handler[h] # NoWork
                          /\ v.notice = handler[h].notice),
           UNCHANGED <<inboxRows, opener, handlings, edits, inboxHistory>>
    PROVE  InboxInv'
<1>1. UNCHANGED <<audience, template, preference, inbox, announced, opener, handlings, edits,
                  overlapped, wanted, declined>>
  BY DEF inboxRows, inboxHistory
<1>2. \A n, p : Existing(n, p)' = Existing(n, p) BY <1>1, ExistingKept, SameNotesIfUnchanged
<1>3. ASSUME NEW w, Handling(w) PROVE Handling(w)'
  <2>1. Noted(w.notice)' BY <1>1, <1>3, NotedKept DEF Handling
  <2> QED BY <1>1, <1>2, <1>3, <2>1, HandlingKept
<1>4. ASSUME NEW g \in Handler \ {h}, handler[g] # NoWork PROVE Handling(handler[g])'
  <2> PICK w : w = handler[g] OBVIOUS
  <2>1. Handling(w)' BY <1>3, <1>4 DEF InboxInv
  <2>2. w = handler'[g] BY DEF InboxInv, InboxTypeOK
  <2> QED BY <2>1, <2>2 DEF Handling, Noted, MadeRightly, NobodyForgotten, Restoring
<1>5. v # NoWork => Handling(v)' BY <1>3
<1>6. /\ handler' \in [Handler -> HandlerState]
      /\ \A g \in Handler : handler'[g] # NoWork => Handling(handler[g])'
      /\ HandlersApart'
  BY <1>1, <1>4, <1>5, HandlersKeep
<1>7. InboxTypeOK' BY <1>1, <1>6 DEF InboxInv, InboxTypeOK
<1>8. OneNotification' /\ OptOutRespected' /\ AnnouncedIsSettled'
  BY <1>1, RowsKept, SettledKept, SameNotesIfUnchanged DEF InboxInv
<1> QED BY <1>6, <1>7, <1>8 DEF InboxInv

LEMMA FailNoticeKeeps ==
    ASSUME InboxInv, NEW h \in Handler, FailNotice(h)
    PROVE  InboxInv'
BY WorkKeeps DEF FailNotice, Rest

LEMMA FindRecipientKeeps ==
    ASSUME InboxInv, NEW h \in Handler, NEW p \in Recipient, FindRecipient(h, p)
    PROVE  InboxInv'
<1> PICK w : w = handler[h] OBVIOUS
<1>1. w \in Work /\ w # NoWork BY WorkTyped DEF InboxInv, FindRecipient
<1>2. Handling(w) /\ w.pc = "find" /\ p \in w.todo BY <1>1 DEF InboxInv, FindRecipient
<1>3. CASE Existing(w.notice, p) # {}
  <2> PICK v : v = FoundWork(w, p) OBVIOUS
  <2>1. handler' = [handler EXCEPT ![h] = v] BY <1>3, Zenon DEF FindRecipient, FoundWork
  <2>2. /\ v \in Work /\ v.pc = w.pc /\ v.notice = w.notice /\ v.todo = w.todo \ {p} /\ v.to = w.to
        /\ v.made = w.made /\ v.restores = w.restores /\ v.seen = w.seen
    BY <1>1, <1>2, FoundFields, WorkFields
  <2>3. Answered(w.notice, p) BY <1>3 DEF Answered
  <2>4. Handling(v)
    BY <1>2, <2>2, <2>3 DEF Handling, MadeRightly, NobodyForgotten, Restoring
  <2> QED BY <1>1, <2>1, <2>2, <2>4, WorkKeeps DEF FindRecipient
<1>4. CASE Existing(w.notice, p) = {}
  <2> PICK v : v = PreferWork(w, p) OBVIOUS
  <2>1. handler' = [handler EXCEPT ![h] = v] BY <1>4, Zenon DEF FindRecipient, PreferWork
  <2>2. /\ v \in Work /\ v.pc = "prefer" /\ v.notice = w.notice /\ v.todo = w.todo /\ v.to = p
        /\ v.made = w.made /\ v.restores = w.restores /\ v.seen = w.seen
    BY <1>1, <1>2, PreferFields, WorkFields
  <2>3. Handling(v)
    BY <1>2, <1>4, <2>2 DEF Handling, MadeRightly, NobodyForgotten, Restoring
  <2> QED BY <1>1, <2>1, <2>2, <2>3, WorkKeeps DEF FindRecipient
<1> QED BY <1>3, <1>4

LEMMA WordRecipientKeeps ==
    ASSUME InboxInv, NEW h \in Handler, WordRecipient(h)
    PROVE  InboxInv'
<1> PICK w : w = handler[h] OBVIOUS
<1>1. w \in Work /\ w # NoWork BY WorkTyped DEF InboxInv, WordRecipient
<1>2. Handling(w) /\ w.pc = "prefer" BY <1>1 DEF InboxInv, WordRecipient
<1>3. w.to \in w.todo /\ w.to \in audience[w.notice] /\ w.to \in Recipient
  BY <1>1, <1>2, WorkFields DEF Handling, NobodyForgotten
<1>4. w.notice \notin overlapped => Existing(w.notice, w.to) = {}
  BY <1>2 DEF Handling, MadeRightly
<1> PICK next : next = NextWork(w) OBVIOUS
<1>5. handler' = [handler EXCEPT ![h] =
          IF ~Enabled(w.to) THEN next
          ELSE IF w.restores \/ Usable(template)
          THEN [next EXCEPT !.made = @ \cup {w.to}]
          ELSE [next EXCEPT !.made = @ \cup {w.to}, !.restores = TRUE, !.seen = template]]
  BY Zenon DEF WordRecipient, NextWork
<1>6. /\ next \in Work /\ next.pc = "find" /\ next.notice = w.notice /\ next.todo = w.todo \ {w.to}
      /\ next.made = w.made /\ next.restores = w.restores /\ next.seen = w.seen
  BY <1>1, NextFields
<1>7. CASE ~Enabled(w.to)
  <2>1. handler' = [handler EXCEPT ![h] = next] BY <1>5, <1>7, Zenon
  <2>2. Answered(w.notice, w.to) BY <1>2, <1>3, <1>7 DEF Handling, Noted, Answered
  <2>3. Handling(next)
    BY <1>2, <1>6, <2>2 DEF Handling, MadeRightly, NobodyForgotten, Restoring
  <2> QED BY <1>1, <1>6, <2>1, <2>3, WorkKeeps DEF WordRecipient
<1>8. ASSUME Enabled(w.to), NEW v \in Work, handler' = [handler EXCEPT ![h] = v],
             v.pc = "find", v.notice = w.notice, v.todo = w.todo \ {w.to},
             v.made = w.made \cup {w.to}, Restoring(v)
      PROVE  InboxInv'
  <2>1. <<w.notice, w.to>> \in wanted BY <1>2, <1>3, <1>8 DEF Handling, Noted
  <2>2. MadeRightly(v) BY <1>2, <1>4, <1>8, <2>1 DEF Handling, MadeRightly
  <2>3. NobodyForgotten(v) BY <1>2, <1>8 DEF Handling, NobodyForgotten
  <2>4. Handling(v) BY <1>2, <1>8, <2>2, <2>3 DEF Handling
  <2> QED BY <1>1, <1>8, <2>4, WorkKeeps DEF WordRecipient
<1> PICK made : made = w.made \cup {w.to} OBVIOUS
<1>9. made \in SUBSET Recipient BY <1>1, <1>3, WorkFields
<1>10. CASE Enabled(w.to) /\ (w.restores \/ Usable(template))
  <2> PICK v : v = MadeWork(next, made) OBVIOUS
  <2>1. handler' = [handler EXCEPT ![h] = v] BY <1>5, <1>6, <1>10, Zenon DEF MadeWork
  <2>2. /\ v \in Work /\ v.pc = next.pc /\ v.notice = next.notice /\ v.todo = next.todo
        /\ v.made = made /\ v.restores = next.restores /\ v.seen = next.seen
    BY <1>6, <1>9, MadeFields
  <2>3. Restoring(v) BY <1>2, <1>6, <2>2 DEF Handling, Restoring
  <2> QED BY <1>6, <1>8, <1>10, <2>1, <2>2, <2>3
<1>11. CASE Enabled(w.to) /\ ~w.restores /\ ~Usable(template)
  <2> PICK v : v = RestoreWork(next, made, template) OBVIOUS
  <2>1. handler' = [handler EXCEPT ![h] =
            [next EXCEPT !.made = @ \cup {w.to}, !.restores = TRUE, !.seen = template]]
    BY <1>5, <1>11, Zenon
  <2>2. [next EXCEPT !.made = @ \cup {w.to}, !.restores = TRUE, !.seen = template] = v
    BY <1>6, Zenon DEF RestoreWork
  <2>3. handler' = [handler EXCEPT ![h] = v] BY <2>1, <2>2, Zenon
  <2>4. template \in Template \cup {NoTemplate} BY DEF InboxInv, InboxTypeOK
  <2>5. /\ v \in Work /\ v.pc = next.pc /\ v.notice = next.notice /\ v.todo = next.todo
        /\ v.made = made /\ v.seen = template
    BY <1>6, <1>9, <2>4, RestoreFields
  <2>6. Restoring(v) BY <1>11, <2>5 DEF Restoring
  <2> QED BY <1>6, <1>8, <1>11, <2>3, <2>5, <2>6
<1> QED BY <1>7, <1>10, <1>11

LEMMA BeginNoticeKeeps ==
    ASSUME InboxInv, NEW h \in Handler, NEW n \in Notice, NEW rest \in BOOLEAN,
           BeginNotice(h, n, rest)
    PROVE  InboxInv'
<1>0. InboxTypeOK /\ HandlersApart BY DEF InboxInv
<1> PICK v : v = [pc |-> "find", notice |-> n, rest |-> rest, todo |-> audience[n], to |-> "nobody",
                  found |-> {}, made |-> {}, restores |-> FALSE, seen |-> NoTemplate]
  OBVIOUS
<1>1. handler' = [handler EXCEPT ![h] = v] BY DEF BeginNotice
<1>2. v \in Work /\ v.notice = n /\ v.pc = "find" /\ v.todo = audience[n] /\ v.made = {} /\ v.restores = FALSE
  BY <1>0 DEF Work, InboxTypeOK
<1>3. UNCHANGED <<audience, template, preference, inbox, announced, opener, edits>>
  BY DEF BeginNotice, inboxRows
<1>4. /\ wanted \subseteq wanted' /\ declined \subseteq declined'
      /\ wanted' \subseteq Notice \X Recipient /\ declined' \subseteq Notice \X Recipient
  <2>on. PICK on : on = {<<n, p>> : p \in {q \in audience[n] : preference'[<<q, "in_app">>]}}
    OBVIOUS
  <2>off. PICK off : off = {<<n, p>> : p \in {q \in audience[n] : ~preference'[<<q, "in_app">>]}}
    OBVIOUS
  <2> USE <2>on, <2>off
  <2>1. audience[n] \subseteq Recipient BY <1>0 DEF InboxTypeOK
  <2>2. \A x \in on \cup off : \E p \in audience[n] : x = <<n, p>> OBVIOUS
  <2>3. wanted' = wanted \cup on /\ declined' = declined \cup off BY Zenon DEF BeginNotice, Note
  <2>4. \A p \in audience[n] : <<n, p>> \in Notice \X Recipient BY <2>1
  <2>5. \A x \in on \cup off : x \in Notice \X Recipient BY <2>2, <2>4, Zenon
  <2> HIDE <2>on, <2>off
  <2> QED BY <1>0, <2>3, <2>5 DEF InboxTypeOK
<1>5. /\ overlapped \subseteq overlapped' /\ overlapped' \subseteq Notice
      /\ (\E g \in Handler : handler[g] # NoWork /\ handler[g].notice = n) => n \in overlapped'
  BY <1>0 DEF BeginNotice, InboxTypeOK
<1>6. \A m, p : Existing(m, p)' = Existing(m, p) BY <1>3, ExistingKept, SameNotesIfUnchanged
<1>7. handler'[h] = v /\ \A g \in Handler \ {h} : handler'[g] = handler[g]
  BY <1>0, <1>1 DEF InboxTypeOK
<1>8. Handling(v)'
  <2>1. Noted(n)' BY <1>3 DEF BeginNotice, Note, Noted, Enabled
  <2> QED
    BY <1>2, <1>3, <2>1 DEF Handling, MadeRightly, NobodyForgotten, Restoring
<1>9. ASSUME NEW g \in Handler, handler'[g] # NoWork PROVE Handling(handler[g])'
  <2>w. PICK w : w = handler'[g] OBVIOUS
  <2> USE <2>w
  <2>1. Handling(w)'
    <3>1. CASE g = h
      <4>1. w = v BY <1>7, <3>1
      <4> QED BY <1>8, <4>1
    <3>2. CASE g # h
      <4>1. w = handler[g] /\ handler[g] # NoWork BY <1>7, <1>9, <3>2
      <4>2. Handling(w) BY <4>1 DEF InboxInv
      <4>3. Noted(w.notice)' BY <1>3, <1>4, <4>2, NotedKept DEF Handling
      <4> HIDE <2>w
      <4> QED BY <1>3, <1>4, <1>5, <1>6, <4>2, <4>3, HandlingKept
    <3> QED BY <3>1, <3>2
  <2> QED BY <2>1 DEF Handling, Noted, MadeRightly, NobodyForgotten, Restoring
<1>10. HandlersApart'
  <2> SUFFICES ASSUME NEW f \in Handler, NEW g \in Handler, f # g,
                      handler'[f] # NoWork, handler'[g] # NoWork,
                      handler'[f].notice = handler'[g].notice
               PROVE  handler'[f].notice \in overlapped'
    BY DEF HandlersApart
  <2>1. CASE f # h /\ g # h BY <1>0, <1>5, <1>7, <2>1 DEF HandlersApart
  <2>2. CASE f = h
    <3>1. handler[g] # NoWork /\ handler[g].notice = n BY <1>2, <1>7, <2>2
    <3> QED BY <1>2, <1>5, <1>7, <2>2, <3>1
  <2>3. CASE g = h
    <3>1. handler[f] # NoWork /\ handler[f].notice = n BY <1>2, <1>7, <2>3
    <3> QED BY <1>2, <1>5, <1>7, <2>3, <3>1
  <2> QED BY <2>1, <2>2, <2>3
<1>11. handlings' \in Nat BY <1>0 DEF BeginNotice, InboxTypeOK
<1>12. handler' \in [Handler -> HandlerState] BY <1>0, <1>1, <1>2, WorkInState DEF InboxTypeOK
<1>13. InboxTypeOK' BY <1>0, <1>3, <1>4, <1>5, <1>11, <1>12 DEF InboxTypeOK
<1>14. OneNotification' /\ OptOutRespected' /\ AnnouncedIsSettled'
  BY <1>3, <1>4, <1>5, RowsKept, SettledKept, SameNotesIfUnchanged DEF InboxInv
<1> QED BY <1>9, <1>10, <1>13, <1>14 DEF InboxInv

LEMMA AnnounceKeeps ==
    ASSUME InboxInv, NEW h \in Handler, Announce(h)
    PROVE  InboxInv'
<1>0. InboxTypeOK /\ AnnouncedIsSettled BY DEF InboxInv
<1> PICK w : w = handler[h] OBVIOUS
<1>1. w \in Work /\ w # NoWork /\ w.pc = "announce" /\ w.notice \in Notice
  BY <1>0, WorkTyped, WorkFields DEF Announce
<1>2. Handling(w) BY <1>1 DEF InboxInv
<1>3. UNCHANGED <<audience, template, preference, inbox, opener, handlings, edits,
                  overlapped, wanted, declined>>
  BY DEF Announce, inboxHistory
<1>4. \A n, p : Existing(n, p)' = Existing(n, p) BY <1>3, ExistingKept, SameNotesIfUnchanged
<1>5. ASSUME NEW g \in Handler \ {h}, handler[g] # NoWork PROVE Handling(handler[g])'
  <2> PICK u : u = handler[g] OBVIOUS
  <2>1. Handling(u) BY <1>5 DEF InboxInv
  <2>2. Noted(u.notice)' BY <1>3, <2>1, NotedKept DEF Handling
  <2>3. Handling(u)' BY <1>3, <1>4, <2>1, <2>2, HandlingKept
  <2>4. u = handler'[g] BY <1>0 DEF Announce, Rest, InboxTypeOK
  <2> QED BY <2>3, <2>4 DEF Handling, Noted, MadeRightly, NobodyForgotten, Restoring
<1>6. /\ handler' \in [Handler -> HandlerState]
      /\ \A g \in Handler : handler'[g] # NoWork => Handling(handler[g])'
      /\ HandlersApart'
  BY <1>3, <1>5, HandlersKeep DEF Announce, Rest
<1>7. announced' = announced \cup {w.notice} BY DEF Announce
<1>8. InboxTypeOK' BY <1>0, <1>1, <1>3, <1>6, <1>7 DEF InboxTypeOK
<1>9. AnnouncedIsSettled'
  <2>1. \A p \in audience[w.notice] : Answered(w.notice, p)
    BY <1>1, <1>2 DEF Handling, NobodyForgotten
  <2>2. \A p \in Recipient : p \in audience[w.notice] =>
            \/ \E i \in DOMAIN inbox : inbox[i].notice = w.notice /\ inbox[i].to = p
            \/ <<w.notice, p>> \in declined
    BY <2>1 DEF Answered, Existing
  <2> QED BY <1>0, <1>3, <1>7, <2>2 DEF AnnouncedIsSettled
<1>10. OneNotification' /\ OptOutRespected'
  BY <1>3, RowsKept, SameNotesIfUnchanged DEF InboxInv
<1> QED BY <1>6, <1>8, <1>9, <1>10 DEF InboxInv

-----------------------------------------------------------------------------
(* The commit *)

\* What a handler inserts: one row for each that it notifies.
LEMMA NewRowsAre ==
    ASSUME NEW n \in Notice, NEW made \in SUBSET Recipient, NEW new \in NewRows(n, made)
    PROVE  /\ new \in Seq(Notification)
           /\ \A i \in DOMAIN new : new[i].notice = n /\ new[i].to \in made
           /\ \A i, j \in DOMAIN new : new[i].to = new[j].to => i = j
           /\ \A p \in made : \E i \in DOMAIN new : new[i].to = p
<1> PICK k : k = Cardinality(made) OBVIOUS
<1>1. IsFiniteSet(made) BY FS_Subset, InboxAssumption
<1>2. k \in Nat BY <1>1, FS_CardinalityType
<1>3. /\ new \in [1 .. k -> [to : made, notice : {n}, read : {FALSE}]]
      /\ {new[i].to : i \in DOMAIN new} = made
  BY DEF NewRows
<1>4. DOMAIN new = 1 .. k
      /\ \A i \in 1 .. k : new[i] \in [to : made, notice : {n}, read : {FALSE}]
  BY <1>3
<1>5. \A i \in 1 .. k : new[i] \in Notification /\ new[i].notice = n /\ new[i].to \in made
  BY <1>4 DEF Notification
<1>6. new \in [1 .. k -> Notification] BY <1>3, <1>4, <1>5
<1>7. new \in Seq(Notification) BY <1>2, <1>6, SeqDef
<1>8. \A p \in made : \E i \in 1 .. k : new[i].to = p BY <1>3, <1>4
<1> DEFINE To == [i \in 1 .. k |-> new[i].to]
<1>9. To \in Surjection(1 .. k, made)
  <2>1. To \in [1 .. k -> made] BY <1>5
  <2>2. \A p \in made : \E i \in 1 .. k : To[i] = p BY <1>8
  <2> HIDE DEF To
  <2> QED BY <2>1, <2>2 DEF Surjection
<1>10. IsFiniteSet(1 .. k) /\ Cardinality(1 .. k) = k BY <1>2, FS_Interval
<1>11. To \in Injection(1 .. k, made)
  <2> HIDE DEF To
  <2> QED BY <1>9, <1>10, FS_Surjection
<1>12. \A i, j \in 1 .. k : To[i] = To[j] => i = j
  <2> HIDE DEF To
  <2>1. DOMAIN To = 1 .. k BY <1>9 DEF Surjection
  <2> QED BY <1>11, <2>1 DEF Injection, IsInjective
<1> QED BY <1>4, <1>5, <1>7, <1>8, <1>12

\* The rows after a commit: those before it, and the new ones.
LEMMA CommittedRows ==
    ASSUME inbox \in Seq(Notification), NEW new \in Seq(Notification), inbox' = inbox \o new
    PROVE  /\ inbox' \in Seq(Notification)
           /\ \A i \in DOMAIN inbox : i \in DOMAIN inbox' /\ inbox'[i] = inbox[i]
           /\ \A j \in DOMAIN new :
                 j + Len(inbox) \in DOMAIN inbox' /\ inbox'[j + Len(inbox)] = new[j]
           /\ \A i \in DOMAIN inbox' :
                 i \in DOMAIN inbox \/ \E j \in DOMAIN new : i = j + Len(inbox)
<1>1. /\ DOMAIN inbox = 1 .. Len(inbox) /\ Len(inbox) \in Nat
      /\ DOMAIN new = 1 .. Len(new) /\ Len(new) \in Nat
  BY LenProperties
<1>2. /\ inbox' \in Seq(Notification) /\ Len(inbox') = Len(inbox) + Len(new)
      /\ \A i \in 1 .. Len(inbox) + Len(new) :
            inbox'[i] = IF i <= Len(inbox) THEN inbox[i] ELSE new[i - Len(inbox)]
  BY ConcatProperties
<1>3. DOMAIN inbox' = 1 .. Len(inbox) + Len(new) BY <1>1, <1>2, LenProperties
<1>4. \A i \in DOMAIN inbox : i \in DOMAIN inbox' /\ inbox'[i] = inbox[i] BY <1>1, <1>2, <1>3
<1>5. \A j \in DOMAIN new : j + Len(inbox) \in DOMAIN inbox' /\ inbox'[j + Len(inbox)] = new[j]
  BY <1>1, <1>2, <1>3
<1>6. ASSUME NEW i \in DOMAIN inbox', i \notin DOMAIN inbox
      PROVE  \E j \in DOMAIN new : i = j + Len(inbox)
  <2>1. i - Len(inbox) \in DOMAIN new /\ i = (i - Len(inbox)) + Len(inbox) BY <1>1, <1>3, <1>6
  <2> QED BY <2>1
<1> QED BY <1>2, <1>4, <1>5, <1>6

LEMMA CommitNoticeKeeps ==
    ASSUME InboxInv, NEW h \in Handler, CommitNotice(h)
    PROVE  InboxInv'
<1>0. InboxTypeOK /\ HandlersApart /\ OneNotification /\ OptOutRespected /\ AnnouncedIsSettled
  BY DEF InboxInv
<1> PICK w : w = handler[h] OBVIOUS
<1> PICK n : n = w.notice OBVIOUS
<1>1. w \in Work /\ w # NoWork /\ w.pc = "find" /\ w.todo = {} /\ n \in Notice
      /\ w.made \in SUBSET Recipient
  BY <1>0, WorkTyped, WorkFields DEF CommitNotice
<1>2. Handling(w) BY <1>1 DEF InboxInv
<1>3. PICK new : new \in NewRows(n, w.made) /\ inbox' = inbox \o new BY DEF CommitNotice
<1>4. /\ new \in Seq(Notification)
      /\ \A i \in DOMAIN new : new[i].notice = n /\ new[i].to \in w.made
      /\ \A i, j \in DOMAIN new : new[i].to = new[j].to => i = j
      /\ \A p \in w.made : \E i \in DOMAIN new : new[i].to = p
  BY <1>1, <1>3, NewRowsAre
<1> PICK len : len = Len(inbox) OBVIOUS
<1>5. /\ inbox' \in Seq(Notification)
      /\ \A i \in DOMAIN inbox : i \in DOMAIN inbox' /\ inbox'[i] = inbox[i]
      /\ \A j \in DOMAIN new : j + len \in DOMAIN inbox' /\ inbox'[j + len] = new[j]
      /\ \A i \in DOMAIN inbox' : i \in DOMAIN inbox \/ \E j \in DOMAIN new : i = j + len
  <2>1. inbox \in Seq(Notification) /\ new \in Seq(Notification) BY <1>0, <1>4 DEF InboxTypeOK
  <2> QED BY <1>3, <2>1, CommittedRows
<1>6. UNCHANGED <<audience, preference, announced, opener, handlings, edits,
                  overlapped, wanted, declined>>
  BY DEF CommitNotice, inboxHistory
<1>7. \A m, p : Existing(m, p) \subseteq Existing(m, p)' BY <1>5 DEF Existing
<1>8. \A m, p : m # n => Existing(m, p)' = Existing(m, p)
  <2> TAKE m, p
  <2> HAVE m # n
  <2> SUFFICES ASSUME NEW i \in Existing(m, p)' PROVE i \in Existing(m, p)
    BY <1>7
  <2>1. i \in DOMAIN inbox' /\ inbox'[i].notice = m /\ inbox'[i].to = p BY DEF Existing
  <2>2. i \in DOMAIN inbox BY <1>4, <1>5, <2>1
  <2> QED BY <1>5, <2>1, <2>2 DEF Existing
<1>9. \A p \in w.made : Existing(n, p)' # {}
  <2> TAKE p \in w.made
  <2>1. PICK j \in DOMAIN new : new[j].to = p BY <1>4
  <2>2. j + len \in Existing(n, p)' BY <1>4, <1>5, <2>1 DEF Existing
  <2> QED BY <2>2
<1>10. \A m, p : Answered(m, p) => Answered(m, p)' BY <1>6, <1>7 DEF Answered
<1>11. ASSUME NEW u, Handling(u) PROVE Noted(u.notice)'
  BY <1>6, <1>11, NotedKept DEF Handling
<1>12. ASSUME NEW g \in Handler \ {h}, handler[g] # NoWork PROVE Handling(handler[g])'
  <2> PICK u : u = handler[g] OBVIOUS
  <2>1. Handling(u) BY <1>12 DEF InboxInv
  <2>2. u.notice = n => n \in overlapped BY <1>0, <1>1, <1>12 DEF HandlersApart
  <2>3. MadeRightly(u)'
    <3>1. CASE u.notice = n BY <1>6, <2>1, <2>2, <3>1 DEF Handling, MadeRightly
    <3>2. CASE u.notice # n BY <1>6, <1>8, <2>1, <3>2 DEF Handling, MadeRightly
    <3> QED BY <3>1, <3>2
  <2>4. NobodyForgotten(u)' BY <1>6, <1>10, <2>1 DEF Handling, NobodyForgotten
  <2>5. Noted(u.notice)' BY <1>11, <2>1
  <2>6. Handling(u)' BY <2>1, <2>3, <2>4, <2>5 DEF Handling, Restoring, Usable
  <2>7. u = handler'[g] BY <1>0 DEF CommitNotice, InboxTypeOK
  <2> QED BY <2>6, <2>7 DEF Handling, Noted, MadeRightly, NobodyForgotten, Restoring
<1>v. PICK v : v = IF w.rest \/ w.found = audience[n] THEN NoWork ELSE [w EXCEPT !.pc = "announce"]
  OBVIOUS
<1>13. handler' = [handler EXCEPT ![h] = v] BY <1>v DEF CommitNotice
<1>14. ASSUME v # NoWork
       PROVE  v \in Work /\ Handling(v)' /\ v.notice = n
  <2>1. v = [w EXCEPT !.pc = "announce"] BY <1>v, <1>14
  <2>2. v \in Work BY <1>1, <2>1 DEF Work
  <2>3. v.pc = "announce" /\ v.notice = n /\ v.todo = w.todo /\ v.made = w.made
        /\ v.restores = w.restores /\ v.seen = w.seen
    BY <1>1, <2>1 DEF Work
  <2>4. MadeRightly(v)' BY <1>2, <1>6, <2>3 DEF Handling, MadeRightly
  <2>5. \A p \in audience[n] : Answered(n, p)'
    <3>1. \A p \in audience[n] : p \in w.made \/ Answered(n, p)
      BY <1>1, <1>2 DEF Handling, NobodyForgotten
    <3>2. \A p \in w.made : Answered(n, p)' BY <1>9 DEF Answered
    <3> QED BY <1>10, <3>1, <3>2
  <2>6. NobodyForgotten(v)' BY <1>1, <1>6, <2>3, <2>5 DEF NobodyForgotten
  <2>7. Noted(v.notice)' BY <1>2, <1>11, <2>3
  <2>8. Restoring(v)' BY <1>2, <2>3 DEF Handling, Restoring, Usable
  <2> QED BY <2>2, <2>3, <2>4, <2>6, <2>7, <2>8 DEF Handling
<1>15. /\ handler' \in [Handler -> HandlerState]
       /\ \A g \in Handler : handler'[g] # NoWork => Handling(handler[g])'
       /\ HandlersApart'
  <2> QED BY <1>1, <1>6, <1>12, <1>13, <1>14, HandlersKeep
<1>16. template' \in Template \cup {NoTemplate}
  BY <1>0 DEF CommitNotice, InboxTypeOK, Default, Template, Wording
<1>17. InboxTypeOK' BY <1>0, <1>5, <1>6, <1>15, <1>16 DEF InboxTypeOK
<1>18. OptOutRespected'
  <2> SUFFICES ASSUME NEW i \in DOMAIN inbox'
               PROVE  <<inbox'[i].notice, inbox'[i].to>> \in wanted
    BY <1>6 DEF OptOutRespected
  <2>1. CASE i \in DOMAIN inbox BY <1>0, <1>5, <2>1 DEF OptOutRespected
  <2>2. CASE i \notin DOMAIN inbox
    <3>1. PICK j \in DOMAIN new : i = j + len BY <1>5, <2>2
    <3>2. inbox'[i].notice = n /\ inbox'[i].to \in w.made BY <1>4, <1>5, <3>1
    <3> QED BY <1>2, <3>2 DEF Handling, MadeRightly
  <2> QED BY <2>1, <2>2
<1>19. AnnouncedIsSettled'
  <2> SUFFICES ASSUME NEW m \in announced, NEW p \in Recipient, p \in audience[m]
               PROVE  \/ \E i \in DOMAIN inbox' : inbox'[i].notice = m /\ inbox'[i].to = p
                      \/ <<m, p>> \in declined
    BY <1>6 DEF AnnouncedIsSettled
  <2>1. \/ \E i \in DOMAIN inbox : inbox[i].notice = m /\ inbox[i].to = p
        \/ <<m, p>> \in declined
    BY <1>0 DEF AnnouncedIsSettled
  <2> QED BY <1>5, <2>1
<1>20. OneNotification'
  <2> SUFFICES ASSUME NEW i \in DOMAIN inbox', NEW j \in DOMAIN inbox',
                      inbox'[i].notice = inbox'[j].notice, inbox'[i].to = inbox'[j].to,
                      inbox'[i].notice \notin overlapped
               PROVE  i = j
    BY <1>6 DEF OneNotification
  <2>1. ASSUME NEW k \in DOMAIN inbox, NEW l \in DOMAIN new,
               inbox[k].notice = n, inbox[k].to = new[l].to, n \notin overlapped
        PROVE  FALSE
    <3>1. Existing(n, new[l].to) = {} BY <1>1, <1>2, <1>4, <2>1 DEF Handling, MadeRightly
    <3> QED BY <2>1, <3>1 DEF Existing
  <2>2. CASE i \in DOMAIN inbox /\ j \in DOMAIN inbox BY <1>0, <1>5, <2>2 DEF OneNotification
  <2>3. CASE i \in DOMAIN inbox /\ j \notin DOMAIN inbox
    <3>1. PICK l \in DOMAIN new : j = l + len BY <1>5, <2>3
    <3>2. inbox'[j] = new[l] /\ new[l].notice = n BY <1>4, <1>5, <3>1
    <3> QED BY <1>5, <2>1, <2>3, <3>2
  <2>4. CASE i \notin DOMAIN inbox /\ j \in DOMAIN inbox
    <3>1. PICK l \in DOMAIN new : i = l + len BY <1>5, <2>4
    <3>2. inbox'[i] = new[l] /\ new[l].notice = n BY <1>4, <1>5, <3>1
    <3> QED BY <1>5, <2>1, <2>4, <3>2
  <2>5. CASE i \notin DOMAIN inbox /\ j \notin DOMAIN inbox
    <3>1. PICK k \in DOMAIN new : i = k + len BY <1>5, <2>5
    <3>2. PICK l \in DOMAIN new : j = l + len BY <1>5, <2>5
    <3>3. inbox'[i] = new[k] /\ inbox'[j] = new[l] BY <1>5, <3>1, <3>2
    <3>4. k = l BY <1>4, <3>3
    <3> QED BY <3>1, <3>2, <3>4
  <2> QED BY <2>2, <2>3, <2>4, <2>5
<1> QED BY <1>15, <1>17, <1>18, <1>19, <1>20 DEF InboxInv

LEMMA InboxKeeps == ASSUME InboxInv, InboxNext PROVE InboxInv'
BY BeginNoticeKeeps, FindRecipientKeeps, WordRecipientKeeps, CommitNoticeKeeps, AnnounceKeeps,
   FailNoticeKeeps, CreateTemplateKeeps, LoadTemplateKeeps, MarkNoteKeeps, SaveTemplateKeeps,
   OpenNoteKeeps, SetPreferenceKeeps, ReadAllKeeps
DEF InboxNext

LEMMA InboxStutters == ASSUME InboxInv, UNCHANGED inboxVars PROVE InboxInv'
<1>1. UNCHANGED <<audience, template, preference, inbox, announced, handler, opener, handlings,
                  edits, overlapped, wanted, declined>>
  BY DEF inboxVars, inboxRows, inboxHistory
<1>2. InboxTypeOK' BY <1>1 DEF InboxInv, InboxTypeOK
<1> QED BY <1>1, <1>2, OthersKeep, SameNotesIfUnchanged

LEMMA InboxSteps == ASSUME InboxInv, [EdgeNext]_edgeVars PROVE InboxInv'
<1>1. CASE InboxNext BY <1>1, InboxKeeps
<1>2. CASE UNCHANGED inboxVars BY <1>2, InboxStutters
<1> QED BY <1>1, <1>2 DEF EdgeNext, edgeVars

LEMMA NotifiedOnceHolds == ASSUME InboxInv PROVE NotifiedOnce
<1> SUFFICES ASSUME NEW n \in Notice \ overlapped, NEW p \in Recipient
             PROVE  Cardinality(Existing(n, p)) <= 1
  BY Zenon DEF NotifiedOnce, Existing
<1>1. \A i, j \in Existing(n, p) : i = j BY DEF InboxInv, OneNotification, Existing
<1>2. CASE Existing(n, p) = {} BY <1>2, FS_EmptySet
<1>3. CASE Existing(n, p) # {}
  <2>1. PICK i : Existing(n, p) = {i} BY <1>1, <1>3
  <2> QED BY <2>1, FS_Singleton
<1> QED BY <1>2, <1>3

\* Whoever writes the default over another wording has looked at something else.
WordingLost == template.active /\ template'.wording = "default" /\ template.wording # "default"
WordingStale ==
    \/ \E h \in Handler : handler[h] # NoWork /\ handler[h].restores /\ handler[h].seen # template
    \/ \E r \in Opener : opener[r].pc = "template" /\ opener[r].copy # template

LEMMA WordingSteps ==
    ASSUME InboxInv, [EdgeNext]_edgeVars, WordingLost
    PROVE  WordingStale
<1>0. InboxTypeOK BY DEF InboxInv
<1>1. template' # template BY DEF WordingLost
<1>2. template.active /\ template # NoTemplate BY DEF WordingLost, NoTemplate
<1>3. ASSUME NEW h \in Handler, CommitNotice(h) PROVE WordingStale
  <2>1. handler[h] # NoWork /\ handler[h].restores
    BY <1>1, <1>3 DEF CommitNotice, NoWork
  <2>2. ~Usable(handler[h].seen) BY <2>1 DEF InboxInv, Handling, Restoring
  <2>3. handler[h].seen # template BY <1>2, <2>2 DEF Usable
  <2> QED BY <2>1, <2>3 DEF WordingStale
<1>4. ASSUME NEW active \in BOOLEAN, CreateTemplate(active) PROVE FALSE
  BY <1>4 DEF CreateTemplate, WordingLost
<1>5. ASSUME NEW r \in Opener, NEW patch \in TemplatePatch, SaveTemplate(r, patch)
      PROVE  WordingStale
  <2>1. opener[r].pc = "template" /\ opener[r].copy \in Template
    BY <1>0, <1>5 DEF SaveTemplate, InboxTypeOK, OpenerState, NoWork
  <2>2. template' = [f \in DOMAIN opener[r].copy |->
                        IF f \in DOMAIN patch THEN patch[f] ELSE opener[r].copy[f]]
    BY <1>5 DEF SaveTemplate
  <2>3. "wording" \in DOMAIN opener[r].copy BY <2>1 DEF Template
  <2>4. template'["wording"] = IF "wording" \in DOMAIN patch THEN patch["wording"]
                               ELSE opener[r].copy["wording"]
    BY <2>2, <2>3
  <2>5. "wording" \in DOMAIN patch => patch["wording"] = "custom" BY DEF TemplatePatch
  <2>6. opener[r].copy.wording = "default" BY <2>4, <2>5 DEF WordingLost
  <2>7. opener[r].copy # template BY <2>6 DEF WordingLost
  <2> QED BY <2>1, <2>7 DEF WordingStale
<1>6. ASSUME InboxNext PROVE WordingStale
  <2>1. \/ \E h \in Handler : CommitNotice(h)
        \/ \E active \in BOOLEAN : CreateTemplate(active)
        \/ \E r \in Opener, patch \in TemplatePatch : SaveTemplate(r, patch)
    BY <1>1, <1>6
    DEF InboxNext, BeginNotice, FindRecipient, WordRecipient, Announce, FailNotice, LoadTemplate,
        MarkNote, OpenNote, SetPreference, ReadAll, inboxRows
  <2> QED BY <1>3, <1>4, <1>5, <2>1
<1>7. ASSUME UNCHANGED inboxVars PROVE FALSE BY <1>1, <1>7 DEF inboxVars, inboxRows
<1> QED BY <1>6, <1>7 DEF EdgeNext, edgeVars

\* However events come again and handlers overlap, each recipient is notified once and as
\* it chose, an event is announced when it is settled for all, and the wording of an active
\* template gives way only to whoever looked before it changed: notification-service.
THEOREM NoticesSound == EdgeSpec => NoticesAgree
<1>1. EdgeInit => InboxInv BY InboxBegin DEF EdgeInit
<1>2. InboxInv /\ [EdgeNext]_edgeVars => InboxInv' BY InboxSteps
<1>3. InboxInv => InboxTypeOK /\ NotifiedOnce /\ OptOutRespected /\ AnnouncedIsSettled
  BY NotifiedOnceHolds DEF InboxInv
<1>4. InboxInv /\ [EdgeNext]_edgeVars =>
          [WordingLost => WordingStale]_inboxVars
  BY WordingSteps
<1>5. ActiveTemplateKept <=> [][WordingLost => WordingStale]_inboxVars
  BY PTL DEF ActiveTemplateKept, WordingLost, WordingStale
<1> QED BY <1>1, <1>2, <1>3, <1>4, <1>5, PTL DEF EdgeSpec, NoticesAgree

-----------------------------------------------------------------------------
(* The assets *)

CopyOp == {"update", "publish", "delete", "sign"}

\* What a request that measured the object, and one that scanned it then, may rely on.
Measured == stored # None /\ (Matches(stored) \/ putLate)
Passed == stored # None /\ (Acceptable(stored) \/ putLate)

Good == seeded \/ declared \/ (verified /\ Passed)

\* There is a version, or a completion that is about to make one, or one was cut short.
Backed == versions # <<>> \/ cut \/ declared \/ \E w \in Client : client[w].op = "complete"

\* Why there may be a link.
Justified == verified \/ seeded \/ declared

\* An asset, or a copy of it, that counts as uploaded is.
Whole(a) == a.upload = "complete" => Good /\ Backed

AssetSound == asset # None => Whole(asset) /\ (asset.status = "deleted" <=> asset.deleted)

\* What a request has found out still holds when it acts on it.
ClientSound(c) ==
    /\ c.op \in CopyOp => ~c.copy.deleted /\ c.copy.status # "deleted" /\ Whole(c.copy)
    /\ c.op = "complete" /\ c.step = "scan" => Measured
    /\ c.op = "complete" /\ c.step = "mark" => Good
    /\ c.op = "register" /\ asset = None => (c.step = "scan" => Measured) /\ (c.step = "create" => Passed)
    /\ c.op \in {"complete", "version"} /\ c.step = "insert" => c.number <= Len(versions) + 1
    /\ c.op = "resolve" => links[c.link] # None

Resolves(w, l) == client[w].op = "resolve" /\ client[w].link = l

\* A link that no two requests have resolved at a time is unused while one does.
LinksTurn ==
    \A l \in Link : links[l] # None /\ ~links[l].overlapped =>
        /\ links[l].uses <= 1 /\ (links[l].uses = 1 => links[l].used)
        /\ \A w \in Client : Resolves(w, l) => links[l].uses = 0
        /\ \A v, w \in Client : Resolves(v, l) /\ Resolves(w, l) => v = w

AssetsInv ==
    /\ AssetsTypeOK /\ AssetSound /\ VersionsInOrder
    /\ \A w \in Client : ClientSound(client[w])
    /\ LinkJustified /\ LinksTurn

LEMMA ClientKinds ==
    ASSUME NEW c \in ClientState
    PROVE  /\ c.op \in {"resting", "register", "proxy", "complete", "version", "resolve"} \cup CopyOp
           /\ c.op \in CopyOp => c.copy \in ContentAsset
           /\ c.op \in {"complete", "version"} /\ c.step = "insert" => c.number \in ContentVersion
           /\ c.op = "resolve" => c.link \in Link /\ c = [op |-> "resolve", link |-> c.link]
           /\ c.op = "proxy" => c.object \in AcceptedUpload
           /\ c.op = "resting" => c = Resting
BY DEF ClientState, Resting, CopyOp

LEMMA RestingSound == Resting \in ClientState /\ Resting.op = "resting" /\ ClientSound(Resting)
BY DEF Resting, ClientState, ClientSound, CopyOp

LEMMA AssetsBegin == ASSUME AssetsInit PROVE AssetsInv
<1>1. \A w \in Client : client[w] = Resting BY DEF AssetsInit
<1>2. \A l \in Link : links[l] = None BY DEF AssetsInit
<1>3. asset \in ContentAsset \cup {None} /\ (hasFile => asset # None) /\ hasFile \in BOOLEAN
  BY NoneIsNoRow DEF AssetsInit, SeedAsset, NoAsset, NewAsset, ContentAsset, ContentAssetType, ContentAssetStatus,
                      UploadStatus
<1>4. /\ versions = <<>> \/ versions = <<1>>
      /\ stored \in StoredObject /\ seeded \in BOOLEAN /\ urlOpen \in BOOLEAN
  BY DEF AssetsInit, SeedAsset, NoAsset, StoredObject
<1>5. versions \in Seq(ContentVersion) /\ VersionsInOrder
  <2>1. CASE versions = <<>>
    <3>1. DOMAIN versions = {} BY <2>1
    <3> QED BY <2>1, <3>1 DEF VersionsInOrder
  <2>2. CASE versions = <<1>>
    <3>1. DOMAIN versions = {1} /\ versions[1] = 1 BY <2>2
    <3> QED BY <2>2, <3>1 DEF VersionsInOrder, ContentVersion
  <2> QED BY <1>4, <2>1, <2>2
<1>6. AssetSound
  BY ContentAssumption DEF AssetsInit, SeedAsset, NoAsset, NewAsset, AssetSound, Whole, Good, Backed
<1>7. client \in [Client -> ClientState] /\ \A w \in Client : ClientSound(client[w])
  BY <1>1, RestingSound DEF AssetsInit
<1>8. grants \in [Profile -> ContentPermission] BY DEF AssetsInit, ContentPermission
<1>9. started \in 0 .. MaxStarted BY ContentAssumption DEF AssetsInit
<1>10. AssetsTypeOK
  BY <1>1, <1>2, <1>3, <1>4, <1>5, <1>7, <1>8, <1>9, RestingSound DEF AssetsTypeOK, AssetsInit
<1>11. LinkJustified /\ LinksTurn BY <1>2 DEF LinkJustified, LinksTurn
<1> QED BY <1>5, <1>6, <1>7, <1>10, <1>11 DEF AssetsInv

-----------------------------------------------------------------------------
(* What a step may do *)

\* What was found in the store is there, or the URL was used since, ...
StoreKeeps == ObjectMeasured => (Measured => Measured') /\ (Passed => Passed')

\* ... which is so in particular if nothing is stored.
LEMMA NothingStored ==
    ASSUME UNCHANGED <<stored, putLate>>, verified => verified', seeded => seeded',
           declared => declared'
    PROVE  StoreKeeps /\ (Good => Good')
BY DEF StoreKeeps, Good, Measured, Passed

\* A request of which nothing is written that it relies on being otherwise.
LEMMA StepKeeps ==
    ASSUME AssetsInv, AssetsTypeOK', AssetSound', VersionsInOrder', LinkJustified', LinksTurn',
           asset # None => (Good => Good'),
           asset' = None => asset = None,
           asset # None \/ asset' = None => StoreKeeps,
           Backed => Backed', asset # None => Len(versions) <= Len(versions'),
           \A l \in Link : links[l] # None => links'[l] # None,
           \A w \in Client : client'[w] = client[w] \/ ClientSound(client[w])'
    PROVE  AssetsInv'
<1>1. AssetsTypeOK BY DEF AssetsInv
<1>2. ASSUME NEW w \in Client PROVE ClientSound(client[w])'
  <2>1. CASE client'[w] = client[w]
    <3> PICK c : c = client[w] OBVIOUS
    <3>1. c \in ClientState /\ ClientSound(c) BY <1>1 DEF AssetsInv, AssetsTypeOK
    <3>2. asset = None => c.op \in {"resting", "register", "proxy"} BY <1>1 DEF AssetsTypeOK
    <3>3. c.op \in CopyOp => Whole(c.copy)'
      BY <3>1, <3>2 DEF ClientSound, Whole, CopyOp
    <3>4. c.op = "complete" /\ c.step = "mark" => Good' BY <3>1, <3>2 DEF ClientSound
    <3>5. c.op = "complete" /\ c.step = "scan" => Measured'
      <4>1. c.op = "complete" /\ c.step = "scan" => ObjectMeasured BY DEF ObjectMeasured
      <4> QED BY <3>1, <3>2, <4>1 DEF ClientSound, StoreKeeps
    <3>6. c.op = "register" /\ asset' = None =>
             (c.step = "scan" => Measured') /\ (c.step = "create" => Passed')
      <4>1. c.op = "register" /\ asset = None => ObjectMeasured BY DEF ObjectMeasured
      <4> QED BY <3>1, <4>1 DEF ClientSound, StoreKeeps
    <3>7. c.op \in {"complete", "version"} /\ c.step = "insert" => c.number <= Len(versions') + 1
      <4>1. Len(versions) \in Nat /\ Len(versions') \in Nat BY <1>1 DEF AssetsTypeOK
      <4>2. c.op \in {"complete", "version"} /\ c.step = "insert" => c.number \in Nat
        BY <3>1, ClientKinds DEF ContentVersion
      <4> QED BY <3>1, <3>2, <4>1, <4>2 DEF ClientSound
    <3>8. c.op = "resolve" => links'[c.link] # None BY <3>1, ClientKinds DEF ClientSound
    <3>9. ClientSound(c)' BY <3>1, <3>3, <3>4, <3>5, <3>6, <3>7, <3>8 DEF ClientSound
    <3>10. c = client'[w] BY <2>1
    <3> QED BY <3>9, <3>10 DEF ClientSound
  <2> QED BY <2>1
<1> QED BY <1>2 DEF AssetsInv

\* The links, if none is written and no request begins to resolve one.
LEMMA LinksKept ==
    ASSUME AssetsInv, UNCHANGED links, seeded => seeded', verified => verified',
           declared => declared',
           \A p \in Profile, v \in ContentPermissionValue : grants[p][v] # None => grants'[p][v] # None,
           \A w \in Client : client'[w] = client[w] \/ client'[w].op # "resolve"
    PROVE  LinkJustified' /\ LinksTurn'
<1>1. LinkJustified'
  <2>1. \A l \in Link : links[l] # None => links[l].by \in Profile
    BY DEF AssetsInv, AssetsTypeOK, SignedAccessRecord
  <2>2. {"download", "manage"} \subseteq ContentPermissionValue BY DEF ContentPermissionValue
  <2> QED BY <2>1, <2>2 DEF AssetsInv, LinkJustified
<1>2. \A w \in Client, l \in Link : Resolves(w, l)' => Resolves(w, l) BY DEF Resolves
<1>3. LinksTurn' BY <1>2 DEF AssetsInv, LinksTurn
<1> QED BY <1>1, <1>3

\* A request goes on, without writing the asset or a link.
LEMMA ClientKeeps ==
    ASSUME AssetsInv, NEW w \in Client, NEW v \in ClientState, client' = [client EXCEPT ![w] = v],
           v.op # "resolve",
           UNCHANGED <<asset, hasFile, grants, links, stored, urlOpen, authorized, seeded, declared,
                       putLate>>,
           started' \in 0 .. MaxStarted,
           cut' \in BOOLEAN, cut => cut', verified' \in BOOLEAN, verified => verified',
           versions' \in Seq(ContentVersion), Len(versions) <= Len(versions'), VersionsInOrder',
           asset = None => v.op \in {"resting", "register", "proxy"},
           client[w].op = "complete" => v.op = "complete" \/ versions' # <<>> \/ cut',
           ClientSound(v)'
    PROVE  AssetsInv'
<1>0. AssetsTypeOK BY DEF AssetsInv
<1>1. /\ client' \in [Client -> ClientState] /\ client'[w] = v
      /\ \A u \in Client \ {w} : client'[u] = client[u]
  BY <1>0 DEF AssetsTypeOK
<1>2. AssetsTypeOK' BY <1>0, <1>1 DEF AssetsTypeOK
<1>3. versions # <<>> => versions' # <<>>
  <2>1. versions' = <<>> => Len(versions) = 0 BY <1>0 DEF AssetsTypeOK
  <2> QED BY <1>0, <2>1 DEF AssetsTypeOK
<1>4. Backed => Backed'
  <2>1. (\E u \in Client : client[u].op = "complete") => Backed' BY <1>1 DEF Backed
  <2> QED BY <1>3, <2>1 DEF Backed
<1>5. StoreKeeps /\ (Good => Good') BY NothingStored
<1>6. AssetSound' BY <1>4, <1>5 DEF AssetsInv, AssetSound, Whole
<1>7. LinkJustified' /\ LinksTurn' BY <1>1, LinksKept
<1>8. ClientSound(client[w])'
  <2>1. v = client'[w] BY <1>1
  <2> QED BY <2>1 DEF ClientSound
<1> QED BY <1>1, <1>2, <1>4, <1>5, <1>6, <1>7, <1>8, StepKeeps

\* A request writes the asset.
LEMMA WriteKeeps ==
    ASSUME AssetsInv, NEW w \in Client, NEW v \in ClientState, client' = [client EXCEPT ![w] = v],
           asset # None, asset' \in ContentAsset, asset'.status = "deleted" <=> asset'.deleted,
           asset'.upload = "complete" => Good' /\ Backed',
           v.op # "resolve", client[w].op = "complete" => v.op = "complete", ClientSound(v)',
           UNCHANGED <<hasFile, versions, grants, links, world, seeded, verified, putLate, cut, started>>,
           declared' \in BOOLEAN, declared => declared'
    PROVE  AssetsInv'
<1>0. AssetsTypeOK BY DEF AssetsInv
<1>1. /\ client' \in [Client -> ClientState] /\ client'[w] = v
      /\ \A u \in Client \ {w} : client'[u] = client[u]
  BY <1>0 DEF AssetsTypeOK
<1>2. UNCHANGED <<hasFile, versions, grants, links, stored, urlOpen, authorized, seeded, verified,
                  putLate, cut, started>>
  BY DEF world
<1>3. asset' # None BY NoneIsNoRow
<1>4. AssetsTypeOK' BY <1>0, <1>1, <1>2, <1>3 DEF AssetsTypeOK
<1>5. Backed => Backed' BY <1>1, <1>2 DEF Backed
<1>6. StoreKeeps /\ (Good => Good') BY <1>2, NothingStored
<1>7. AssetSound' BY DEF AssetSound, Whole
<1>8. LinkJustified' /\ LinksTurn' BY <1>1, <1>2, LinksKept
<1>9. VersionsInOrder' BY <1>2 DEF AssetsInv, VersionsInOrder
<1>10. ClientSound(client[w])'
  <2>1. v = client'[w] BY <1>1
  <2> QED BY <2>1 DEF ClientSound
<1>11. Len(versions) <= Len(versions') BY <1>0, <1>2 DEF AssetsTypeOK
<1> QED
  BY <1>1, <1>2, <1>3, <1>4, <1>5, <1>6, <1>7, <1>8, <1>9, <1>10, <1>11, StepKeeps

\* The asset is created.
LEMMA CreateKeeps ==
    ASSUME AssetsInv, asset = None, asset' \in ContentAsset, asset'.status # "deleted",
           ~asset'.deleted, asset'.upload = "complete" => Good' /\ (versions' # <<>> \/ declared'),
           hasFile' \in BOOLEAN, stored' \in StoredObject, urlOpen' \in BOOLEAN,
           versions' \in Seq(ContentVersion), versions # <<>> => versions' # <<>>, VersionsInOrder',
           started' \in 0 .. MaxStarted, UNCHANGED <<grants, links, authorized, seeded, cut>>,
           verified' \in BOOLEAN, verified => verified', declared' \in BOOLEAN,
           declared => declared', putLate' \in BOOLEAN,
           client' \in [Client -> ClientState],
           \A w \in Client : client'[w] = client[w] \/ client'[w] = Resting
    PROVE  AssetsInv'
<1>0. AssetsTypeOK BY DEF AssetsInv
<1>1. asset' # None BY NoneIsNoRow
<1>2. AssetsTypeOK' BY <1>0, <1>1 DEF AssetsTypeOK
<1>3. AssetSound' BY DEF AssetSound, Whole, Backed
<1>4. \A w \in Client : client[w].op \in {"resting", "register", "proxy"} BY <1>0 DEF AssetsTypeOK
<1>5. Backed => Backed' BY <1>4 DEF Backed
<1>6. \A w \in Client : client'[w] = client[w] \/ client'[w].op # "resolve" BY RestingSound
<1>7. LinkJustified' /\ LinksTurn' BY <1>6, LinksKept
<1>8. ASSUME NEW w \in Client, client'[w] = Resting PROVE ClientSound(client[w])'
  BY <1>8 DEF ClientSound, Resting, CopyOp
<1> QED BY <1>1, <1>2, <1>3, <1>5, <1>7, <1>8, StepKeeps

-----------------------------------------------------------------------------
(* Requests about the asset *)

\* A request begins; only what it finds in the store is new.
LEMMA BeginKeeps ==
    ASSUME AssetsInv, NEW w \in Client, NEW v \in ClientState, Begins(w, v), v.op # "resolve",
           UNCHANGED <<rows, world, assetHistory>>,
           asset = None => v.op \in {"resting", "register", "proxy"},
           ClientSound(v)'
    PROVE  AssetsInv'
<1>0. AssetsTypeOK BY DEF AssetsInv
<1>1. /\ client' = [client EXCEPT ![w] = v] /\ client[w] = Resting
      /\ started' \in 0 .. MaxStarted
  BY <1>0, ContentAssumption DEF Begins, Request, AssetsTypeOK
<1>2. UNCHANGED <<asset, hasFile, versions, grants, links, stored, urlOpen, authorized, seeded,
                  verified, declared, putLate, cut>>
  BY DEF rows, world, assetHistory
<1>3. client[w].op # "complete" BY <1>1 DEF Resting
<1>4. /\ VersionsInOrder' /\ versions' \in Seq(ContentVersion) /\ Len(versions) <= Len(versions')
      /\ cut' \in BOOLEAN /\ verified' \in BOOLEAN
  BY <1>0, <1>2 DEF AssetsInv, VersionsInOrder, AssetsTypeOK
<1> QED BY <1>1, <1>2, <1>3, <1>4, ClientKeeps

LEMMA VerifyRegisteredKeeps ==
    ASSUME AssetsInv, NEW w \in Client, VerifyRegistered(w) PROVE AssetsInv'
<1> PICK v : v = [op |-> "register", step |-> "scan"] OBVIOUS
<1>1. v \in ClientState /\ v.op = "register" /\ v.step = "scan" BY DEF ClientState
<1>2. UNCHANGED <<rows, world, assetHistory>> /\ Begins(w, v) BY DEF VerifyRegistered
<1>3. Measured BY DEF VerifyRegistered, MatchesStored, Found, Measured
<1>4. ClientSound(v)'
  BY <1>1, <1>2, <1>3 DEF ClientSound, CopyOp, Measured, world, assetHistory
<1> QED BY <1>1, <1>2, <1>4, BeginKeeps

LEMMA UploadObjectKeeps ==
    ASSUME AssetsInv, NEW w \in Client, UploadObject(w) PROVE AssetsInv'
<1>1. PICK object \in AcceptedUpload : Begins(w, [op |-> "proxy", object |-> object])
  BY DEF UploadObject
<1> PICK v : v = [op |-> "proxy", object |-> object] OBVIOUS
<1>2. v \in ClientState /\ v.op = "proxy" BY DEF ClientState
<1>3. UNCHANGED <<rows, world, assetHistory>> BY DEF UploadObject
<1>4. ClientSound(v)' BY <1>2 DEF ClientSound, CopyOp
<1> QED BY <1>1, <1>2, <1>3, <1>4, BeginKeeps

LEMMA BeginCompleteKeeps ==
    ASSUME AssetsInv, NEW w \in Client, BeginComplete(w) PROVE AssetsInv'
<1> PICK v : v = [op |-> "complete", step |-> "verify"] OBVIOUS
<1>1. v \in ClientState /\ v.op = "complete" /\ v.step = "verify" BY DEF ClientState
<1>2. UNCHANGED <<rows, world, assetHistory>> /\ Begins(w, v) /\ asset # None
  BY DEF BeginComplete, Live
<1>3. ClientSound(v)' BY <1>1 DEF ClientSound, CopyOp
<1> QED BY <1>1, <1>2, <1>3, BeginKeeps

LEMMA BeginVersionKeeps ==
    ASSUME AssetsInv, NEW w \in Client, BeginVersion(w) PROVE AssetsInv'
<1> PICK v : v = [op |-> "version", step |-> "max"] OBVIOUS
<1>1. v \in ClientState /\ v.op = "version" /\ v.step = "max" BY DEF ClientState
<1>2. UNCHANGED <<rows, world, assetHistory>> /\ Begins(w, v) /\ asset # None
  BY DEF BeginVersion, Live
<1>3. ClientSound(v)' BY <1>1 DEF ClientSound, CopyOp
<1> QED BY <1>1, <1>2, <1>3, BeginKeeps

\* A view loads the asset, which is not deleted.
LEMMA LoadKeeps ==
    ASSUME AssetsInv, NEW w \in Client, NEW op \in CopyOp, Loads(w, op),
           UNCHANGED <<rows, world, assetHistory>>
    PROVE  AssetsInv'
<1> PICK v : v = [op |-> op, copy |-> asset] OBVIOUS
<1>0. asset # None /\ asset \in ContentAsset /\ asset.status # "deleted" /\ ~asset.deleted
      /\ Whole(asset)
  BY DEF Loads, Live, AssetsInv, AssetsTypeOK, AssetSound
<1>1. v \in ClientState /\ v.op = op /\ v.copy = asset BY <1>0 DEF ClientState, CopyOp
<1>2. Begins(w, v)
      /\ UNCHANGED <<asset, versions, links, stored, seeded, verified, declared, putLate, cut>>
  BY DEF Loads, world, assetHistory, rows
<1>3. Whole(asset)'
  <2>1. Good => Good' BY <1>2, NothingStored
  <2>2. \A u \in Client : client[u].op = "complete" => client'[u] = client[u]
    BY DEF Loads, Begins, Resting, AssetsInv, AssetsTypeOK
  <2>3. Backed => Backed' BY <1>2, <2>2 DEF Backed
  <2> QED BY <1>0, <1>2, <2>1, <2>3 DEF Whole
<1>4. ClientSound(v)' BY <1>0, <1>1, <1>2, <1>3 DEF ClientSound, CopyOp, Whole
<1>5. op \notin {"resting", "register", "proxy", "resolve"} BY DEF CopyOp
<1> QED BY <1>0, <1>1, <1>2, <1>4, <1>5, BeginKeeps

\* A request goes on or ends, and writes no row.
LEMMA GoOnKeeps ==
    ASSUME AssetsInv, NEW w \in Client, NEW v \in ClientState, Continues(w, v), v.op # "resolve",
           UNCHANGED <<rows, world, seeded, declared, putLate, started>>,
           cut' \in BOOLEAN, cut => cut', verified' \in BOOLEAN, verified => verified',
           asset = None => v.op \in {"resting", "register", "proxy"},
           client[w].op = "complete" => v.op = "complete" \/ versions # <<>> \/ cut',
           ClientSound(v)'
    PROVE  AssetsInv'
<1>0. AssetsTypeOK BY DEF AssetsInv
<1>1. UNCHANGED <<asset, hasFile, versions, grants, links, stored, urlOpen, authorized>>
  BY DEF rows, world
<1>2. VersionsInOrder' /\ versions' \in Seq(ContentVersion) /\ Len(versions) <= Len(versions')
      /\ started' \in 0 .. MaxStarted
  BY <1>0, <1>1 DEF AssetsInv, VersionsInOrder, AssetsTypeOK
<1> QED BY <1>1, <1>2, ClientKeeps DEF Continues

LEMMA StopKeeps == ASSUME AssetsInv, NEW w \in Client, Stop(w) PROVE AssetsInv'
<1>1. ClientSound(Resting)' BY DEF ClientSound, Resting, CopyOp
<1>2. verified \in BOOLEAN BY DEF AssetsInv, AssetsTypeOK
<1> QED BY <1>1, <1>2, RestingSound, GoOnKeeps DEF Stop, Ends

\* The requests that there are without an asset.
LEMMA AssetThere ==
    ASSUME AssetsInv, NEW w \in Client, client[w].op \notin {"resting", "register", "proxy"}
    PROVE  asset # None /\ asset \in ContentAsset
BY DEF AssetsInv, AssetsTypeOK

LEMMA VerifyCompleteKeeps ==
    ASSUME AssetsInv, NEW w \in Client, VerifyComplete(w) PROVE AssetsInv'
<1> PICK v : v = [op |-> "complete", step |-> "scan"] OBVIOUS
<1>1. v \in ClientState /\ v.op = "complete" /\ v.step = "scan" BY DEF ClientState
<1>2. /\ Continues(w, v) /\ client[w].op = "complete" /\ Measured
      /\ UNCHANGED <<rows, world, seeded, verified, declared, putLate, cut, started>>
  BY DEF VerifyComplete, Doing, MatchesStored, Found, Measured, assetHistory
<1>3. ClientSound(v)' BY <1>1, <1>2 DEF ClientSound, CopyOp, Measured, world
<1>4. cut \in BOOLEAN /\ verified \in BOOLEAN BY DEF AssetsInv, AssetsTypeOK
<1>5. asset # None BY <1>2, AssetThere
<1> QED BY <1>1, <1>2, <1>3, <1>4, <1>5, GoOnKeeps

\* What was measured and passes the scan passes both.
LEMMA ScanPasses == ASSUME Measured, ScanStored PROVE Passed
BY DEF Measured, ScanStored, Passed, Acceptable

LEMMA ScanCompleteKeeps ==
    ASSUME AssetsInv, NEW w \in Client, ScanComplete(w) PROVE AssetsInv'
<1> PICK v : v = [op |-> "complete", step |-> "mark"] OBVIOUS
<1>1. v \in ClientState /\ v.op = "complete" /\ v.step = "mark" BY DEF ClientState
<1>2. /\ Continues(w, v) /\ client[w].op = "complete" /\ client[w].step = "scan" /\ ScanStored
      /\ verified' = TRUE /\ UNCHANGED <<rows, world, seeded, declared, putLate, cut, started>>
  BY DEF ScanComplete, Doing
<1>3. Passed BY <1>2, ScanPasses DEF AssetsInv, ClientSound
<1>4. Good' BY <1>2, <1>3 DEF Good, Passed, world
<1>5. ClientSound(v)' BY <1>1, <1>4 DEF ClientSound, CopyOp
<1>6. cut \in BOOLEAN BY DEF AssetsInv, AssetsTypeOK
<1>7. asset # None BY <1>2, AssetThere
<1> QED BY <1>1, <1>2, <1>5, <1>6, <1>7, GoOnKeeps

LEMMA ScanRegisteredKeeps ==
    ASSUME AssetsInv, NEW w \in Client, ScanRegistered(w) PROVE AssetsInv'
<1> PICK v : v = [op |-> "register", step |-> "create"] OBVIOUS
<1>1. v \in ClientState /\ v.op = "register" /\ v.step = "create" BY DEF ClientState
<1>2. /\ Continues(w, v) /\ client[w].op = "register" /\ client[w].step = "scan" /\ asset = None
      /\ ScanStored /\ UNCHANGED <<rows, world, seeded, verified, declared, putLate, cut, started>>
  BY DEF ScanRegistered, Doing, assetHistory
<1>3. Passed BY <1>2, ScanPasses DEF AssetsInv, ClientSound
<1>4. ClientSound(v)' BY <1>1, <1>2, <1>3 DEF ClientSound, CopyOp, Passed, world
<1>5. cut \in BOOLEAN /\ verified \in BOOLEAN BY DEF AssetsInv, AssetsTypeOK
<1> QED BY <1>1, <1>2, <1>4, <1>5, GoOnKeeps

LEMMA FirstVersionKeeps ==
    ASSUME AssetsInv, NEW w \in Client, FirstVersion(w) PROVE AssetsInv'
<1> PICK v : v = [op |-> "complete", step |-> "max"] OBVIOUS
<1>1. v \in ClientState /\ v.op = "complete" /\ v.step = "max" BY DEF ClientState
<1>2. /\ Continues(w, v) \/ (versions # <<>> /\ Continues(w, Resting))
      /\ UNCHANGED <<rows, world, seeded, declared, putLate, cut, verified, started>>
      /\ client[w].op = "complete"
  BY DEF FirstVersion, Doing, assetHistory, Ends
<1>3. ClientSound(v)' BY <1>1 DEF ClientSound, CopyOp
<1>4. cut \in BOOLEAN /\ verified \in BOOLEAN BY DEF AssetsInv, AssetsTypeOK
<1>5. asset # None BY <1>2, AssetThere
<1>6. ClientSound(Resting)' BY DEF ClientSound, Resting, CopyOp
<1>7. CASE Continues(w, v) BY <1>1, <1>2, <1>3, <1>4, <1>5, <1>7, GoOnKeeps
<1>8. CASE versions # <<>> /\ Continues(w, Resting)
  BY <1>2, <1>4, <1>5, <1>6, <1>8, RestingSound, GoOnKeeps
<1> QED BY <1>2, <1>7, <1>8

LEMMA NextNumberKeeps ==
    ASSUME AssetsInv, NEW w \in Client, NextNumber(w) PROVE AssetsInv'
<1> PICK op : op = client[w].op OBVIOUS
<1> PICK number : number = Len(versions) + 1 OBVIOUS
<1> PICK v : v = [op |-> op, step |-> "insert", number |-> number] OBVIOUS
<1>1. number \in ContentVersion BY DEF AssetsInv, AssetsTypeOK, ContentVersion
<1>2. op \in {"complete", "version"} BY DEF NextNumber
<1>3. v \in ClientState /\ v.op = op /\ v.step = "insert" /\ v.number = number
  BY <1>1, <1>2 DEF ClientState
<1>4. Continues(w, v)
      /\ UNCHANGED <<rows, world, seeded, declared, putLate, cut, verified, started>>
  BY DEF NextNumber, assetHistory
<1>5. number <= Len(versions') + 1 BY <1>1, <1>4 DEF rows, ContentVersion
<1>6. ClientSound(v)' BY <1>2, <1>3, <1>5 DEF ClientSound, CopyOp
<1>7. cut \in BOOLEAN /\ verified \in BOOLEAN BY DEF AssetsInv, AssetsTypeOK
<1>8. asset # None BY <1>2, AssetThere
<1> QED BY <1>2, <1>3, <1>4, <1>6, <1>7, <1>8, GoOnKeeps

LEMMA InsertVersionKeeps ==
    ASSUME AssetsInv, NEW w \in Client, InsertVersion(w) PROVE AssetsInv'
<1>0. AssetsTypeOK BY DEF AssetsInv
<1> PICK number : number = client[w].number OBVIOUS
<1> PICK len : len = Len(versions) OBVIOUS
<1>1. client[w].op \in {"complete", "version"} /\ client[w].step = "insert" BY DEF InsertVersion
<1>2. client[w] \in ClientState /\ number \in ContentVersion /\ number <= len + 1 /\ len \in Nat
      /\ versions \in Seq(ContentVersion) /\ DOMAIN versions = 1 .. len
  BY <1>0, <1>1, ClientKinds DEF AssetsInv, AssetsTypeOK, ClientSound
<1>3. \A i \in 1 .. len : versions[i] = i BY <1>2 DEF AssetsInv, VersionsInOrder
<1>4. asset # None BY <1>1, AssetThere
<1>5. versions' = IF UniqueNumber(number) THEN Append(versions, number) ELSE versions
  BY DEF InsertVersion
<1>6. /\ versions' \in Seq(ContentVersion) /\ Len(versions) <= Len(versions')
      /\ VersionsInOrder' /\ versions' # <<>>
  <2>1. CASE UniqueNumber(number)
    <3>1. number = len + 1 BY <1>2, <1>3, <2>1 DEF UniqueNumber, ContentVersion
    <3>2. versions' = Append(versions, number) BY <1>5, <2>1
    <3>3. /\ versions' \in Seq(ContentVersion) /\ Len(versions') = len + 1
          /\ \A i \in 1 .. len : versions'[i] = versions[i]
          /\ versions'[len + 1] = number
      BY <1>2, <3>2
    <3>4. \A i \in 1 .. len + 1 : i \in 1 .. len \/ i = len + 1 BY <1>2
    <3>5. VersionsInOrder' BY <1>3, <3>1, <3>3, <3>4 DEF VersionsInOrder
    <3> QED BY <1>2, <3>3, <3>5
  <2>2. CASE ~UniqueNumber(number)
    <3>1. versions' = versions BY <1>5, <2>2
    <3>2. PICK i \in DOMAIN versions : versions[i] = number BY <2>2 DEF UniqueNumber
    <3> QED BY <1>2, <3>1, <3>2 DEF AssetsInv, VersionsInOrder
  <2> QED BY <2>1, <2>2
<1>7. UNCHANGED <<asset, hasFile, grants, links, stored, urlOpen, authorized, seeded, verified,
                  declared, putLate, cut, started>>
      /\ client' = [client EXCEPT ![w] = Resting]
  BY DEF InsertVersion, world, assetHistory, Ends, Continues
<1>8. ClientSound(Resting)' BY DEF ClientSound, Resting, CopyOp
<1>9. started' \in 0 .. MaxStarted /\ cut' \in BOOLEAN /\ verified' \in BOOLEAN
  BY <1>0, <1>7 DEF AssetsTypeOK
<1> QED BY <1>4, <1>6, <1>7, <1>8, <1>9, RestingSound, ClientKeeps

-----------------------------------------------------------------------------
(* The asset is written *)

LEMMA MarkCompleteKeeps ==
    ASSUME AssetsInv, NEW w \in Client, MarkComplete(w) PROVE AssetsInv'
<1> PICK v : v = [op |-> "complete", step |-> "exists"] OBVIOUS
<1>1. v \in ClientState /\ v.op = "complete" /\ v.step = "exists" BY DEF ClientState
<1>2. /\ client[w].op = "complete" /\ client[w].step = "mark"
      /\ asset' = [asset EXCEPT !.upload = "complete"]
      /\ client' = [client EXCEPT ![w] = v]
      /\ UNCHANGED <<hasFile, versions, grants, links, world, assetHistory, started>>
  BY DEF MarkComplete, Doing, Continues
<1>3. asset # None /\ asset \in ContentAsset BY <1>2, AssetThere
<1>4. asset' \in ContentAsset /\ asset'.status = asset.status /\ asset'.deleted = asset.deleted
  BY <1>2, <1>3 DEF ContentAsset, UploadStatus
<1>5. asset'.status = "deleted" <=> asset'.deleted BY <1>3, <1>4 DEF AssetsInv, AssetSound
<1>6. UNCHANGED <<stored, seeded, verified, declared, putLate, cut>>
  BY <1>2 DEF world, assetHistory
<1>7. client'[w].op = "complete" BY <1>1, <1>2 DEF AssetsInv, AssetsTypeOK
<1>8. Backed' BY <1>7 DEF Backed
<1>9. ClientSound(v)' BY <1>1 DEF ClientSound, CopyOp
<1>10. Good /\ (Good => Good') BY <1>2, <1>6, NothingStored DEF AssetsInv, ClientSound
<1>11. declared' \in BOOLEAN BY <1>6 DEF AssetsInv, AssetsTypeOK
<1> QED BY <1>1, <1>2, <1>3, <1>4, <1>5, <1>6, <1>8, <1>9, <1>10, <1>11, WriteKeeps

\* A request that loaded the asset writes it and ends.
LEMMA SaveKeeps ==
    ASSUME AssetsInv, NEW w \in Client, client[w].op \in CopyOp, KeepsRest(w),
           UNCHANGED <<seeded, verified, putLate, cut>>,
           declared' \in BOOLEAN, declared => declared',
           asset' \in ContentAsset, asset'.status = "deleted" <=> asset'.deleted,
           asset'.upload = "complete" => declared' \/ (Good /\ Backed)
    PROVE  AssetsInv'
<1>1. asset # None BY AssetThere DEF CopyOp
<1>2. /\ client' = [client EXCEPT ![w] = Resting]
      /\ UNCHANGED <<hasFile, versions, grants, links, world, started>>
  BY DEF KeepsRest, Ends, Continues
<1>3. client[w].op # "complete" BY DEF CopyOp
<1>4. \A u \in Client : client[u].op = "complete" => client'[u] = client[u]
  BY <1>2, <1>3 DEF AssetsInv, AssetsTypeOK
<1>5. (Backed => Backed') /\ (declared' => Backed') BY <1>2, <1>4 DEF Backed
<1>6. UNCHANGED stored BY <1>2 DEF world
<1>7. (Good => Good') /\ (declared' => Good') BY <1>6, NothingStored DEF Good
<1>8. ClientSound(Resting)' BY DEF ClientSound, Resting, CopyOp
<1> QED BY <1>1, <1>2, <1>3, <1>5, <1>7, <1>8, RestingSound, WriteKeeps

LEMMA UpdatedFields ==
    ASSUME NEW copy \in ContentAsset, NEW type \in ContentAssetType, NEW upload \in UploadStatus
    PROVE  /\ WithMembers(copy, type, upload) \in ContentAsset
           /\ WithMembers(copy, type, upload).status = copy.status
           /\ WithMembers(copy, type, upload).deleted = copy.deleted
           /\ WithMembers(copy, type, upload).upload = upload
<1> PICK a : a = [copy EXCEPT !.type = type] OBVIOUS
<1> PICK b : b = [a EXCEPT !.upload = upload] OBVIOUS
<1>1. WithMembers(copy, type, upload) = b BY Zenon DEF WithMembers
<1>2. /\ a \in ContentAsset /\ a.status = copy.status /\ a.deleted = copy.deleted
  BY DEF ContentAsset
<1>3. /\ b \in ContentAsset /\ b.status = a.status /\ b.deleted = a.deleted /\ b.upload = upload
  BY <1>2 DEF ContentAsset
<1> QED BY <1>1, <1>2, <1>3

LEMMA UpdatedKeepsCopy ==
    ASSUME NEW copy \in ContentAsset, NEW sent \in SUBSET UploadStatus, NEW a \in Updated(copy, sent)
    PROVE  /\ a \in ContentAsset /\ a.status = copy.status /\ a.deleted = copy.deleted
           /\ a.upload \in sent
<1>1. PICK type \in ContentAssetType, upload \in sent : a = WithMembers(copy, type, upload)
  BY DEF Updated
<1> QED BY <1>1, UpdatedFields

LEMMA SaveUpdateKeeps ==
    ASSUME AssetsInv, NEW w \in Client, SaveUpdate(w) PROVE AssetsInv'
<1> PICK copy : copy = client[w].copy OBVIOUS
<1>1. /\ client[w].op = "update" /\ KeepsRest(w)
      /\ UNCHANGED <<seeded, verified, putLate, cut>>
      /\ \/ asset' \in Updated(copy, {copy.upload}) /\ UNCHANGED declared
         \/ /\ asset' \in Updated(copy, UploadStatus)
            /\ declared' = (declared \/ asset'.upload = "complete")
  BY DEF SaveUpdate
<1>2. client[w].op \in CopyOp BY <1>1 DEF CopyOp
<1>3. copy \in ContentAsset /\ ~copy.deleted /\ copy.status # "deleted" /\ Whole(copy)
  BY <1>2, ClientKinds DEF AssetsInv, AssetsTypeOK, ClientSound
<1>4. /\ {copy.upload} \in SUBSET UploadStatus /\ UploadStatus \in SUBSET UploadStatus
      /\ declared \in BOOLEAN
  BY <1>3 DEF ContentAsset, AssetsInv, AssetsTypeOK
<1>5. asset' \in ContentAsset /\ asset'.status = copy.status /\ asset'.deleted = copy.deleted
  BY <1>1, <1>3, <1>4, UpdatedKeepsCopy
<1>6. asset'.upload = "complete" => declared' \/ (Good /\ Backed)
  <2>1. CASE asset' \in Updated(copy, {copy.upload}) BY <1>3, <1>4, <2>1, UpdatedKeepsCopy DEF Whole
  <2> QED BY <1>1, <2>1
<1>7. declared' \in BOOLEAN /\ (declared => declared') BY <1>1, <1>4
<1> QED BY <1>1, <1>2, <1>3, <1>5, <1>6, <1>7, SaveKeeps

\* publish_asset and delete_asset write the status and the time of deletion.
WithStatus(a, status, deleted) == [a EXCEPT !.status = status, !.deleted = deleted]

LEMMA StatusFields ==
    ASSUME NEW a \in ContentAsset, NEW status \in ContentAssetStatus, NEW deleted \in BOOLEAN
    PROVE  /\ WithStatus(a, status, deleted) \in ContentAsset
           /\ WithStatus(a, status, deleted).status = status
           /\ WithStatus(a, status, deleted).deleted = deleted
           /\ WithStatus(a, status, deleted).upload = a.upload
<1> PICK b : b = [a EXCEPT !.status = status] OBVIOUS
<1> PICK c : c = [b EXCEPT !.deleted = deleted] OBVIOUS
<1>1. WithStatus(a, status, deleted) = c BY Zenon DEF WithStatus
<1>2. b \in ContentAsset /\ b.status = status /\ b.upload = a.upload BY DEF ContentAsset
<1>3. c \in ContentAsset /\ c.status = b.status /\ c.deleted = deleted /\ c.upload = b.upload
  BY <1>2 DEF ContentAsset
<1> QED BY <1>1, <1>2, <1>3

LEMMA StatusKeeps ==
    ASSUME AssetsInv, NEW w \in Client, client[w].op \in CopyOp, Keeps(w),
           NEW status \in ContentAssetStatus, NEW deleted \in BOOLEAN,
           asset' = WithStatus(asset, status, deleted), status = "deleted" <=> deleted
    PROVE  AssetsInv'
<1>1. asset # None /\ asset \in ContentAsset BY AssetThere DEF CopyOp
<1>2. /\ asset' \in ContentAsset /\ asset'.status = status /\ asset'.deleted = deleted
      /\ asset'.upload = asset.upload
  BY <1>1, StatusFields
<1>3. Whole(asset) BY <1>1 DEF AssetsInv, AssetSound
<1>4. KeepsRest(w) /\ UNCHANGED <<seeded, verified, declared, putLate, cut>>
  BY DEF Keeps, assetHistory
<1>5. declared' \in BOOLEAN BY <1>4 DEF AssetsInv, AssetsTypeOK
<1> QED BY <1>2, <1>3, <1>4, <1>5, SaveKeeps DEF Whole

LEMMA SavePublishedKeeps ==
    ASSUME AssetsInv, NEW w \in Client, SavePublished(w) PROVE AssetsInv'
<1>1. asset' = WithStatus(asset, "published", FALSE) BY Zenon DEF SavePublished, WithStatus
<1>2. client[w].op \in CopyOp /\ Keeps(w) BY DEF SavePublished, CopyOp
<1>3. "published" \in ContentAssetStatus BY DEF ContentAssetStatus
<1>4. ("published" = "deleted") <=> FALSE OBVIOUS
<1> QED BY <1>1, <1>2, <1>3, <1>4, StatusKeeps

LEMMA SaveDeletedKeeps ==
    ASSUME AssetsInv, NEW w \in Client, SaveDeleted(w) PROVE AssetsInv'
<1>1. asset' = WithStatus(asset, "deleted", TRUE) BY Zenon DEF SaveDeleted, WithStatus
<1>2. client[w].op \in CopyOp /\ Keeps(w) BY DEF SaveDeleted, CopyOp
<1>3. "deleted" \in ContentAssetStatus BY DEF ContentAssetStatus
<1> QED BY <1>1, <1>2, <1>3, StatusKeeps

-----------------------------------------------------------------------------
(* The asset is created *)

LEMMA NewAssetFields ==
    ASSUME NEW type \in ContentAssetType, NEW upload \in UploadStatus
    PROVE  /\ NewAsset(type, upload) \in ContentAsset
           /\ NewAsset(type, upload).status # "deleted" /\ ~NewAsset(type, upload).deleted
           /\ NewAsset(type, upload).upload = upload
BY DEF NewAsset, ContentAsset, ContentAssetStatus

LEMMA CreateLinkAssetKeeps == ASSUME AssetsInv, CreateLinkAsset PROVE AssetsInv'
<1>0. AssetsTypeOK BY DEF AssetsInv
<1>1. PICK upload \in UploadStatus :
          asset' = NewAsset("link", upload) /\ declared' = (declared \/ upload = "complete")
  BY DEF CreateLinkAsset
<1>2. /\ asset = None
      /\ UNCHANGED <<hasFile, versions, grants, links, stored, urlOpen, authorized, seeded, verified,
                     putLate, cut, client>>
      /\ started' \in 0 .. MaxStarted
  BY <1>0, ContentAssumption DEF CreateLinkAsset, Request, world, AssetsTypeOK
<1>3. /\ asset' \in ContentAsset /\ asset'.status # "deleted" /\ ~asset'.deleted
      /\ asset'.upload = upload
  BY <1>1, NewAssetFields DEF ContentAssetType
<1>4. asset'.upload = "complete" => Good' /\ declared' BY <1>1, <1>3 DEF Good
<1>5. VersionsInOrder' BY <1>2 DEF AssetsInv, VersionsInOrder
<1>6. /\ hasFile' \in BOOLEAN /\ stored' \in StoredObject /\ urlOpen' \in BOOLEAN
      /\ versions' \in Seq(ContentVersion) /\ (versions # <<>> => versions' # <<>>)
      /\ client' \in [Client -> ClientState] /\ verified' \in BOOLEAN /\ (verified => verified')
      /\ putLate' \in BOOLEAN /\ declared' \in BOOLEAN /\ (declared => declared')
  BY <1>0, <1>1, <1>2 DEF AssetsTypeOK
<1> QED BY <1>2, <1>3, <1>4, <1>5, <1>6, CreateKeeps

LEMMA CreatePresignedUploadKeeps == ASSUME AssetsInv, CreatePresignedUpload PROVE AssetsInv'
<1>0. AssetsTypeOK BY DEF AssetsInv
<1>1. /\ asset = None /\ asset' = NewAsset("uploaded", "pending")
      /\ hasFile' = TRUE /\ urlOpen' = TRUE /\ stored' = None /\ putLate' = FALSE
      /\ UNCHANGED <<versions, grants, links, authorized, seeded, verified, declared, cut, client>>
      /\ started' \in 0 .. MaxStarted
  BY <1>0, ContentAssumption DEF CreatePresignedUpload, UploadRequest, Request, AssetsTypeOK
<1>2. /\ asset' \in ContentAsset /\ asset'.status # "deleted" /\ ~asset'.deleted
      /\ asset'.upload # "complete"
  BY <1>1, NewAssetFields DEF ContentAssetType, UploadStatus
<1>3. VersionsInOrder' BY <1>1 DEF AssetsInv, VersionsInOrder
<1>4. /\ stored' \in StoredObject
      /\ versions' \in Seq(ContentVersion) /\ (versions # <<>> => versions' # <<>>)
      /\ client' \in [Client -> ClientState] /\ verified' \in BOOLEAN /\ declared' \in BOOLEAN
  BY <1>0, <1>1 DEF AssetsTypeOK, StoredObject
<1> QED BY <1>1, <1>2, <1>3, <1>4, CreateKeeps

\* The rows of an object that was measured and scanned.
LEMMA CreateRowsKeeps ==
    ASSUME AssetsInv, NEW w \in Client, NEW type \in ContentAssetType, CreateRows(type), Ends(w),
           stored' \in StoredObject, urlOpen' \in BOOLEAN, putLate' \in BOOLEAN, verified' = TRUE,
           Passed'
    PROVE  AssetsInv'
<1>0. AssetsTypeOK BY DEF AssetsInv
<1>1. /\ asset = None /\ asset' = NewAsset(type, "complete") /\ hasFile' = TRUE /\ versions' = <<1>>
      /\ UNCHANGED <<grants, links, authorized, seeded, declared, cut, started>>
      /\ client' = [client EXCEPT ![w] = Resting]
  BY DEF CreateRows, Ends, Continues
<1>2. /\ asset' \in ContentAsset /\ asset'.status # "deleted" /\ ~asset'.deleted
  BY <1>1, NewAssetFields DEF UploadStatus
<1>3. Good' BY DEF Good
<1>4. /\ versions' # <<>> /\ versions' \in Seq(ContentVersion) /\ DOMAIN versions' = {1}
      /\ versions'[1] = 1 /\ Len(versions') = 1
  BY <1>1 DEF ContentVersion
<1>5. VersionsInOrder' BY <1>4 DEF VersionsInOrder
<1>6. /\ started' \in 0 .. MaxStarted /\ declared' \in BOOLEAN
      /\ client' \in [Client -> ClientState]
      /\ \A u \in Client : client'[u] = client[u] \/ client'[u] = Resting
  BY <1>0, <1>1, RestingSound DEF AssetsTypeOK
<1> QED BY <1>1, <1>2, <1>3, <1>4, <1>5, <1>6, CreateKeeps

LEMMA CreateRegisteredKeeps ==
    ASSUME AssetsInv, NEW w \in Client, CreateRegistered(w) PROVE AssetsInv'
<1>1. PICK type \in ContentAssetType : CreateRows(type) BY DEF CreateRegistered
<1>2. /\ client[w].op = "register" /\ client[w].step = "create" /\ asset = None
      /\ UNCHANGED <<stored, urlOpen, putLate>> /\ verified' = TRUE /\ Ends(w)
  BY <1>1 DEF CreateRegistered, Doing, CreateRows
<1>3. Passed BY <1>2 DEF AssetsInv, ClientSound
<1>4. Passed' BY <1>2, <1>3 DEF Passed
<1>5. stored' \in StoredObject /\ urlOpen' \in BOOLEAN /\ putLate' \in BOOLEAN
  BY <1>2 DEF AssetsInv, AssetsTypeOK
<1> QED BY <1>1, <1>2, <1>4, <1>5, CreateRowsKeeps

LEMMA RecordUploadKeeps ==
    ASSUME AssetsInv, NEW w \in Client, RecordUpload(w) PROVE AssetsInv'
<1>1. PICK type \in ContentAssetType : CreateRows(type)
  BY DEF RecordUpload, UploadRequest, ContentAssetType
<1> PICK object : object = client[w].object OBVIOUS
<1>2. /\ stored' = object /\ urlOpen' = FALSE /\ putLate' = FALSE /\ verified' = TRUE /\ Ends(w)
      /\ client[w].op = "proxy"
  BY DEF RecordUpload, StoreObject
<1>3. object \in AcceptedUpload BY <1>2, ClientKinds DEF AssetsInv, AssetsTypeOK
<1>4. stored' \in StoredObject /\ stored' # None /\ Acceptable(stored')
  BY <1>2, <1>3, ContentAssumption DEF AcceptedUpload, StoredObject, Acceptable, Matches
<1>5. Passed' BY <1>4 DEF Passed, Acceptable, Matches, PassesScan
<1> QED BY <1>1, <1>2, <1>4, <1>5, CreateRowsKeeps

-----------------------------------------------------------------------------
(* Permissions and links *)

\* Only the permissions or the object in the store are written; no permission and no
\* object goes away.
LEMMA RestKeeps ==
    ASSUME AssetsInv,
           UNCHANGED <<asset, hasFile, versions, links, seeded, verified, declared, cut, client>>,
           grants' \in [Profile -> ContentPermission],
           \A p \in Profile, v \in ContentPermissionValue : grants[p][v] # None => grants'[p][v] # None,
           stored' \in StoredObject, putLate' \in BOOLEAN, StoreKeeps,
           urlOpen' \in BOOLEAN, authorized' \in BOOLEAN, started' \in 0 .. MaxStarted
    PROVE  AssetsInv'
<1>0. AssetsTypeOK BY DEF AssetsInv
<1>1. AssetsTypeOK' BY <1>0 DEF AssetsTypeOK
<1>2. Good => Good' BY DEF Good, StoreKeeps, ObjectMeasured
<1>3. Backed => Backed' BY DEF Backed
<1>4. AssetSound' BY <1>2, <1>3 DEF AssetsInv, AssetSound, Whole
<1>5. VersionsInOrder' BY DEF AssetsInv, VersionsInOrder
<1>6. LinkJustified' /\ LinksTurn' BY LinksKept
<1>7. Len(versions) <= Len(versions') BY <1>0 DEF AssetsTypeOK
<1> QED BY <1>1, <1>2, <1>3, <1>4, <1>5, <1>6, <1>7, StepKeeps

\* A permission is given, or expires.
LEMMA GrantKeeps ==
    ASSUME AssetsInv, NEW p \in Profile, NEW v \in ContentPermissionValue,
           NEW validity \in {"valid", "expired"},
           grants' = [grants EXCEPT ![p][v] = validity],
           UNCHANGED <<asset, hasFile, versions, links, world, assetHistory, client>>,
           started' \in 0 .. MaxStarted
    PROVE  AssetsInv'
<1>0. AssetsTypeOK BY DEF AssetsInv
<1>1. grants \in [Profile -> ContentPermission] BY <1>0 DEF AssetsTypeOK
<1>2. UNCHANGED <<stored, urlOpen, authorized, seeded, verified, declared, putLate, cut>>
  BY DEF world, assetHistory
<1>3. /\ \A q \in Profile : grants'[q] = IF q = p THEN [grants[p] EXCEPT ![v] = validity] ELSE grants[q]
      /\ grants' \in [Profile -> ContentPermission]
  BY <1>1 DEF ContentPermission
<1>4. ASSUME NEW q \in Profile, NEW u \in ContentPermissionValue, grants[q][u] # None
      PROVE  grants'[q][u] # None
  BY <1>1, <1>3, <1>4, ContentAssumption DEF ContentPermission
<1>5. /\ stored' \in StoredObject /\ urlOpen' \in BOOLEAN /\ authorized' \in BOOLEAN
      /\ putLate' \in BOOLEAN
  BY <1>0, <1>2 DEF AssetsTypeOK
<1>6. StoreKeeps BY <1>2, NothingStored
<1> QED BY <1>2, <1>3, <1>4, <1>5, <1>6, RestKeeps

LEMMA CreatePermissionKeeps ==
    ASSUME AssetsInv, NEW p \in Profile, NEW v \in ContentPermissionValue,
           NEW validity \in {"valid", "expired"}, CreatePermission(p, v, validity)
    PROVE  AssetsInv'
<1>1. started' \in 0 .. MaxStarted
  BY ContentAssumption DEF CreatePermission, Request, AssetsInv, AssetsTypeOK
<1> QED BY <1>1, GrantKeeps DEF CreatePermission

LEMMA ExpireGrantKeeps ==
    ASSUME AssetsInv, NEW p \in Profile, NEW v \in ContentPermissionValue, ExpireGrant(p, v)
    PROVE  AssetsInv'
<1>1. started' \in 0 .. MaxStarted BY DEF ExpireGrant, AssetsInv, AssetsTypeOK
<1> QED BY <1>1, GrantKeeps DEF ExpireGrant

LEMMA EnvironmentKeeps ==
    ASSUME AssetsInv, Reauthorize \/ ExpireUrl \/ \E object \in StoredObject \ {None} : Put(object)
    PROVE  AssetsInv'
<1>0. AssetsTypeOK BY DEF AssetsInv
<1>1. /\ UNCHANGED <<asset, hasFile, versions, grants, links, seeded, verified, declared, cut, client,
                     started>>
      /\ stored' \in StoredObject /\ putLate' \in BOOLEAN
      /\ urlOpen' \in BOOLEAN /\ authorized' \in BOOLEAN
  BY <1>0 DEF Reauthorize, ExpireUrl, Put, rows, assetHistory, AssetsTypeOK, ObjectMeasured
<1>2. grants' \in [Profile -> ContentPermission] /\ started' \in 0 .. MaxStarted
  BY <1>0, <1>1 DEF AssetsTypeOK
<1>3. StoreKeeps
  <2>1. CASE Reauthorize \/ ExpireUrl
    BY <1>1, <2>1, NothingStored DEF Reauthorize, ExpireUrl, assetHistory
  <2>2. CASE \E object \in StoredObject \ {None} : Put(object)
    <3>1. stored' # None /\ (ObjectMeasured => putLate') BY <2>2 DEF Put
    <3> QED BY <3>1 DEF StoreKeeps, Measured, Passed
  <2> QED BY <2>1, <2>2
<1> QED BY <1>1, <1>2, <1>3, RestKeeps

\* A link is made or written, by a request that goes on or ends or by none.
LEMMA LinkKeeps ==
    ASSUME AssetsInv, NEW l \in Link, NEW r \in SignedAccessRecord, links' = [links EXCEPT ![l] = r],
           UNCHANGED <<asset, hasFile, versions, grants, world, assetHistory>>,
           asset # None, started' \in 0 .. MaxStarted,
           client' \in [Client -> ClientState],
           \A w \in Client : client'[w] = client[w] \/ client[w].op # "complete",
           \A w \in Client : client'[w] = client[w] \/ ClientSound(client[w])',
           /\ Justified
           /\ r.by = Owner \/ \E v \in {"download", "manage"} : grants[r.by][v] # None,
           LinksTurn'
    PROVE  AssetsInv'
<1>0. AssetsTypeOK BY DEF AssetsInv
<1>1. UNCHANGED <<stored, urlOpen, authorized, seeded, verified, declared, putLate, cut>>
  BY DEF world, assetHistory
<1>2. /\ links' \in [Link -> SignedAccessRecord \cup {None}] /\ links'[l] = r
      /\ \A k \in Link : k # l => links'[k] = links[k]
  BY <1>0 DEF AssetsTypeOK
<1>3. AssetsTypeOK' BY <1>0, <1>1, <1>2 DEF AssetsTypeOK
<1>4. StoreKeeps /\ (Good => Good') BY <1>1, NothingStored
<1>5. Backed => Backed' BY <1>1 DEF Backed
<1>6. AssetSound' BY <1>4, <1>5 DEF AssetsInv, AssetSound, Whole
<1>7. VersionsInOrder' BY DEF AssetsInv, VersionsInOrder
<1>8. LinkJustified'
  <2>1. ASSUME NEW k \in Link, links'[k] # None
        PROVE  /\ Justified
               /\ \/ links'[k].by = Owner
                  \/ \E v \in {"download", "manage"} : grants[links'[k].by][v] # None
    <3>1. CASE k = l BY <1>2, <3>1
    <3>2. CASE k # l BY <1>2, <2>1, <3>2 DEF AssetsInv, LinkJustified, Justified
    <3> QED BY <3>1, <3>2
  <2> QED BY <1>1, <2>1 DEF LinkJustified, Justified
<1>9. r # None BY NoneIsNoRow
<1>10. \A k \in Link : links[k] # None => links'[k] # None BY <1>2, <1>9
<1>11. Len(versions) <= Len(versions') BY <1>0 DEF AssetsTypeOK
<1> QED BY <1>3, <1>4, <1>5, <1>6, <1>7, <1>8, <1>10, <1>11, StepKeeps

\* The asset of a link or of a request that resolves one.
LEMMA LinkThere ==
    ASSUME AssetsInv, NEW l \in Link, links[l] # None
    PROVE  /\ asset # None /\ links[l] \in SignedAccessRecord /\ Justified
           /\ \/ links[l].by = Owner
              \/ \E v \in {"download", "manage"} : grants[links[l].by][v] # None
BY DEF AssetsInv, AssetsTypeOK, LinkJustified, Justified

LEMMA GrantSignedAccessKeeps ==
    ASSUME AssetsInv, NEW w \in Client, NEW l \in Link, NEW p \in Profile, GrantSignedAccess(w, l, p)
    PROVE  AssetsInv'
<1>0. AssetsTypeOK BY DEF AssetsInv
<1> PICK r : r = [by |-> p, expired |-> FALSE, used |-> FALSE, uses |-> 0, overlapped |-> FALSE]
  OBVIOUS
<1>1. r \in SignedAccessRecord /\ r.by = p /\ r.uses = 0 BY DEF SignedAccessRecord
<1> PICK copy : copy = client[w].copy OBVIOUS
<1>2. /\ client[w].op = "sign" /\ links[l] = None /\ MayDownload(copy, p)
      /\ links' = [links EXCEPT ![l] = r] /\ client' = [client EXCEPT ![w] = Resting]
      /\ UNCHANGED <<asset, hasFile, versions, grants, world, assetHistory, started>>
  BY DEF GrantSignedAccess, Ends, Continues
<1>3. Whole(copy) BY <1>2 DEF AssetsInv, ClientSound, CopyOp
<1>4. Justified BY <1>2, <1>3 DEF MayDownload, Whole, Good, Justified
<1>5. r.by = Owner \/ \E v \in {"download", "manage"} : grants[r.by][v] # None
  BY <1>1, <1>2, ContentAssumption DEF MayDownload, HasAssetGrant
<1>6. asset # None BY <1>2, AssetThere
<1>7. /\ client' \in [Client -> ClientState] /\ client'[w] = Resting
      /\ \A u \in Client : u # w => client'[u] = client[u]
      /\ client[w].op # "complete"
  BY <1>0, <1>2, RestingSound DEF AssetsTypeOK
<1>8. ClientSound(client[w])' BY <1>7 DEF ClientSound, Resting, CopyOp
<1>9. \A u \in Client, k \in Link : Resolves(u, k)' => Resolves(u, k) BY <1>7, RestingSound DEF Resolves
<1>10. \A u \in Client : ~Resolves(u, l) BY <1>2 DEF AssetsInv, ClientSound, Resolves
<1>11. links'[l] = r /\ \A k \in Link : k # l => links'[k] = links[k] BY <1>0, <1>2 DEF AssetsTypeOK
<1>12. LinksTurn'
  <2>1. ASSUME NEW k \in Link, links'[k] # None, ~links'[k].overlapped
        PROVE  /\ links'[k].uses <= 1 /\ (links'[k].uses = 1 => links'[k].used)
               /\ \A u \in Client : Resolves(u, k)' => links'[k].uses = 0
               /\ \A u, v \in Client : Resolves(u, k)' /\ Resolves(v, k)' => u = v
    <3>1. CASE k = l BY <1>1, <1>9, <1>10, <1>11, <3>1
    <3>2. CASE k # l BY <1>9, <1>11, <2>1, <3>2 DEF AssetsInv, LinksTurn
    <3> QED BY <3>1, <3>2
  <2> QED BY <2>1 DEF LinksTurn
<1>13. started' \in 0 .. MaxStarted BY <1>0, <1>2 DEF AssetsTypeOK
<1> QED BY <1>1, <1>2, <1>4, <1>5, <1>6, <1>7, <1>8, <1>12, <1>13, LinkKeeps

LEMMA ExpireLinkKeeps ==
    ASSUME AssetsInv, NEW l \in Link, ExpireLink(l) PROVE AssetsInv'
<1>0. AssetsTypeOK BY DEF AssetsInv
<1> PICK r : r = [links[l] EXCEPT !.expired = TRUE] OBVIOUS
<1>1. /\ links[l] # None /\ links' = [links EXCEPT ![l].expired = TRUE]
      /\ UNCHANGED <<asset, hasFile, versions, grants, world, assetHistory, client, started>>
  BY DEF ExpireLink
<1>2. links' = [links EXCEPT ![l] = r] BY <1>1
<1>3. /\ asset # None /\ links[l] \in SignedAccessRecord /\ Justified
      /\ \/ links[l].by = Owner
         \/ \E v \in {"download", "manage"} : grants[links[l].by][v] # None
  BY <1>1, LinkThere
<1>4. /\ r \in SignedAccessRecord /\ r.by = links[l].by /\ r.uses = links[l].uses
      /\ r.used = links[l].used /\ r.overlapped = links[l].overlapped
  BY <1>3 DEF SignedAccessRecord
<1>5. links'[l] = r /\ \A k \in Link : k # l => links'[k] = links[k] BY <1>0, <1>2 DEF AssetsTypeOK
<1>6. \A u \in Client, k \in Link : Resolves(u, k)' => Resolves(u, k) BY <1>1 DEF Resolves
<1>7. \A k \in Link : links'[k] # None => /\ links[k] # None
                                          /\ links'[k].uses = links[k].uses
                                          /\ links'[k].used = links[k].used
                                          /\ links'[k].overlapped = links[k].overlapped
  BY <1>1, <1>4, <1>5
<1>8. LinksTurn' BY <1>6, <1>7 DEF AssetsInv, LinksTurn
<1>9. /\ client' \in [Client -> ClientState] /\ started' \in 0 .. MaxStarted
      /\ \A w \in Client : client'[w] = client[w]
  BY <1>0, <1>1 DEF AssetsTypeOK
<1>10. r.by = Owner \/ \E v \in {"download", "manage"} : grants[r.by][v] # None
  BY <1>3, <1>4
<1>11. UNCHANGED <<asset, hasFile, versions, grants, world, assetHistory>> BY <1>1
<1>12. r \in SignedAccessRecord /\ asset # None /\ Justified BY <1>3, <1>4
<1> QED BY <1>2, <1>8, <1>9, <1>10, <1>11, <1>12, LinkKeeps

LEMMA ReadLinkKeeps ==
    ASSUME AssetsInv, NEW w \in Client, NEW l \in Link, ReadLink(w, l) PROVE AssetsInv'
<1>0. AssetsTypeOK BY DEF AssetsInv
<1> PICK v : v = [op |-> "resolve", link |-> l] OBVIOUS
<1> PICK s : s = [links[l] EXCEPT !.overlapped = TRUE] OBVIOUS
<1> PICK r : r = IF \E u \in Client : Resolves(u, l) THEN s ELSE links[l] OBVIOUS
<1>1. v \in ClientState /\ v.op = "resolve" /\ v.link = l BY DEF ClientState
<1>2. /\ client[w] = Resting /\ links[l] # None /\ ~links[l].used
      /\ client' = [client EXCEPT ![w] = v]
      /\ UNCHANGED <<asset, hasFile, versions, grants, world, assetHistory>>
      /\ started' \in 0 .. MaxStarted
  BY <1>0, ContentAssumption DEF ReadLink, Continues, AssetsTypeOK
<1>3. \A u \in Client : client[u] = v <=> Resolves(u, l)
  BY <1>0, <1>1, ClientKinds DEF AssetsTypeOK, Resolves
<1>4. links' = IF \E u \in Client : Resolves(u, l) THEN [links EXCEPT ![l].overlapped = TRUE] ELSE links
  BY <1>3 DEF ReadLink
<1>5. links' = [links EXCEPT ![l] = r] BY <1>0, <1>4 DEF AssetsTypeOK
<1>6. /\ asset # None /\ links[l] \in SignedAccessRecord /\ Justified
      /\ \/ links[l].by = Owner
         \/ \E g \in {"download", "manage"} : grants[links[l].by][g] # None
  BY <1>2, LinkThere
<1>7. /\ s \in SignedAccessRecord /\ s.by = links[l].by /\ s.overlapped
  BY <1>6 DEF SignedAccessRecord
<1>8. /\ r \in SignedAccessRecord /\ r.by = links[l].by
      /\ ~r.overlapped => r = links[l] /\ \A u \in Client : ~Resolves(u, l)
  BY <1>6, <1>7
<1>9. links'[l] = r /\ \A k \in Link : k # l => links'[k] = links[k] BY <1>0, <1>5 DEF AssetsTypeOK
<1>10. /\ client' \in [Client -> ClientState] /\ client'[w] = v
       /\ \A u \in Client : u # w => client'[u] = client[u]
       /\ client[w].op # "complete"
  BY <1>0, <1>1, <1>2, RestingSound DEF AssetsTypeOK
<1>11. \A u \in Client, k \in Link : Resolves(u, k)' => Resolves(u, k) \/ (u = w /\ k = l)
  BY <1>1, <1>10 DEF Resolves
<1>12. LinksTurn'
  <2>1. ASSUME NEW k \in Link, links'[k] # None, ~links'[k].overlapped
        PROVE  /\ links'[k].uses <= 1 /\ (links'[k].uses = 1 => links'[k].used)
               /\ \A u \in Client : Resolves(u, k)' => links'[k].uses = 0
               /\ \A u, z \in Client : Resolves(u, k)' /\ Resolves(z, k)' => u = z
    <3>1. CASE k = l
      <4>1. r = links[l] /\ \A u \in Client : ~Resolves(u, l) BY <1>8, <1>9, <2>1, <3>1
      <4>2. links[l].uses <= 1 /\ (links[l].uses = 1 => links[l].used)
        BY <1>2, <1>9, <2>1, <3>1, <4>1 DEF AssetsInv, LinksTurn
      <4>3. links[l].uses \in Nat BY <1>6 DEF SignedAccessRecord
      <4> QED BY <1>2, <1>9, <1>11, <3>1, <4>1, <4>2, <4>3
    <3>2. CASE k # l BY <1>9, <1>11, <2>1, <3>2 DEF AssetsInv, LinksTurn
    <3> QED BY <3>1, <3>2
  <2> QED BY <2>1 DEF LinksTurn
<1>13. ClientSound(client[w])'
  <2>1. links'[l] # None BY <1>8, <1>9, NoneIsNoRow
  <2>2. v = client'[w] BY <1>10
  <2> QED BY <1>1, <2>1, <2>2 DEF ClientSound, CopyOp
<1> QED BY <1>2, <1>5, <1>6, <1>8, <1>10, <1>12, <1>13, LinkKeeps

LEMMA UsedFields ==
    ASSUME NEW r \in SignedAccessRecord
    PROVE  /\ UsedOnceMore(r) \in SignedAccessRecord /\ UsedOnceMore(r).by = r.by
           /\ UsedOnceMore(r).used /\ UsedOnceMore(r).uses = r.uses + 1
           /\ UsedOnceMore(r).overlapped = r.overlapped
<1> PICK a : a = [r EXCEPT !.used = TRUE] OBVIOUS
<1> PICK b : b = [a EXCEPT !.uses = r.uses + 1] OBVIOUS
<1>1. UsedOnceMore(r) = b BY Zenon DEF UsedOnceMore
<1>2. /\ a \in SignedAccessRecord /\ a.by = r.by /\ a.used = TRUE /\ a.overlapped = r.overlapped
  BY DEF SignedAccessRecord
<1>3. /\ b \in SignedAccessRecord /\ b.by = a.by /\ b.used = a.used
      /\ b.overlapped = a.overlapped /\ b.uses = r.uses + 1
  <2>1. r.uses + 1 \in Nat BY DEF SignedAccessRecord
  <2> QED BY <1>2, <2>1 DEF SignedAccessRecord
<1> QED BY <1>1, <1>2, <1>3

LEMMA UseLinkKeeps ==
    ASSUME AssetsInv, NEW w \in Client, UseLink(w) PROVE AssetsInv'
<1>0. AssetsTypeOK BY DEF AssetsInv
<1> PICK l : l = client[w].link OBVIOUS
<1> PICK r : r = UsedOnceMore(links[l]) OBVIOUS
<1>1. /\ client[w].op = "resolve" /\ links' = [links EXCEPT ![l] = r]
      /\ client' = [client EXCEPT ![w] = Resting]
      /\ UNCHANGED <<asset, hasFile, versions, grants, world, assetHistory, started>>
  BY DEF UseLink, Ends, Continues
<1>2. l \in Link /\ links[l] # None /\ Resolves(w, l)
  BY <1>0, <1>1, ClientKinds DEF AssetsInv, AssetsTypeOK, ClientSound, Resolves
<1>3. /\ asset # None /\ links[l] \in SignedAccessRecord /\ Justified
      /\ \/ links[l].by = Owner
         \/ \E g \in {"download", "manage"} : grants[links[l].by][g] # None
  BY <1>2, LinkThere
<1>4. /\ r \in SignedAccessRecord /\ r.by = links[l].by /\ r.used /\ r.uses = links[l].uses + 1
      /\ r.overlapped = links[l].overlapped
  BY <1>3, UsedFields
<1>5. links'[l] = r /\ \A k \in Link : k # l => links'[k] = links[k]
  BY <1>0, <1>1, <1>2 DEF AssetsTypeOK
<1>6. /\ client' \in [Client -> ClientState] /\ client'[w] = Resting
      /\ \A u \in Client : u # w => client'[u] = client[u]
      /\ client[w].op # "complete" /\ started' \in 0 .. MaxStarted
  BY <1>0, <1>1, RestingSound DEF AssetsTypeOK
<1>7. \A u \in Client, k \in Link : Resolves(u, k)' => Resolves(u, k) /\ u # w
  BY <1>6, RestingSound DEF Resolves
<1>8. LinksTurn'
  <2>1. ASSUME NEW k \in Link, links'[k] # None, ~links'[k].overlapped
        PROVE  /\ links'[k].uses <= 1 /\ (links'[k].uses = 1 => links'[k].used)
               /\ \A u \in Client : Resolves(u, k)' => links'[k].uses = 0
               /\ \A u, z \in Client : Resolves(u, k)' /\ Resolves(z, k)' => u = z
    <3>1. CASE k = l
      <4>1. /\ links[l].uses = 0 /\ \A u \in Client : Resolves(u, l) => u = w
        BY <1>2, <1>4, <1>5, <2>1, <3>1 DEF AssetsInv, LinksTurn
      <4> QED BY <1>4, <1>5, <1>7, <3>1, <4>1
    <3>2. CASE k # l BY <1>5, <1>7, <2>1, <3>2 DEF AssetsInv, LinksTurn
    <3> QED BY <3>1, <3>2
  <2> QED BY <2>1 DEF LinksTurn
<1>9. ClientSound(client[w])' BY <1>6 DEF ClientSound, Resting, CopyOp
<1>10. r.by = Owner \/ \E g \in {"download", "manage"} : grants[r.by][g] # None BY <1>3, <1>4
<1>11. UNCHANGED <<asset, hasFile, versions, grants, world, assetHistory>> BY <1>1
<1>12. r \in SignedAccessRecord /\ asset # None /\ Justified BY <1>3, <1>4
<1>13. \A u \in Client : (client'[u] = client[u] \/ client[u].op # "complete")
                        /\ (client'[u] = client[u] \/ ClientSound(client[u])')
  BY <1>6, <1>9
<1> QED BY <1>1, <1>2, <1>6, <1>8, <1>10, <1>11, <1>12, <1>13, LinkKeeps

-----------------------------------------------------------------------------
(* All of content-service *)

LEMMA AssetsKeep == ASSUME AssetsInv, AssetsNext PROVE AssetsInv'
<1>1. CASE CreateLinkAsset BY <1>1, CreateLinkAssetKeeps
<1>2. CASE CreatePresignedUpload BY <1>2, CreatePresignedUploadKeeps
<1>3. CASE \E p \in Profile, v \in ContentPermissionValue, validity \in {"valid", "expired"} :
             CreatePermission(p, v, validity)
  BY <1>3, CreatePermissionKeeps
<1>4. ASSUME NEW w \in Client, Creation(w) PROVE AssetsInv'
  BY <1>4, VerifyRegisteredKeeps, ScanRegisteredKeeps, CreateRegisteredKeeps, UploadObjectKeeps,
     RecordUploadKeeps DEF Creation
<1>5. ASSUME NEW w \in Client, Completion(w) PROVE AssetsInv'
  BY <1>5, BeginCompleteKeeps, VerifyCompleteKeeps, ScanCompleteKeeps, MarkCompleteKeeps,
     FirstVersionKeeps, NextNumberKeeps, InsertVersionKeeps DEF Completion
<1>6. ASSUME NEW w \in Client, NEW op \in CopyOp, Loads(w, op), UNCHANGED <<rows, world, assetHistory>>
      PROVE  AssetsInv'
  BY <1>6, LoadKeeps
<1>7. ASSUME NEW w \in Client, Lifecycle(w) PROVE AssetsInv'
  <2>1. ASSUME NEW op \in {"update", "publish", "delete"}, LoadAsset(w, op) PROVE AssetsInv'
    BY <1>6, <2>1 DEF LoadAsset, CopyOp
  <2> QED BY <1>7, <2>1, SaveUpdateKeeps, SavePublishedKeeps, SaveDeletedKeeps DEF Lifecycle
<1>8. ASSUME NEW w \in Client, Access(w) PROVE AssetsInv'
  <2>1. CASE LoadForLink(w) BY <1>6, <2>1 DEF LoadForLink, CopyOp
  <2> QED BY <1>8, <2>1, GrantSignedAccessKeeps, ReadLinkKeeps, UseLinkKeeps DEF Access
<1>9. CASE Environment
  BY <1>9, EnvironmentKeeps, ExpireLinkKeeps, ExpireGrantKeeps DEF Environment
<1> QED
  BY <1>1, <1>2, <1>3, <1>4, <1>5, <1>7, <1>8, <1>9, BeginVersionKeeps, StopKeeps DEF AssetsNext

LEMMA AssetsStutter == ASSUME AssetsInv, UNCHANGED assetVars PROVE AssetsInv'
<1>1. UNCHANGED <<asset, hasFile, versions, links, client, grants, stored, urlOpen, authorized,
                  started, seeded, verified, declared, putLate, cut>>
  BY DEF assetVars, rows, world, assetHistory
<1>2. /\ grants' \in [Profile -> ContentPermission] /\ stored' \in StoredObject
      /\ urlOpen' \in BOOLEAN /\ authorized' \in BOOLEAN /\ started' \in 0 .. MaxStarted
      /\ putLate' \in BOOLEAN
  BY <1>1 DEF AssetsInv, AssetsTypeOK
<1>3. StoreKeeps BY <1>1, NothingStored
<1> QED BY <1>1, <1>2, <1>3, RestKeeps

LEMMA AssetsSteps == ASSUME AssetsInv, [EdgeNext]_edgeVars PROVE AssetsInv'
<1>1. CASE AssetsNext BY <1>1, AssetsKeep
<1>2. CASE UNCHANGED assetVars BY <1>2, AssetsStutter
<1> QED BY <1>1, <1>2 DEF EdgeNext, edgeVars

LEMMA AssetsTellTheSame ==
    ASSUME AssetsInv
    PROVE  /\ AssetsTypeOK /\ CompleteVerified /\ VersionsInOrder /\ CompleteHasVersion
           /\ DeletionAgrees /\ LinkJustified /\ LinkUsedOnce
<1>1. AssetsTypeOK /\ VersionsInOrder /\ LinkJustified BY DEF AssetsInv
<1>2. CompleteVerified BY DEF AssetsInv, AssetSound, Whole, Good, Passed, CompleteVerified
<1>3. CompleteHasVersion BY DEF AssetsInv, AssetSound, Whole, Backed, CompleteHasVersion
<1>4. DeletionAgrees BY DEF AssetsInv, AssetSound, DeletionAgrees
<1>5. LinkUsedOnce
  <2>1. ASSUME NEW l \in Link, links[l] # None, links[l].uses > 1 PROVE links[l].overlapped
    <3>1. links[l].uses \in Nat BY <1>1, <2>1 DEF AssetsTypeOK, SignedAccessRecord
    <3> QED BY <2>1, <3>1 DEF AssetsInv, LinksTurn
  <2> QED BY <2>1 DEF LinkUsedOnce
<1> QED BY <1>1, <1>2, <1>3, <1>4, <1>5

\* The asset comes back, and a request is in progress that read it before it was deleted.
Restored == asset # None /\ asset.deleted /\ ~asset'.deleted
LoadedEarlier ==
    \E w \in Client : /\ client[w].op \in {"update", "publish"}
                      /\ ~client[w].copy.deleted

LEMMA RestoredSteps ==
    ASSUME AssetsInv, [EdgeNext]_edgeVars, Restored
    PROVE  LoadedEarlier
<1>0. asset # None /\ asset \in ContentAsset /\ asset' # asset BY DEF Restored, AssetsInv, AssetsTypeOK
<1>1. ASSUME NEW w \in Client, client[w].op \in {"update", "publish"} PROVE LoadedEarlier
  BY <1>1 DEF LoadedEarlier, AssetsInv, ClientSound, CopyOp
<1>2. ASSUME NEW w \in Client, SaveDeleted(w) PROVE FALSE
  <2>1. asset' = WithStatus(asset, "deleted", TRUE) BY <1>2, Zenon DEF SaveDeleted, WithStatus
  <2>2. "deleted" \in ContentAssetStatus BY DEF ContentAssetStatus
  <2> QED BY <1>0, <2>1, <2>2, StatusFields DEF Restored
<1>3. ASSUME NEW w \in Client, MarkComplete(w) PROVE FALSE
  BY <1>0, <1>3 DEF MarkComplete, Restored, ContentAsset
<1>4. ASSUME NEW w \in Client, SaveUpdate(w) \/ SavePublished(w) PROVE LoadedEarlier
  BY <1>1, <1>4 DEF SaveUpdate, SavePublished
<1>5. ASSUME AssetsNext PROVE LoadedEarlier
  <2>1. asset # None /\ asset' # asset BY <1>0
  <2>2. ASSUME NEW w \in Client, Creation(w) PROVE FALSE
    BY <2>1, <2>2 DEF Creation, VerifyRegistered, ScanRegistered, CreateRegistered, UploadObject,
                      RecordUpload, CreateRows, rows
  <2>3. ASSUME NEW w \in Client, Completion(w) PROVE MarkComplete(w)
    BY <2>1, <2>3 DEF Completion, BeginComplete, VerifyComplete, ScanComplete, FirstVersion,
                      NextNumber, InsertVersion, rows
  <2>4. ASSUME NEW w \in Client, Lifecycle(w)
        PROVE  SaveUpdate(w) \/ SavePublished(w) \/ SaveDeleted(w)
    BY <2>1, <2>4 DEF Lifecycle, LoadAsset, rows
  <2>5. ASSUME NEW w \in Client, Access(w) PROVE FALSE
    BY <2>1, <2>5 DEF Access, LoadForLink, GrantSignedAccess, ReadLink, UseLink, rows
  <2>6. ASSUME Environment PROVE FALSE
    BY <2>1, <2>6 DEF Environment, Reauthorize, ExpireUrl, Put, ExpireLink, ExpireGrant, rows
  <2>7. ASSUME NEW w \in Client, BeginVersion(w) \/ Stop(w) PROVE FALSE
    BY <2>1, <2>7 DEF BeginVersion, Stop, rows
  <2>8. ~CreateLinkAsset /\ ~CreatePresignedUpload BY <2>1 DEF CreateLinkAsset, CreatePresignedUpload
  <2>9. ASSUME NEW p \in Profile, NEW v \in ContentPermissionValue,
               NEW validity \in {"valid", "expired"}, CreatePermission(p, v, validity)
        PROVE  FALSE
    BY <2>1, <2>9 DEF CreatePermission
  <2> QED
    BY <1>2, <1>3, <1>4, <1>5, <2>2, <2>3, <2>4, <2>5, <2>6, <2>7, <2>8, <2>9 DEF AssetsNext
<1>6. ASSUME UNCHANGED assetVars PROVE FALSE BY <1>0, <1>6 DEF assetVars, rows
<1> QED BY <1>5, <1>6 DEF EdgeNext, edgeVars

\* In whatever order requests upload, complete, publish, delete and link, a complete asset
\* was verified and has its versions in order, a deletion is undone only by a request that
\* overlapped it, and a link is justified and used once: content-service.
THEOREM AssetsSound == EdgeSpec => AssetsAgree
<1>1. EdgeInit => AssetsInv BY AssetsBegin DEF EdgeInit
<1>2. AssetsInv /\ [EdgeNext]_edgeVars => AssetsInv' BY AssetsSteps
<1>3. AssetsInv => /\ AssetsTypeOK /\ CompleteVerified /\ VersionsInOrder /\ CompleteHasVersion
                   /\ DeletionAgrees /\ LinkJustified /\ LinkUsedOnce
  BY AssetsTellTheSame
<1>4. AssetsInv /\ [EdgeNext]_edgeVars => [Restored => LoadedEarlier]_assetVars BY RestoredSteps
<1>5. DeletedStays <=> [][Restored => LoadedEarlier]_assetVars
  BY PTL DEF DeletedStays, Restored, LoadedEarlier
<1> QED BY <1>1, <1>2, <1>3, <1>4, <1>5, PTL DEF EdgeSpec, AssetsAgree

=============================================================================
