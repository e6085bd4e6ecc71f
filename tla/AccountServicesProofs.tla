------------------------ MODULE AccountServicesProofs ------------------------
(***************************************************************************)
(* Proofs about AccountServices, for any accounts, roles, secrets, users   *)
(* and requests and any bounds: that recovery and external login let       *)
(* nobody in twice, too often or as somebody else, that secrets implement  *)
(* OneTimeSecret, that cached permissions are those of the database, and   *)
(* that auth-service and user-service agree on accounts.                   *)
(***************************************************************************)
EXTENDS AccountServices, TLAPS

-----------------------------------------------------------------------------
(* The invariant of the secrets *)

Limiting == [op : {"limit"}, window : Window, step : {"incr", "expire"},
             secret : Secret \cup {Nobody}]
Requesting == [op : {"request"}, step : {"setex", "commit"}, secret : Secret, account : User]
Confirming == [op : {"confirm"}, step : {"key", "expire", "lock", "delete"}, secret : Secret]
CallingBack == [op : {"callback"}, step : {"pop", "exchange", "validate", "lookup"},
                secret : Secret]
Linking == [op : {"link"}, account : User, found : BOOLEAN]

Variables ==
    /\ kind \in [Secret -> Kind]
    /\ row \in [Secret -> PasswordResetToken \cup {Nobody}]
    /\ key \subseteq Secret /\ late \subseteq Secret
    /\ mail \in User \cup {Nobody} /\ active \subseteq User
    /\ identity \in ExternalIdentity
    /\ count \in [Window -> Nat] /\ ttl \in [Window -> BOOLEAN]
    /\ asker \in [Asker -> AskerState]
    /\ asked \in 0 .. MaxAsked
    /\ issued \subseteq Secret /\ uses \in [Secret -> Nat]
    /\ admitted \in [Window -> Nat] /\ cut \subseteq Window /\ contested \in BOOLEAN

\* Requests work on secrets of their kind, and a confirmation on a token that has its row.
Fits(m) ==
    /\ m \in AskerState
    /\ m.op = "confirm" => row[m.secret] # Nobody
    /\ m.op = "limit" /\ m.window = "password-reset" => m.secret \in Secret
    /\ m.op = "limit" /\ m.secret \in Secret => kind[m.secret] = "reset"
    /\ m.op = "request" => kind[m.secret] = "reset"
    /\ m.op = "callback" => kind[m.secret] = "oidc" /\ m.secret \in issued

Askers == \A w \in Asker : Fits(asker[w])

\* A reset token is made known with its row, and a secret that was used is not to be had
\* any more.
Secrets ==
    /\ \A s \in Secret :
          /\ row[s] # Nobody <=> kind[s] = "reset" /\ s \in issued
          /\ uses[s] > 0 => s \in issued /\ ~Pending(s)
          /\ kind[s] = "oidc" /\ s \in key => s \in issued /\ uses[s] = 0
          /\ kind[s] = "reset" => uses[s] <= 1
    /\ late \subseteq issued

AtExpire(w, window) == Doing(w, "limit", "expire") /\ asker[w].window = window

\* A window counts the requests it admits, and the one that has the expiry to set.
Counters ==
    /\ \A window \in Window :
          /\ admitted[window] <= count[window] /\ admitted[window] <= Limit
          /\ ttl[window] => count[window] > 0
    /\ \A w \in Asker, window \in Window : AtExpire(w, window) =>
          /\ count[window] > 0 /\ ~ttl[window]
          /\ admitted[window] < count[window] /\ admitted[window] < Limit
    /\ \A v, w \in Asker, window \in Window : AtExpire(v, window) /\ AtExpire(w, window) => v = w
    /\ CounterExpires

\* A callback that found the account of the identity is to link the same one.
Links ==
    \A w \in Asker : asker[w].op = "link" /\ asker[w].found =>
        contested \/ identity = asker[w].account

SecretsInv == Variables /\ Askers /\ Secrets /\ Counters /\ Links

-----------------------------------------------------------------------------
(* What requests are doing *)

\* The fields of a request follow from what it does.
LEMMA AskerFields ==
    ASSUME NEW m \in AskerState
    PROVE  /\ m.op \in {"resting", "limit", "request", "confirm", "callback", "link"}
           /\ m.op = "resting" <=> m = AtRest
           /\ m.op = "limit" => m \in Limiting
           /\ m.op = "request" => m \in Requesting
           /\ m.op = "confirm" => m \in Confirming
           /\ m.op = "callback" => m \in CallingBack
           /\ m.op = "link" => m \in Linking
BY DEF AskerState, AtRest, Limiting, Requesting, Confirming, CallingBack, Linking

LEMMA AskerTypes ==
    /\ AtRest \in AskerState
    /\ Limiting \subseteq AskerState /\ Requesting \subseteq AskerState
    /\ Confirming \subseteq AskerState /\ CallingBack \subseteq AskerState
    /\ Linking \subseteq AskerState
BY DEF AskerState, Limiting, Requesting, Confirming, CallingBack, Linking

\* A request goes on to its next step and keeps the rest.
LEMMA Turned ==
    ASSUME asker \in [Asker -> AskerState], NEW w \in Asker, NEW step, Turns(w, step)
    PROVE  \E m : /\ asker' = [asker EXCEPT ![w] = m] /\ m.op = asker[w].op
                  /\ asker[w].op = "limit" /\ step \in {"incr", "expire"} =>
                        /\ m \in Limiting /\ m.step = step
                        /\ m.window = asker[w].window /\ m.secret = asker[w].secret
                  /\ asker[w].op = "request" /\ step \in {"setex", "commit"} =>
                        /\ m \in Requesting /\ m.step = step
                        /\ m.secret = asker[w].secret /\ m.account = asker[w].account
                  /\ asker[w].op = "confirm" /\ step \in {"key", "expire", "lock", "delete"} =>
                        m \in Confirming /\ m.step = step /\ m.secret = asker[w].secret
                  /\ asker[w].op = "callback"
                     /\ step \in {"pop", "exchange", "validate", "lookup"} =>
                        m \in CallingBack /\ m.step = step /\ m.secret = asker[w].secret
<1> DEFINE r == asker[w]
           m == [r EXCEPT !.step = step]
<1>1. r \in AskerState OBVIOUS
<1>2. asker' = [asker EXCEPT ![w] = m] BY DEF Turns
<1>3. m.op = r.op BY <1>1 DEF AskerState, AtRest
<1>4. ASSUME r.op = "limit", step \in {"incr", "expire"}
      PROVE  m \in Limiting /\ m.step = step /\ m.window = r.window /\ m.secret = r.secret
  <2>1. r \in Limiting BY <1>1, <1>4, AskerFields
  <2> HIDE DEF r
  <2> QED BY <1>4, <2>1 DEF Limiting
<1>5. ASSUME r.op = "request", step \in {"setex", "commit"}
      PROVE  m \in Requesting /\ m.step = step /\ m.secret = r.secret /\ m.account = r.account
  <2>1. r \in Requesting BY <1>1, <1>5, AskerFields
  <2> HIDE DEF r
  <2> QED BY <1>5, <2>1 DEF Requesting
<1>6. ASSUME r.op = "confirm", step \in {"key", "expire", "lock", "delete"}
      PROVE  m \in Confirming /\ m.step = step /\ m.secret = r.secret
  <2>1. r \in Confirming BY <1>1, <1>6, AskerFields
  <2> HIDE DEF r
  <2> QED BY <1>6, <2>1 DEF Confirming
<1>7. ASSUME r.op = "callback", step \in {"pop", "exchange", "validate", "lookup"}
      PROVE  m \in CallingBack /\ m.step = step /\ m.secret = r.secret
  <2>1. r \in CallingBack BY <1>1, <1>7, AskerFields
  <2> HIDE DEF r
  <2> QED BY <1>7, <2>1 DEF CallingBack
<1> HIDE DEF m
<1> QED BY <1>2, <1>3, <1>4, <1>5, <1>6, <1>7

\* One request moves on; the others keep what fits.
LEMMA OneMoves ==
    ASSUME SecretsInv, NEW w \in Asker, NEW m, asker' = [asker EXCEPT ![w] = m], Fits(m),
           kind' = kind, issued \subseteq issued',
           \A s \in Secret : row[s] # Nobody => row'[s] # Nobody
    PROVE  asker' \in [Asker -> AskerState] /\ Askers'
<1>1. asker' \in [Asker -> AskerState] BY DEF SecretsInv, Variables, Fits
<1>2. \A v \in Asker : asker'[v] = IF v = w THEN m ELSE asker[v]
  BY DEF SecretsInv, Variables
<1>3. ASSUME NEW r \in AskerState, r.op = "confirm" PROVE r.secret \in Secret
  <2>1. r \in Confirming BY <1>3, AskerFields
  <2> QED BY <2>1 DEF Confirming
<1>4. ASSUME NEW v \in Asker PROVE Fits(asker'[v]) /\ Fits(asker[v])
  BY <1>2 DEF SecretsInv, Askers
<1>5. ASSUME NEW v \in Asker PROVE Fits(asker[v])'
  <2> DEFINE r == asker'[v]
  <2>1. Fits(r) BY <1>4
  <2> HIDE DEF r
  <2>2. r.op = "confirm" => row'[r.secret] # Nobody BY <1>3, <2>1 DEF Fits
  <2>3. r = asker[v]' BY DEF r
  <2> QED BY <2>1, <2>2, <2>3 DEF Fits
<1> QED BY <1>1, <1>5 DEF Askers

\* Steps of other requests than those at the expiry of a counter.
LEMMA CountersKept ==
    ASSUME SecretsInv, NEW w \in Asker, NEW m, asker' = [asker EXCEPT ![w] = m],
           UNCHANGED <<count, ttl, admitted, cut>>,
           ~(m.op = "limit" /\ m.step = "expire"), ~Doing(w, "limit", "expire")
    PROVE  Counters'
<1>1. \A v \in Asker : asker'[v] = IF v = w THEN m ELSE asker[v]
  BY DEF SecretsInv, Variables
<1>2. \A v \in Asker, window \in Window : AtExpire(v, window)' <=> AtExpire(v, window)
  BY <1>1 DEF AtExpire, Doing
<1>3. CounterExpires'
  <2>1. CounterExpires BY DEF SecretsInv, Counters
  <2> QED BY <1>2, <2>1 DEF CounterExpires, AtExpire
<1> QED BY <1>2, <1>3 DEF SecretsInv, Counters

LEMMA LinksKept ==
    ASSUME SecretsInv, NEW w \in Asker, NEW m, asker' = [asker EXCEPT ![w] = m],
           UNCHANGED <<identity, contested>>, m.op # "link"
    PROVE  Links'
BY DEF SecretsInv, Variables, Links

\* Steps that write nothing but what the request remembers.
LEMMA QuietMove ==
    ASSUME SecretsInv, NEW w \in Asker, NEW m, asker' = [asker EXCEPT ![w] = m], Fits(m),
           UNCHANGED <<kind, redis, tables, history, late>>, asked' \in 0 .. MaxAsked,
           ~(m.op = "limit" /\ m.step = "expire"), ~Doing(w, "limit", "expire"),
           m.op # "link"
    PROVE  SecretsInv'
<1>1. asker' \in [Asker -> AskerState] /\ Askers' BY OneMoves DEF tables, history
<1>2. Counters' /\ Links' BY CountersKept, LinksKept DEF redis, tables, history
<1>3. Secrets' BY DEF SecretsInv, Secrets, Pending, redis, tables, history
<1>4. Variables' BY <1>1 DEF SecretsInv, Variables, redis, tables, history
<1> QED BY <1>1, <1>2, <1>3, <1>4 DEF SecretsInv

LEMMA BeginSteps ==
    ASSUME SecretsInv, NEW w \in Asker,
           BeginLogin(w) \/ \E s \in Secret : BeginReset(w, s) \/ ReadReset(w, s) \/ GetState(w, s)
    PROVE  SecretsInv'
<1> USE SecretsAssumption
<1>1. ASSUME NEW m, Begins(w, m), Fits(m), m.op # "link", ~(m.op = "limit" /\ m.step = "expire"),
             UNCHANGED <<kind, redis, tables, history, late>>
      PROVE  SecretsInv'
  <2>1. asked' \in 0 .. MaxAsked BY <1>1 DEF Begins, SecretsInv, Variables
  <2>2. ~Doing(w, "limit", "expire") BY <1>1 DEF Begins, AtRest, Doing
  <2> QED BY <1>1, <2>1, <2>2, QuietMove DEF Begins, Continues
<1>2. CASE BeginLogin(w)
  <2> DEFINE m == [op |-> "limit", window |-> "login", step |-> "incr", secret |-> Nobody]
  <2>1. m \in AskerState BY AskerTypes DEF Limiting, Window
  <2>2. Fits(m) BY <2>1 DEF Fits
  <2> QED BY <1>1, <1>2, <2>2 DEF BeginLogin
<1>3. ASSUME NEW s \in Secret, BeginReset(w, s) PROVE SecretsInv'
  <2> DEFINE m == [op |-> "limit", window |-> "password-reset", step |-> "incr", secret |-> s]
  <2>1. m \in AskerState BY AskerTypes DEF Limiting, Window
  <2>2. Fits(m) BY <1>3, <2>1 DEF Fits, BeginReset
  <2> QED BY <1>1, <1>3, <2>2 DEF BeginReset
<1>4. ASSUME NEW s \in Secret, ReadReset(w, s) PROVE SecretsInv'
  <2> DEFINE step == IF s \in late THEN "expire" ELSE "key"
             m == [op |-> "confirm", step |-> step, secret |-> s]
  <2>1. m \in AskerState BY AskerTypes DEF Confirming
  <2>2. Fits(m) BY <1>4, <2>1 DEF Fits, ReadReset, Pending
  <2> QED BY <1>1, <1>4, <2>2 DEF ReadReset
<1>5. ASSUME NEW s \in Secret, GetState(w, s) PROVE SecretsInv'
  <2> DEFINE m == [op |-> "callback", step |-> "pop", secret |-> s]
  <2>1. m \in AskerState BY AskerTypes DEF CallingBack
  <2>2. s \in issued BY <1>5 DEF GetState, SecretsInv, Secrets
  <2>3. Fits(m) BY <1>5, <2>1, <2>2 DEF Fits, GetState
  <2> QED BY <1>1, <1>5, <2>3 DEF GetState
<1> QED BY <1>2, <1>3, <1>4, <1>5

\* Steps that leave the counters and the identity alone.
LEMMA OtherMove ==
    ASSUME SecretsInv, NEW w \in Asker, NEW m, asker' = [asker EXCEPT ![w] = m], Fits(m),
           issued \subseteq issued', \A s \in Secret : row[s] # Nobody => row'[s] # Nobody,
           UNCHANGED <<kind, count, ttl, admitted, cut, identity, contested>>,
           ~(m.op = "limit" /\ m.step = "expire"), ~Doing(w, "limit", "expire"),
           m.op # "link"
    PROVE  asker' \in [Asker -> AskerState] /\ Askers' /\ Counters' /\ Links'
<1>1. asker' \in [Asker -> AskerState] /\ Askers' BY OneMoves
<1>2. Counters' /\ Links' BY CountersKept, LinksKept
<1> QED BY <1>1, <1>2

LEMMA RestFits == Fits(AtRest) /\ AtRest.op = "resting"
BY AskerTypes DEF Fits, AtRest

\* What a request for a reset, a confirmation and a callback work on.
LEMMA Working ==
    ASSUME SecretsInv, NEW w \in Asker
    PROVE  /\ asker[w] \in AskerState
           /\ asker[w].op = "request" =>
                 /\ asker[w].secret \in Secret /\ kind[asker[w].secret] = "reset"
                 /\ asker[w].account \in User
           /\ asker[w].op = "confirm" =>
                 /\ asker[w].secret \in Secret /\ row[asker[w].secret] # Nobody
                 /\ row[asker[w].secret] \in PasswordResetToken
                 /\ kind[asker[w].secret] = "reset" /\ asker[w].secret \in issued
           /\ asker[w].op = "callback" =>
                 /\ asker[w].secret \in Secret /\ kind[asker[w].secret] = "oidc"
                 /\ asker[w].secret \in issued
           /\ asker[w].op = "link" => asker[w].account \in User /\ asker[w].found \in BOOLEAN
           /\ asker[w].op = "limit" => asker[w].window \in Window
           /\ asker[w].op = "limit" /\ asker[w].window = "password-reset" =>
                 asker[w].secret \in Secret /\ kind[asker[w].secret] = "reset"
<1> DEFINE r == asker[w]
<1>1. r \in AskerState /\ Fits(r) BY DEF SecretsInv, Variables, Askers
<1>2. \A s \in Secret : row[s] # Nobody =>
          row[s] \in PasswordResetToken /\ kind[s] = "reset" /\ s \in issued
  BY DEF SecretsInv, Variables, Secrets
<1> HIDE DEF r
<1>3. r.op = "request" => r.secret \in Secret /\ kind[r.secret] = "reset" /\ r.account \in User
  BY <1>1, AskerFields DEF Fits, Requesting
<1>4. r.op = "confirm" => r.secret \in Secret /\ row[r.secret] # Nobody
  BY <1>1, AskerFields DEF Fits, Confirming
<1>5. r.op = "callback" =>
          r.secret \in Secret /\ kind[r.secret] = "oidc" /\ r.secret \in issued
  BY <1>1, AskerFields DEF Fits, CallingBack
<1>6. r.op = "link" => r.account \in User /\ r.found \in BOOLEAN
  BY <1>1, AskerFields DEF Linking
<1>7. r.op = "limit" => r.window \in Window
  BY <1>1, AskerFields DEF Limiting
<1>8. r.op = "limit" /\ r.window = "password-reset" =>
          r.secret \in Secret /\ kind[r.secret] = "reset"
  BY <1>1 DEF Fits
<1>9. r = asker[w] BY DEF r
<1> QED BY <1>1, <1>2, <1>3, <1>4, <1>5, <1>6, <1>7, <1>8, <1>9

-----------------------------------------------------------------------------
(* The rate limit *)

\* What a request does after it was counted.
LEMMA AfterLimit ==
    ASSUME SecretsInv, NEW w \in Asker, asker[w].op = "limit", NEW n, Limited(w, n)
    PROVE  \E m : /\ asker' = [asker EXCEPT ![w] = m] /\ Fits(m)
                  /\ m.op \in {"resting", "request"}
<1>1. CASE Admits(n) /\ asker[w].window = "password-reset" /\ mail \in active
  <2> DEFINE m == [op |-> "request", step |-> "setex",
                   secret |-> asker[w].secret, account |-> mail]
  <2>1. asker[w].secret \in Secret /\ kind[asker[w].secret] = "reset" /\ mail \in User
    BY <1>1, Working DEF SecretsInv, Variables
  <2>2. m \in AskerState BY <2>1, AskerTypes DEF Requesting
  <2>3. Fits(m) BY <2>1, <2>2 DEF Fits
  <2> QED BY <1>1, <2>3 DEF Limited, Continues
<1>2. CASE ~(Admits(n) /\ asker[w].window = "password-reset" /\ mail \in active)
  BY <1>2, RestFits DEF Limited, Leaves, Continues
<1> QED BY <1>1, <1>2

LEMMA IncrStep ==
    ASSUME SecretsInv, NEW w \in Asker, Incr(w)
    PROVE  SecretsInv'
<1> USE SecretsAssumption
<1> DEFINE window == asker[w].window
           n == count[window] + 1
<1>1. window \in Window /\ asker[w].op = "limit" /\ ~Doing(w, "limit", "expire")
  BY Working DEF Incr, Doing
<1>2. /\ count \in [Window -> Nat] /\ admitted \in [Window -> Nat]
      /\ count' = [count EXCEPT ![window] = n]
      /\ UNCHANGED <<kind, key, ttl, tables, issued, uses, cut, contested, late, asked>>
  BY DEF Incr, SecretsInv, Variables
<1>3. PICK m : /\ asker' = [asker EXCEPT ![w] = m] /\ Fits(m)
               /\ m.op # "link"
               /\ IF n = 1
                  THEN /\ m.op = "limit" /\ m.step = "expire" /\ m.window = window
                       /\ admitted' = admitted
                  ELSE /\ ~(m.op = "limit" /\ m.step = "expire")
                       /\ admitted' = IF n <= Limit
                                      THEN [admitted EXCEPT ![window] = @ + 1] ELSE admitted
  <2>1. CASE n = 1
    <3>1. Turns(w, "expire") /\ admitted' = admitted BY <2>1 DEF Incr, First
    <3>2. PICK m : /\ asker' = [asker EXCEPT ![w] = m] /\ m.op = "limit"
                   /\ m \in Limiting /\ m.step = "expire"
                   /\ m.window = window /\ m.secret = asker[w].secret
      BY <1>1, <3>1, Turned DEF SecretsInv, Variables
    <3>3. Fits(m)
      <4>1. Fits(asker[w]) BY DEF SecretsInv, Askers
      <4> QED BY <1>1, <3>2, <4>1, AskerTypes DEF Fits
    <3> QED BY <2>1, <3>1, <3>2, <3>3
  <2>2. CASE n # 1
    <3>1. Limited(w, n) BY <2>2 DEF Incr, First
    <3>2. PICK m : /\ asker' = [asker EXCEPT ![w] = m] /\ Fits(m)
                   /\ m.op \in {"resting", "request"}
      BY <1>1, <3>1, AfterLimit
    <3> QED BY <2>2, <3>1, <3>2 DEF Limited, Admits
  <2> QED BY <2>1, <2>2
<1>4. asker' \in [Asker -> AskerState] /\ Askers' BY <1>2, <1>3, OneMoves DEF tables
<1>5. Links' BY <1>2, <1>3, LinksKept DEF tables
<1>6. Secrets' BY <1>2 DEF SecretsInv, Secrets, Pending, tables
<1>7. Variables' BY <1>1, <1>2, <1>3, <1>4 DEF SecretsInv, Variables, tables
<1>8. \A v \in Asker : asker'[v] = IF v = w THEN m ELSE asker[v]
  BY <1>3 DEF SecretsInv, Variables
<1>9. \A v \in Asker, i \in Window : AtExpire(v, i)' <=>
          IF v = w THEN n = 1 /\ i = window ELSE AtExpire(v, i)
  BY <1>3, <1>8 DEF AtExpire, Doing
<1>10. ~AtExpire(w, window) BY <1>1 DEF AtExpire
<1>11. n \in Nat /\ n = count[window] + 1 /\ Limit \in Nat \ {0} BY <1>1, <1>2
<1> HIDE DEF window, n
<1>12. \A i \in Window :
          /\ admitted'[i] <= count'[i] /\ admitted'[i] <= Limit
          /\ ttl'[i] => count'[i] > 0
  BY <1>1, <1>2, <1>3, <1>11 DEF SecretsInv, Counters
<1>13. \A v \in Asker, i \in Window : AtExpire(v, i) => count[i] > 0
  BY DEF SecretsInv, Counters
<1>14. n = 1 => ~ttl[window] /\ admitted[window] = 0
  BY <1>1, <1>2, <1>11 DEF SecretsInv, Counters
<1>15. \A v \in Asker, i \in Window : AtExpire(v, i)' =>
          /\ count'[i] > 0 /\ ~ttl'[i]
          /\ admitted'[i] < count'[i] /\ admitted'[i] < Limit
  <2> SUFFICES ASSUME NEW v \in Asker, NEW i \in Window, AtExpire(v, i)'
               PROVE  /\ count'[i] > 0 /\ ~ttl'[i]
                      /\ admitted'[i] < count'[i] /\ admitted'[i] < Limit
    OBVIOUS
  <2>1. CASE v = w BY <1>1, <1>2, <1>3, <1>9, <1>11, <1>14, <2>1
  <2>2. CASE v # w
    <3>1. AtExpire(v, i) BY <1>9, <2>2
    <3>2. count[i] > 0 /\ ~ttl[i] /\ admitted[i] < count[i] /\ admitted[i] < Limit
      BY <3>1 DEF SecretsInv, Counters
    <3>3. CASE i = window
      <4>1. n # 1 BY <1>1, <1>2, <1>11, <3>2, <3>3
      <4> QED BY <1>1, <1>2, <1>3, <1>11, <3>2, <3>3, <4>1
    <3>4. CASE i # window BY <1>1, <1>2, <1>3, <3>2, <3>4
    <3> QED BY <3>3, <3>4
  <2> QED BY <2>1, <2>2
<1>16. \A u, v \in Asker, i \in Window : AtExpire(u, i)' /\ AtExpire(v, i)' => u = v
  <2> SUFFICES ASSUME NEW u \in Asker, NEW v \in Asker, NEW i \in Window,
                      AtExpire(u, i)', AtExpire(v, i)', u # v
               PROVE  FALSE
    OBVIOUS
  <2>1. CASE u # w /\ v # w BY <1>9, <2>1 DEF SecretsInv, Counters
  <2>2. CASE u = w \/ v = w
    <3>1. n = 1 /\ i = window /\ (AtExpire(u, i) \/ AtExpire(v, i)) BY <1>9, <2>2
    <3> QED BY <1>1, <1>2, <1>11, <1>13, <3>1
  <2> QED BY <2>1, <2>2
<1>17. CounterExpires'
  <2> SUFFICES ASSUME NEW i \in Window, count'[i] > 0, ~ttl'[i]
               PROVE  i \in cut' \/ \E v \in Asker : AtExpire(v, i)'
    BY DEF CounterExpires, AtExpire
  <2>1. CASE n = 1 /\ i = window BY <1>9, <2>1
  <2>2. CASE ~(n = 1 /\ i = window)
    <3>1. count[i] > 0 BY <1>1, <1>2, <1>11, <2>2
    <3>2. i \in cut \/ \E v \in Asker : AtExpire(v, i)
      BY <1>2, <3>1 DEF SecretsInv, Counters, CounterExpires, AtExpire
    <3>3. ASSUME NEW v \in Asker, AtExpire(v, i) PROVE v # w
      BY <1>1, <3>3 DEF AtExpire
    <3> QED BY <1>2, <1>9, <3>2, <3>3
  <2> QED BY <2>1, <2>2
<1>18. Counters' BY <1>12, <1>15, <1>16, <1>17 DEF Counters
<1> QED BY <1>4, <1>5, <1>6, <1>7, <1>18 DEF SecretsInv

LEMMA SetExpiryStep ==
    ASSUME SecretsInv, NEW w \in Asker, SetExpiry(w)
    PROVE  SecretsInv'
<1> USE SecretsAssumption
<1> DEFINE window == asker[w].window
<1>1. window \in Window /\ asker[w].op = "limit" /\ AtExpire(w, window)
  BY Working DEF SetExpiry, Doing, AtExpire
<1>2. /\ count \in [Window -> Nat] /\ admitted \in [Window -> Nat] /\ ttl \in [Window -> BOOLEAN]
      /\ ttl' = [ttl EXCEPT ![window] = TRUE]
      /\ UNCHANGED <<kind, key, count, tables, issued, uses, cut, contested, late, asked>>
      /\ admitted' = [admitted EXCEPT ![window] = @ + 1]
  BY DEF SetExpiry, Limited, Admits, SecretsInv, Variables
<1>3. PICK m : /\ asker' = [asker EXCEPT ![w] = m] /\ Fits(m)
               /\ m.op \in {"resting", "request"}
  BY <1>1, AfterLimit DEF SetExpiry
<1>4. asker' \in [Asker -> AskerState] /\ Askers' BY <1>2, <1>3, OneMoves DEF tables
<1>5. Links' BY <1>2, <1>3, LinksKept DEF tables
<1>6. Secrets' BY <1>2 DEF SecretsInv, Secrets, Pending, tables
<1>7. Variables' BY <1>1, <1>2, <1>4 DEF SecretsInv, Variables, tables
<1>8. \A v \in Asker : asker'[v] = IF v = w THEN m ELSE asker[v]
  BY <1>3 DEF SecretsInv, Variables
<1>9. \A v \in Asker, i \in Window : AtExpire(v, i)' <=> AtExpire(v, i) /\ v # w
  BY <1>3, <1>8 DEF AtExpire, Doing
<1>10. \A v \in Asker, i \in Window : AtExpire(v, i)' => i # window
  BY <1>1, <1>9 DEF SecretsInv, Counters
<1> HIDE DEF window
<1>11. \A i \in Window :
          /\ admitted'[i] <= count'[i] /\ admitted'[i] <= Limit
          /\ ttl'[i] => count'[i] > 0
  <2>1. /\ count[window] > 0 /\ admitted[window] < count[window]
        /\ admitted[window] < Limit
    BY <1>1 DEF SecretsInv, Counters
  <2> QED BY <1>1, <1>2, <2>1 DEF SecretsInv, Counters
<1>12. \A v \in Asker, i \in Window : AtExpire(v, i)' =>
          /\ count'[i] > 0 /\ ~ttl'[i]
          /\ admitted'[i] < count'[i] /\ admitted'[i] < Limit
  BY <1>1, <1>2, <1>9, <1>10 DEF SecretsInv, Counters
<1>13. \A u, v \in Asker, i \in Window : AtExpire(u, i)' /\ AtExpire(v, i)' => u = v
  BY <1>9 DEF SecretsInv, Counters
<1>14. CounterExpires'
  <2> SUFFICES ASSUME NEW i \in Window, count'[i] > 0, ~ttl'[i]
               PROVE  i \in cut' \/ \E v \in Asker : AtExpire(v, i)'
    BY DEF CounterExpires, AtExpire
  <2>1. i # window BY <1>1, <1>2
  <2>2. i \in cut \/ \E v \in Asker : AtExpire(v, i)
    BY <1>1, <1>2, <2>1 DEF SecretsInv, Counters, CounterExpires, AtExpire
  <2>3. ~AtExpire(w, i) BY <1>1, <2>1 DEF AtExpire
  <2> QED BY <1>2, <1>9, <2>2, <2>3
<1>15. Counters' BY <1>11, <1>12, <1>13, <1>14 DEF Counters
<1> QED BY <1>4, <1>5, <1>6, <1>7, <1>15 DEF SecretsInv

LEMMA WindowEndsStep ==
    ASSUME SecretsInv, NEW window \in Window, WindowEnds(window)
    PROVE  SecretsInv'
<1> USE SecretsAssumption DEF WindowEnds
<1>1. Variables' BY DEF SecretsInv, Variables, tables
<1>2. Askers' BY DEF SecretsInv, Askers, Fits, tables
<1>3. Secrets' BY DEF SecretsInv, Secrets, Pending, tables
<1>4. Links' BY DEF SecretsInv, Links, tables
<1>5. \A v \in Asker, i \in Window :
          /\ AtExpire(v, i)' <=> AtExpire(v, i)
          /\ AtExpire(v, i) => i # window
  BY DEF SecretsInv, Counters, AtExpire, Doing
<1>6. \A i \in Window : i # window =>
          admitted'[i] = admitted[i] /\ count'[i] = count[i] /\ ttl'[i] = ttl[i]
  BY DEF SecretsInv, Variables
<1>7. admitted'[window] = 0 /\ count'[window] = 0 /\ ttl'[window] = FALSE
  BY DEF SecretsInv, Variables
<1>8. CounterExpires'
  <2> SUFFICES ASSUME NEW i \in Window, count'[i] > 0, ~ttl'[i]
               PROVE  i \in cut' \/ \E v \in Asker : AtExpire(v, i)'
    BY DEF CounterExpires, AtExpire
  <2> QED BY <1>5, <1>6, <1>7 DEF SecretsInv, Counters, CounterExpires, AtExpire
<1>9. Counters' BY <1>5, <1>6, <1>7, <1>8 DEF SecretsInv, Counters
<1> QED BY <1>1, <1>2, <1>3, <1>4, <1>9 DEF SecretsInv

-----------------------------------------------------------------------------
(* Resets *)

LEMMA ResetSteps ==
    ASSUME SecretsInv, NEW w \in Asker, ResetStep(w)
    PROVE  SecretsInv'
<1> USE SecretsAssumption
<1> DEFINE s == asker[w].secret
<1>1. ~Doing(w, "limit", "expire")
  BY DEF ResetStep, SetResetKey, CommitReset, CheckKey, MarkExpired, LockReset,
         DeleteResetKey, Doing
<1>2. /\ kind \in [Secret -> Kind] /\ uses \in [Secret -> Nat]
      /\ row \in [Secret -> PasswordResetToken \cup {Nobody}]
      /\ asker \in [Asker -> AskerState]
  BY DEF SecretsInv, Variables
<1>3. CASE SetResetKey(w)
  <2>1. s \in Secret /\ kind[s] = "reset" /\ asker[w].op = "request"
    BY <1>3, Working DEF SetResetKey, Doing
  <2>2. PICK m : asker' = [asker EXCEPT ![w] = m] /\ m.op = "request" /\ m \in Requesting
                 /\ m.secret = s
    BY <1>2, <1>3, <2>1, Turned DEF SetResetKey
  <2>3. Fits(m) BY <2>1, <2>2, AskerTypes DEF Fits
  <2>4. asker' \in [Asker -> AskerState] /\ Askers' /\ Counters' /\ Links'
    BY <1>1, <1>3, <2>2, <2>3, OtherMove DEF SetResetKey, tables, history
  <2>5. Secrets' BY <1>3, <2>1 DEF SetResetKey, SecretsInv, Secrets, Pending, tables, history
  <2>6. Variables'
    BY <1>3, <2>1, <2>4 DEF SetResetKey, SecretsInv, Variables, tables, history
  <2> QED BY <2>4, <2>5, <2>6 DEF SecretsInv
<1>4. CASE CommitReset(w)
  <2>1. s \in Secret /\ kind[s] = "reset" /\ asker[w].account \in User
    BY <1>4, Working DEF CommitReset, Doing
  <2>2. /\ row' = [row EXCEPT ![s] = [status |-> "pending", account |-> asker[w].account]]
        /\ issued' = issued \cup {s} /\ row[s] = Nobody
        /\ UNCHANGED <<kind, redis, mail, active, identity, uses, admitted, cut, contested,
                       late, asked>>
    BY <1>4 DEF CommitReset
  <2>3. [status |-> "pending", account |-> asker[w].account] \in PasswordResetToken
    BY <2>1 DEF PasswordResetToken, PasswordResetStatus
  <2>4. \A r \in Secret : row'[r] =
          IF r = s THEN [status |-> "pending", account |-> asker[w].account] ELSE row[r]
    BY <1>2, <2>1, <2>2
  <2>5. row' \in [Secret -> PasswordResetToken \cup {Nobody}]
    BY <1>2, <2>1, <2>2, <2>3
  <2>6. row'[s] # Nobody /\ \A r \in Secret : row[r] # Nobody => row'[r] # Nobody
    BY <2>1, <2>2, <2>3, <2>4, RowAssumption
  <2>7. asker' \in [Asker -> AskerState] /\ Askers' /\ Counters' /\ Links'
    BY <1>1, <1>4, <2>2, <2>6, OtherMove, RestFits DEF CommitReset, Leaves, Continues, redis
  <2>8. uses[s] = 0
    BY <1>2, <2>1, <2>2 DEF SecretsInv, Secrets
  <2> HIDE DEF s
  <2>9. Secrets'
    BY <2>1, <2>2, <2>4, <2>6, <2>8 DEF SecretsInv, Secrets, Pending, redis
  <2>10. Variables' BY <2>1, <2>2, <2>5, <2>7 DEF SecretsInv, Variables, redis
  <2> QED BY <2>7, <2>9, <2>10 DEF SecretsInv
<1>5. CASE CheckKey(w)
  <2>1. s \in Secret /\ row[s] # Nobody /\ asker[w].op = "confirm"
    BY <1>5, Working DEF CheckKey, Doing
  <2>2. PICK m : asker' = [asker EXCEPT ![w] = m] /\ m.op = "confirm" /\ m \in Confirming
                 /\ m.secret = s
    BY <1>2, <1>5, <2>1, Turned DEF CheckKey
  <2>3. Fits(m) BY <2>1, <2>2, AskerTypes DEF Fits
  <2>4. asked' \in 0 .. MaxAsked BY <1>5 DEF CheckKey, SecretsInv, Variables
  <2> QED BY <1>1, <1>5, <2>2, <2>3, <2>4, QuietMove DEF CheckKey
<1>6. ASSUME s \in Secret, row[s] \in PasswordResetToken, kind[s] = "reset", s \in issued,
             NEW status \in {"used", "expired"}, row' = [row EXCEPT ![s].status = status]
      PROVE  /\ row' \in [Secret -> PasswordResetToken \cup {Nobody}]
             /\ \A r \in Secret : /\ r # s => row'[r] = row[r]
                                  /\ row'[r] # Nobody <=> row[r] # Nobody
             /\ row'[s].status = status
  <2> DEFINE old == row[s]
             new == [old EXCEPT !.status = status]
  <2>1. row' = [row EXCEPT ![s] = new] BY <1>6
  <2>2. old \in PasswordResetToken /\ old # Nobody BY <1>6, RowAssumption
  <2> HIDE DEF old
  <2>3. new \in PasswordResetToken /\ new.status = status /\ new # Nobody
    BY <2>2, RowAssumption DEF PasswordResetToken, PasswordResetStatus
  <2> HIDE DEF new
  <2>4. old = row[s] BY DEF old
  <2> QED BY <1>2, <1>6, <2>1, <2>2, <2>3, <2>4
<1>7. CASE MarkExpired(w)
  <2>1. s \in Secret /\ row[s] \in PasswordResetToken /\ kind[s] = "reset" /\ s \in issued
    BY <1>7, Working DEF MarkExpired, Doing
  <2>2. /\ row' = [row EXCEPT ![s].status = "expired"]
        /\ UNCHANGED <<kind, redis, mail, active, identity, history, late, asked>>
    BY <1>7 DEF MarkExpired
  <2>3. /\ row' \in [Secret -> PasswordResetToken \cup {Nobody}]
        /\ \A r \in Secret : /\ r # s => row'[r] = row[r]
                             /\ row'[r] # Nobody <=> row[r] # Nobody
        /\ row'[s].status = "expired"
    BY <1>6, <2>1, <2>2
  <2> HIDE DEF s
  <2>4. asker' \in [Asker -> AskerState] /\ Askers' /\ Counters' /\ Links'
    BY <1>1, <1>7, <2>2, <2>3, OtherMove, RestFits
       DEF MarkExpired, Leaves, Continues, redis, history
  <2>5. Secrets' BY <2>1, <2>2, <2>3 DEF SecretsInv, Secrets, Pending, redis, history
  <2>6. Variables' BY <2>2, <2>3, <2>4 DEF SecretsInv, Variables, redis, history
  <2> QED BY <2>4, <2>5, <2>6 DEF SecretsInv
<1>8. CASE LockReset(w)
  <2>1. /\ s \in Secret /\ row[s] \in PasswordResetToken /\ kind[s] = "reset" /\ s \in issued
        /\ asker[w].op = "confirm" /\ Pending(s)
    BY <1>8, Working DEF LockReset, Doing
  <2>2. /\ row' = [row EXCEPT ![s].status = "used"]
        /\ uses' = [uses EXCEPT ![s] = @ + 1]
        /\ UNCHANGED <<kind, redis, mail, active, identity, issued, admitted, cut, contested,
                       late, asked>>
    BY <1>8 DEF LockReset
  <2>3. /\ row' \in [Secret -> PasswordResetToken \cup {Nobody}]
        /\ \A r \in Secret : /\ r # s => row'[r] = row[r]
                             /\ row'[r] # Nobody <=> row[r] # Nobody
        /\ row'[s].status = "used"
    BY <1>6, <2>1, <2>2
  <2>4. PICK m : asker' = [asker EXCEPT ![w] = m] /\ m.op = "confirm" /\ m \in Confirming
                 /\ m.secret = s
    BY <1>2, <1>8, <2>1, Turned DEF LockReset
  <2>5. Fits(m)
    <3>1. row[s] # Nobody BY <2>1 DEF Pending
    <3> QED BY <2>4, <3>1, AskerTypes DEF Fits
  <2> HIDE DEF s
  <2>6. asker' \in [Asker -> AskerState] /\ Askers' /\ Counters' /\ Links'
    BY <1>1, <2>2, <2>3, <2>4, <2>5, OtherMove DEF redis
  <2>7. uses[s] = 0 BY <1>2, <2>1 DEF SecretsInv, Secrets
  <2>8. /\ uses' \in [Secret -> Nat] /\ uses'[s] = 1
        /\ \A r \in Secret : r # s => uses'[r] = uses[r]
    BY <1>2, <2>1, <2>2, <2>7
  <2>9. Secrets' BY <2>1, <2>2, <2>3, <2>8 DEF SecretsInv, Secrets, Pending, redis
  <2>10. Variables' BY <2>2, <2>3, <2>6, <2>8 DEF SecretsInv, Variables, redis
  <2> QED BY <2>6, <2>9, <2>10 DEF SecretsInv
<1>9. CASE DeleteResetKey(w)
  <2>1. s \in Secret BY <1>9, Working DEF DeleteResetKey, Doing
  <2>2. asker' \in [Asker -> AskerState] /\ Askers' /\ Counters' /\ Links'
    BY <1>1, <1>9, OtherMove, RestFits
       DEF DeleteResetKey, Leaves, Continues, tables, history
  <2>3. Secrets' BY <1>9 DEF DeleteResetKey, SecretsInv, Secrets, Pending, tables, history
  <2>4. Variables'
    BY <1>9, <2>2 DEF DeleteResetKey, SecretsInv, Variables, tables, history
  <2> QED BY <2>2, <2>3, <2>4 DEF SecretsInv
<1> QED BY <1>3, <1>4, <1>5, <1>7, <1>8, <1>9 DEF ResetStep

-----------------------------------------------------------------------------
(* OIDC logins, and what else happens *)

\* A callback that writes an identity whose account it has not found contests it.
LEMMA LinkStep ==
    ASSUME SecretsInv, NEW w \in Asker, Link(w)
    PROVE  /\ SecretsInv'
           /\ identity # Nobody /\ identity' # identity => contested'
<1>1. asker[w].account \in User /\ asker[w].found \in BOOLEAN BY Working DEF Link
<1>2. /\ identity' = asker[w].account
      /\ contested' = (contested \/ (~asker[w].found /\ identity # Nobody))
      /\ UNCHANGED <<kind, redis, row, mail, active, issued, uses, admitted, cut, late, asked>>
      /\ asker' = [asker EXCEPT ![w] = AtRest]
  BY DEF Link, Leaves, Continues
<1>3. ~Doing(w, "limit", "expire") BY DEF Link, Doing
<1>4. asker' \in [Asker -> AskerState] /\ Askers' BY <1>2, RestFits, OneMoves
<1>5. Counters' BY <1>2, <1>3, RestFits, CountersKept DEF redis
<1>6. Secrets' BY <1>2 DEF SecretsInv, Secrets, Pending, redis
<1>7. Variables'
  BY <1>1, <1>2, <1>4 DEF SecretsInv, Variables, ExternalIdentity, redis
<1>8. asker[w].found => contested \/ identity = asker[w].account
  BY DEF Link, SecretsInv, Links
<1>9. contested \/ contested' \/ identity \in {Nobody, asker[w].account}
  BY <1>1, <1>2, <1>8
<1>10. identity # Nobody /\ identity' # identity => contested' BY <1>1, <1>2, <1>9
<1>11. \A v \in Asker : asker'[v] = IF v = w THEN AtRest ELSE asker[v]
  BY <1>2 DEF SecretsInv, Variables
<1>12. Links'
  <2> SUFFICES ASSUME NEW v \in Asker, asker'[v].op = "link", asker'[v].found
               PROVE  contested' \/ identity' = asker'[v].account
    BY DEF Links
  <2>1. asker'[v] = asker[v] BY <1>11, RestFits
  <2>2. contested \/ identity = asker[v].account BY <2>1 DEF SecretsInv, Links
  <2>3. asker[v].account # Nobody
    BY <2>1, Working, SecretsAssumption
  <2> QED BY <1>2, <1>10, <2>1, <2>2, <2>3
<1> QED BY <1>4, <1>5, <1>6, <1>7, <1>10, <1>12 DEF SecretsInv

LEMMA OidcSteps ==
    ASSUME SecretsInv, NEW w \in Asker, OidcStep(w)
    PROVE  SecretsInv' /\ (identity # Nobody /\ identity' # identity => contested')
<1> USE SecretsAssumption
<1> DEFINE s == asker[w].secret
<1>1. CASE Link(w) BY <1>1, LinkStep
<1> SUFFICES ASSUME PopState(w) \/ Exchange(w) \/ Validate(w) \/ LookUpAccount(w)
             PROVE  SecretsInv'
  BY <1>1 DEF OidcStep, PopState, Exchange, Validate, LookUpAccount, tables
<1>2. /\ asker[w].op = "callback" /\ s \in Secret /\ kind[s] = "oidc" /\ s \in issued
      /\ ~Doing(w, "limit", "expire")
  BY Working DEF PopState, Exchange, Validate, LookUpAccount, Doing
<1>3. asker \in [Asker -> AskerState] /\ asked \in 0 .. MaxAsked /\ uses \in [Secret -> Nat]
  BY DEF SecretsInv, Variables
<1>4. ASSUME NEW step \in {"exchange", "validate", "lookup"}, Turns(w, step)
      PROVE  \E m : asker' = [asker EXCEPT ![w] = m] /\ m.op = "callback" /\ Fits(m)
  <2>1. PICK m : asker' = [asker EXCEPT ![w] = m] /\ m.op = "callback" /\ m \in CallingBack
                 /\ m.secret = s
    BY <1>2, <1>3, <1>4, Turned
  <2>2. Fits(m) BY <1>2, <2>1, AskerTypes DEF Fits
  <2> QED BY <2>1, <2>2
<1>5. CASE PopState(w)
  <2>1. /\ key' = key \ {s} /\ uses' \in [Secret -> Nat]
        /\ \A r \in Secret : r # s => uses'[r] = uses[r]
        /\ UNCHANGED <<kind, count, ttl, tables, issued, admitted, cut, contested, late, asked>>
    BY <1>2, <1>3, <1>5 DEF PopState
  <2>2. PICK m : asker' = [asker EXCEPT ![w] = m] /\ Fits(m) /\ m.op \in {"resting", "callback"}
    BY <1>4, <1>5, RestFits DEF PopState, Leaves, Continues
  <2>3. asker' \in [Asker -> AskerState] /\ Askers' /\ Counters' /\ Links'
    BY <1>2, <2>1, <2>2, OtherMove DEF tables
  <2> HIDE DEF s
  <2>4. Secrets' BY <1>2, <2>1 DEF SecretsInv, Secrets, Pending, tables
  <2>5. Variables' BY <2>1, <2>3 DEF SecretsInv, Variables, tables
  <2> QED BY <2>3, <2>4, <2>5 DEF SecretsInv
<1>6. CASE Exchange(w) \/ Validate(w)
  <2>1. PICK m : asker' = [asker EXCEPT ![w] = m] /\ Fits(m) /\ m.op = "callback"
    BY <1>4, <1>6 DEF Exchange, Validate
  <2>2. asked' \in 0 .. MaxAsked BY <1>3, <1>6 DEF Exchange, Validate
  <2> QED BY <1>2, <1>6, <2>1, <2>2, QuietMove DEF Exchange, Validate
<1>7. CASE LookUpAccount(w)
  <2> DEFINE m == [op |-> "link", account |-> Known, found |-> identity # Nobody]
  <2>1. /\ asker' = [asker EXCEPT ![w] = m]
        /\ UNCHANGED <<kind, redis, tables, history, late, asked>> /\ Known \in User
    BY <1>7 DEF LookUpAccount, Continues, SecretsInv, Variables
  <2>2. m \in AskerState BY <2>1, AskerTypes DEF Linking
  <2>3. Fits(m) BY <2>2 DEF Fits
  <2>4. asker' \in [Asker -> AskerState] /\ Askers'
    BY <2>1, <2>3, OneMoves DEF tables, history
  <2>5. Counters' BY <1>2, <2>1, CountersKept DEF redis, history
  <2>6. Secrets' BY <2>1 DEF SecretsInv, Secrets, Pending, redis, tables, history
  <2>7. Variables' BY <2>1, <2>4 DEF SecretsInv, Variables, redis, tables, history
  <2>8. m.found => identity = m.account BY DEF Known
  <2>9. Links' BY <1>3, <2>1, <2>8 DEF SecretsInv, Links, tables, history
  <2> QED BY <2>4, <2>5, <2>6, <2>7, <2>9 DEF SecretsInv
<1> QED BY <1>5, <1>6, <1>7

LEMMA StopStep ==
    ASSUME SecretsInv, NEW w \in Asker, Stop(w)
    PROVE  SecretsInv'
<1>1. /\ asker' = [asker EXCEPT ![w] = AtRest]
      /\ cut' = IF Doing(w, "limit", "expire") THEN cut \cup {asker[w].window} ELSE cut
      /\ UNCHANGED <<kind, redis, tables, issued, uses, admitted, contested, late, asked>>
  BY DEF Stop, Leaves, Continues
<1>2. asker' \in [Asker -> AskerState] /\ Askers' BY <1>1, RestFits, OneMoves DEF tables
<1>3. Links' BY <1>1, RestFits, LinksKept DEF tables
<1>4. Secrets' BY <1>1 DEF SecretsInv, Secrets, Pending, redis, tables
<1>5. Doing(w, "limit", "expire") => asker[w].window \in Window BY Working DEF Doing
<1>6. Variables' BY <1>1, <1>2, <1>5 DEF SecretsInv, Variables, redis, tables
<1>7. \A v \in Asker : asker'[v] = IF v = w THEN AtRest ELSE asker[v]
  BY <1>1 DEF SecretsInv, Variables
<1>8. \A v \in Asker, i \in Window : AtExpire(v, i)' <=> AtExpire(v, i) /\ v # w
  BY <1>7, RestFits DEF AtExpire, Doing
<1>9. CounterExpires'
  <2> SUFFICES ASSUME NEW i \in Window, count[i] > 0, ~ttl[i]
               PROVE  i \in cut' \/ \E v \in Asker : AtExpire(v, i)'
    BY <1>1 DEF CounterExpires, AtExpire, redis
  <2>1. i \in cut \/ \E v \in Asker : AtExpire(v, i)
    BY DEF SecretsInv, Counters, CounterExpires, AtExpire
  <2>2. AtExpire(w, i) => i \in cut' BY <1>1 DEF AtExpire
  <2> QED BY <1>1, <1>8, <2>1, <2>2
<1>10. Counters' BY <1>1, <1>8, <1>9 DEF SecretsInv, Counters, redis
<1> QED BY <1>2, <1>3, <1>4, <1>6, <1>10 DEF SecretsInv

LEMMA EnvironmentSteps ==
    ASSUME SecretsInv,
           \/ \E s \in Secret : StartOidcAuthorization(s) \/ TimePasses(s) \/ LoseKey(s)
           \/ ChangeAccount
    PROVE  SecretsInv'
<1> USE SecretsAssumption
<1>1. /\ UNCHANGED <<kind, row, identity, count, ttl, uses, admitted, cut, contested, asker>>
      /\ issued \subseteq issued'
  BY DEF StartOidcAuthorization, TimePasses, LoseKey, ChangeAccount, redis, tables, history
<1>2. Askers' /\ Links' BY <1>1 DEF SecretsInv, Askers, Fits, Links
<1>3. Counters'
  BY <1>1 DEF SecretsInv, Counters, CounterExpires, AtExpire, Doing
<1>4. Secrets' /\ Variables'
  <2>1. ASSUME NEW s \in Secret, StartOidcAuthorization(s) PROVE Secrets' /\ Variables'
    <3>1. uses[s] = 0 BY <2>1 DEF StartOidcAuthorization, SecretsInv, Secrets, Variables
    <3> QED BY <1>1, <2>1, <3>1 DEF StartOidcAuthorization, SecretsInv, Secrets, Variables,
                                    Pending, tables
  <2>2. ASSUME NEW s \in Secret, TimePasses(s) PROVE Secrets' /\ Variables'
    BY <1>1, <2>2 DEF TimePasses, SecretsInv, Secrets, Variables, Pending, redis, tables, history
  <2>3. ASSUME NEW s \in Secret, LoseKey(s) PROVE Secrets' /\ Variables'
    BY <1>1, <2>3 DEF LoseKey, SecretsInv, Secrets, Variables, Pending, tables, history
  <2>4. CASE ChangeAccount
    <3>1. asked' \in 0 .. MaxAsked /\ mail' \in User \cup {Nobody} /\ active' \subseteq User
      BY <2>4 DEF ChangeAccount, SecretsInv, Variables
    <3> QED BY <1>1, <2>4, <3>1 DEF ChangeAccount, SecretsInv, Secrets, Variables,
                                    Pending, redis, history
  <2> QED BY <2>1, <2>2, <2>3, <2>4
<1> QED BY <1>2, <1>3, <1>4 DEF SecretsInv

LEMMA SecretsInitially ==
    ASSUME SecretsInit
    PROVE  SecretsInv
<1> USE SecretsAssumption DEF SecretsInit
<1>1. \A w \in Asker : asker[w] = AtRest OBVIOUS
<1>2. /\ row \in [Secret -> PasswordResetToken \cup {Nobody}]
      /\ count \in [Window -> Nat] /\ ttl \in [Window -> BOOLEAN]
      /\ asker \in [Asker -> AskerState] /\ asked \in 0 .. MaxAsked
      /\ uses \in [Secret -> Nat] /\ admitted \in [Window -> Nat]
  BY AskerTypes
<1>3. Variables BY <1>2 DEF Variables
<1>4. Askers /\ Links BY <1>1, RestFits DEF Askers, Links
<1>5. Secrets BY DEF Secrets
<1>6. Counters BY <1>1, RestFits DEF Counters, AtExpire, Doing, CounterExpires
<1> QED BY <1>3, <1>4, <1>5, <1>6 DEF SecretsInv

LEMMA SecretsPreserved ==
    ASSUME SecretsInv, [SecretsNext]_secretsVars
    PROVE  SecretsInv' /\ (identity # Nobody /\ identity' # identity => contested')
<1>1. CASE UNCHANGED secretsVars
  BY <1>1 DEF secretsVars, redis, tables, history, SecretsInv, Variables, Askers, Fits, Secrets,
              Pending, Counters, CounterExpires, AtExpire, Doing, Links
<1>2. CASE \E w \in Asker :
              \/ BeginLogin(w) \/ \E s \in Secret :
                    BeginReset(w, s) \/ ReadReset(w, s) \/ GetState(w, s)
  BY <1>2, BeginSteps DEF BeginLogin, BeginReset, ReadReset, GetState, tables
<1>3. CASE \E w \in Asker : Incr(w) \/ SetExpiry(w)
  BY <1>3, IncrStep, SetExpiryStep DEF Incr, SetExpiry, tables
<1>4. CASE \E w \in Asker : ResetStep(w)
  BY <1>4, ResetSteps DEF ResetStep, SetResetKey, CommitReset, CheckKey, MarkExpired, LockReset,
                          DeleteResetKey, tables
<1>5. CASE \E w \in Asker : OidcStep(w) BY <1>5, OidcSteps
<1>6. CASE \E w \in Asker : Stop(w) BY <1>6, StopStep DEF Stop, tables
<1>7. CASE \E window \in Window : WindowEnds(window)
  BY <1>7, WindowEndsStep DEF WindowEnds, tables
<1>8. CASE \/ \E s \in Secret : StartOidcAuthorization(s) \/ TimePasses(s) \/ LoseKey(s)
           \/ ChangeAccount
  BY <1>8, EnvironmentSteps
     DEF StartOidcAuthorization, TimePasses, LoseKey, ChangeAccount, tables
<1> QED BY <1>1, <1>2, <1>3, <1>4, <1>5, <1>6, <1>7, <1>8 DEF SecretsNext

\* What the invariant says of the properties.
LEMMA SecretsImplied ==
    ASSUME SecretsInv
    PROVE  SecretsTypeOK /\ ResetUsedOnce /\ LimitHolds /\ CounterExpires
<1>1. \A w \in Asker : asker[w].op = "confirm" => row[asker[w].secret] # Nobody
  BY Working
<1>2. SecretsTypeOK BY <1>1 DEF SecretsInv, Variables, SecretsTypeOK
<1> QED BY <1>2 DEF SecretsInv, Secrets, Counters, ResetUsedOnce, LimitHolds

\* Resets and logins are guarded whatever requests overlap, stop or find Redis empty.
LEMMA SecretsInvariance == AccountServicesSpec => []SecretsInv
<1>1. AccountServicesInit => SecretsInv BY SecretsInitially DEF AccountServicesInit
<1>2. SecretsInv /\ [AccountServicesNext]_accountVars => SecretsInv'
  BY SecretsPreserved DEF AccountServicesNext, accountVars
<1> QED BY <1>1, <1>2, PTL DEF AccountServicesSpec

\* Nobody gets in twice with one token, no window admits more than its limit, a counter
\* without an expiry has a request that is to set it or was cut short, and an external
\* identity changes its account only if two callbacks created it at once:
\* confirm_password_reset, fixed_window_rate_limit and complete_oidc_callback.
THEOREM RecoveryGuarded == AccountServicesSpec => LoginsGuarded
<1>1. SecretsInv /\ [AccountServicesNext]_accountVars =>
          [identity # Nobody /\ identity' # identity => contested']_secretsVars
  BY SecretsPreserved DEF AccountServicesNext, accountVars
<1>2. SecretsInv => SecretsTypeOK /\ ResetUsedOnce /\ LimitHolds /\ CounterExpires
  BY SecretsImplied
<1> QED BY <1>1, <1>2, SecretsInvariance, PTL DEF AccountServicesSpec, LoginsGuarded, IdentityStays

-----------------------------------------------------------------------------
(* Secrets implement OneTimeSecret *)

phases == [s \in Secret |-> Phase(s)]
holding == [s \in Secret |-> Holders(s)]

\* A request holds the secret from reading it as usable to using or dropping it.
Holds(m, s) ==
    \/ m.op = "confirm" /\ m.step \in {"key", "lock"} /\ m.secret = s
    \/ m.op = "callback" /\ m.step = "pop" /\ m.secret = s

Usable(s) == IF kind[s] = "reset" THEN Pending(s) /\ s \notin late ELSE s \in key

LEMMA PhaseIs ==
    ASSUME NEW s \in Secret, uses[s] \in Nat
    PROVE  Phase(s) = IF uses[s] > 0 THEN "used"
                      ELSE IF s \notin issued THEN "unissued"
                      ELSE IF Usable(s) THEN "open" ELSE "gone"
BY DEF Phase, Usable

LEMMA PhaseBecomes ==
    ASSUME NEW s \in Secret, uses'[s] \in Nat
    PROVE  Phase(s)' = IF uses'[s] > 0 THEN "used"
                       ELSE IF s \notin issued' THEN "unissued"
                       ELSE IF Usable(s)' THEN "open" ELSE "gone"
BY DEF Phase, Usable

\* What decides the phase of a secret has not changed.
LEMMA PhaseKept ==
    ASSUME NEW s \in Secret, uses'[s] = uses[s], s \in issued' <=> s \in issued,
           Usable(s)' <=> Usable(s)
    PROVE  Phase(s)' = Phase(s)
BY DEF Phase, Usable

LEMMA HoldersMove ==
    ASSUME asker \in [Asker -> AskerState], NEW w \in Asker, NEW m,
           asker' = [asker EXCEPT ![w] = m], NEW s
    PROVE  /\ Holds(asker[w], s) <=> w \in Holders(s)
           /\ Holds(m, s) /\ ~Holds(asker[w], s) => Holders(s)' = Holders(s) \cup {w}
           /\ ~Holds(m, s) => Holders(s)' = Holders(s) \ {w}
           /\ Holds(m, s) <=> Holds(asker[w], s) => Holders(s)' = Holders(s)
<1>1. \A v \in Asker : asker'[v] = IF v = w THEN m ELSE asker[v] OBVIOUS
<1>2. Holders(s) = {v \in Asker : Holds(asker[v], s)} BY DEF Holders, Holds, Doing
<1>3. Holders(s)' = {v \in Asker : Holds(asker'[v], s)} BY DEF Holders, Holds, Doing
<1> QED BY <1>1, <1>2, <1>3

LEMMA HoldersKept ==
    ASSUME asker' = asker, NEW s
    PROVE  Holders(s)' = Holders(s)
BY DEF Holders, Doing

LEMMA PhasesBecome ==
    ASSUME NEW s \in Secret, NEW next, Phase(s)' = next,
           \A r \in Secret : r # s => Phase(r)' = Phase(r)
    PROVE  phases' = [phases EXCEPT ![s] = next]
BY DEF phases

LEMMA HoldingBecomes ==
    ASSUME NEW s \in Secret, NEW set, Holders(s)' = set,
           \A r \in Secret : r # s => Holders(r)' = Holders(r)
    PROVE  holding' = [holding EXCEPT ![s] = set]
BY DEF holding

\* The steps of OneTimeSecret, in terms of this module.
PromiseStep == [Promise!Next]_<<phases, holding>>

LEMMA PromiseKept ==
    ASSUME \A s \in Secret : Phase(s)' = Phase(s) /\ Holders(s)' = Holders(s)
    PROVE  PromiseStep
BY DEF PromiseStep, phases, holding

LEMMA PromiseIssued ==
    ASSUME NEW s \in Secret, Phase(s) = "unissued", Phase(s)' = "open",
           \A r \in Secret : r # s => Phase(r)' = Phase(r),
           \A r \in Secret : Holders(r)' = Holders(r)
    PROVE  PromiseStep
<1>1. phases' = [phases EXCEPT ![s] = "open"] BY PhasesBecome
<1>2. holding' = holding BY DEF holding
<1>3. phases[s] = "unissued" BY DEF phases
<1> QED BY <1>1, <1>2, <1>3
        DEF PromiseStep, Promise!Next, Promise!Issue, Promise!Become, phases, holding

LEMMA PromiseTaken ==
    ASSUME NEW s \in Secret, NEW w \in Asker, Phase(s) = "open",
           Holders(s)' = Holders(s) \cup {w},
           \A r \in Secret : r # s => Holders(r)' = Holders(r),
           \A r \in Secret : Phase(r)' = Phase(r)
    PROVE  PromiseStep
<1>1. phases' = phases /\ phases[s] = "open" BY DEF phases
<1>2. holding' = [holding EXCEPT ![s] = Holders(s) \cup {w}] BY HoldingBecomes
<1>3. holding' = [holding EXCEPT ![s] = @ \cup {w}] BY <1>2 DEF holding
<1> QED BY <1>1, <1>3 DEF PromiseStep, Promise!Next, Promise!Take, phases, holding

LEMMA PromiseUsed ==
    ASSUME NEW s \in Secret, NEW w \in Asker, w \in Holders(s), Phase(s)' = "used",
           Holders(s)' = Holders(s) \ {w},
           \A r \in Secret : r # s => Holders(r)' = Holders(r) /\ Phase(r)' = Phase(r)
    PROVE  PromiseStep
<1>1. phases' = [phases EXCEPT ![s] = "used"] BY PhasesBecome
<1>2. holding' = [holding EXCEPT ![s] = Holders(s) \ {w}] BY HoldingBecomes
<1>3. holding' = [holding EXCEPT ![s] = @ \ {w}] /\ w \in holding[s] BY <1>2 DEF holding
<1> QED BY <1>1, <1>3
        DEF PromiseStep, Promise!Next, Promise!Use, Promise!Become, Promise!Release,
            phases, holding

LEMMA PromiseDropped ==
    ASSUME NEW s \in Secret, NEW w \in Asker, Holders(s)' = Holders(s) \ {w},
           \A r \in Secret : r # s => Holders(r)' = Holders(r),
           \A r \in Secret : Phase(r)' = Phase(r)
    PROVE  PromiseStep
<1>1. phases' = phases BY DEF phases
<1>2. holding' = [holding EXCEPT ![s] = Holders(s) \ {w}] BY HoldingBecomes
<1>3. holding' = [holding EXCEPT ![s] = @ \ {w}] BY <1>2 DEF holding
<1> QED BY <1>1, <1>3
        DEF PromiseStep, Promise!Next, Promise!Drop, Promise!Release, phases, holding

\* The request that finds the secret unusable may hold it.
LEMMA PromiseGivenUp ==
    ASSUME NEW s \in Secret, Phase(s) = "open", Phase(s)' = "gone",
           Holders(s)' = Holders(s) \/ \E w \in Asker : Holders(s)' = Holders(s) \ {w},
           \A r \in Secret : r # s => Holders(r)' = Holders(r) /\ Phase(r)' = Phase(r)
    PROVE  PromiseStep
<1>1. phases' = [phases EXCEPT ![s] = "gone"] /\ phases[s] = "open"
  BY PhasesBecome DEF phases
<1>2. \/ holding' = holding
      \/ \E w \in Asker : holding' = [holding EXCEPT ![s] = @ \ {w}]
  <2>1. CASE Holders(s)' = Holders(s) BY <2>1 DEF holding
  <2>2. ASSUME NEW w \in Asker, Holders(s)' = Holders(s) \ {w}
        PROVE  holding' = [holding EXCEPT ![s] = @ \ {w}]
    <3>1. holding' = [holding EXCEPT ![s] = Holders(s) \ {w}] BY <2>2, HoldingBecomes
    <3> QED BY <3>1 DEF holding
  <2> QED BY <2>1, <2>2
<1> QED BY <1>1, <1>2
        DEF PromiseStep, Promise!Next, Promise!GiveUp, Promise!Become, phases, holding

\* A request that neither held a secret nor does: the phases decide.
LEMMA NothingHeld ==
    ASSUME asker \in [Asker -> AskerState], NEW w \in Asker, NEW m,
           asker' = [asker EXCEPT ![w] = m],
           \A s \in Secret : ~Holds(asker[w], s) /\ ~Holds(m, s)
    PROVE  \A s \in Secret : Holders(s)' = Holders(s)
BY HoldersMove

LEMMA BeginPromise ==
    ASSUME SecretsInv, NEW w \in Asker,
           BeginLogin(w) \/ \E s \in Secret : BeginReset(w, s) \/ ReadReset(w, s) \/ GetState(w, s)
    PROVE  PromiseStep
<1>1. asker \in [Asker -> AskerState] /\ \A s \in Secret : uses[s] \in Nat
  BY DEF SecretsInv, Variables
<1>2. UNCHANGED <<kind, redis, tables, history, late>>
  BY DEF BeginLogin, BeginReset, ReadReset, GetState
<1>3. \A s \in Secret : Phase(s)' = Phase(s)
  BY <1>2, PhaseKept DEF Usable, Pending, redis, tables, history
<1>4. asker[w] = AtRest /\ \A s \in Secret : ~Holds(asker[w], s)
  <2>1. asker[w] = AtRest BY DEF BeginLogin, BeginReset, ReadReset, GetState, Begins
  <2> QED BY <2>1, RestFits DEF Holds
<1>5. ASSUME NEW m, Begins(w, m), \A s \in Secret : ~Holds(m, s) PROVE PromiseStep
  <2>1. \A s \in Secret : Holders(s)' = Holders(s)
    BY <1>1, <1>4, <1>5, NothingHeld DEF Begins, Continues
  <2> QED BY <1>3, <2>1, PromiseKept
<1>6. ASSUME NEW s \in Secret, NEW m, Begins(w, m), Phase(s) = "open",
             \A r \in Secret : Holds(m, r) <=> r = s
      PROVE  PromiseStep
  <2>1. /\ Holders(s)' = Holders(s) \cup {w}
        /\ \A r \in Secret : r # s => Holders(r)' = Holders(r)
    BY <1>1, <1>4, <1>6, HoldersMove DEF Begins, Continues
  <2> QED BY <1>3, <1>6, <2>1, PromiseTaken
<1>7. CASE BeginLogin(w) BY <1>5, <1>7 DEF BeginLogin, Holds
<1>8. ASSUME NEW s \in Secret, BeginReset(w, s) PROVE PromiseStep
  BY <1>5, <1>8 DEF BeginReset, Holds
<1>9. ASSUME NEW s \in Secret, ReadReset(w, s) PROVE PromiseStep
  <2> DEFINE m == [op |-> "confirm", step |-> IF s \in late THEN "expire" ELSE "key",
                   secret |-> s]
  <2>1. Begins(w, m) BY <1>9 DEF ReadReset
  <2>2. CASE s \in late
    <3>1. \A r \in Secret : ~Holds(m, r) BY <2>2 DEF Holds
    <3> QED BY <1>5, <2>1, <3>1
  <2>3. CASE s \notin late
    <3>1. \A r \in Secret : Holds(m, r) <=> r = s BY <2>3 DEF Holds
    <3>2. Pending(s) /\ kind[s] = "reset" /\ s \in issued /\ uses[s] = 0
      BY <1>1, <1>9 DEF ReadReset, Pending, SecretsInv, Secrets
    <3>3. Phase(s) = "open" BY <2>3, <3>2, PhaseIs DEF Usable
    <3> QED BY <1>6, <2>1, <3>1, <3>3
  <2> QED BY <2>2, <2>3
<1>10. ASSUME NEW s \in Secret, GetState(w, s) PROVE PromiseStep
  <2> DEFINE m == [op |-> "callback", step |-> "pop", secret |-> s]
  <2>1. Begins(w, m) /\ \A r \in Secret : Holds(m, r) <=> r = s
    BY <1>10 DEF GetState, Holds
  <2>2. s \in key /\ kind[s] = "oidc" /\ s \in issued /\ uses[s] = 0
    BY <1>10 DEF GetState, SecretsInv, Secrets
  <2>3. Phase(s) = "open" BY <2>2, PhaseIs DEF Usable
  <2> QED BY <1>6, <2>1, <2>3
<1> QED BY <1>7, <1>8, <1>9, <1>10

LEMMA ResetPromise ==
    ASSUME SecretsInv, SecretsInv', NEW w \in Asker, ResetStep(w)
    PROVE  PromiseStep
<1>0. PICK s \in Secret : s = asker[w].secret
  BY Working DEF ResetStep, SetResetKey, CommitReset, CheckKey, MarkExpired, LockReset,
                 DeleteResetKey, Doing
<1>1. /\ asker \in [Asker -> AskerState]
      /\ \A r \in Secret : uses[r] \in Nat /\ uses'[r] \in Nat
      /\ uses \in [Secret -> Nat] /\ row \in [Secret -> PasswordResetToken \cup {Nobody}]
  BY DEF SecretsInv, Variables
<1>2. ASSUME NEW m, asker' = [asker EXCEPT ![w] = m],
             \A r \in Secret : ~Holds(asker[w], r) /\ ~Holds(m, r)
      PROVE  \A r \in Secret : Holders(r)' = Holders(r)
  BY <1>1, <1>2, NothingHeld
<1>3. CASE SetResetKey(w)
  <2>1. s \in Secret /\ kind[s] = "reset" /\ asker[w].op = "request"
    BY <1>0, <1>3, Working DEF SetResetKey, Doing
  <2>2. PICK m : asker' = [asker EXCEPT ![w] = m] /\ m.op = "request"
    BY <1>1, <1>3, <2>1, Turned DEF SetResetKey
  <2>3. \A r \in Secret : Holders(r)' = Holders(r) BY <1>2, <2>1, <2>2 DEF Holds
  <2>4. \A r \in Secret : Usable(r)' <=> Usable(r)
    BY <1>0, <1>3, <2>1 DEF SetResetKey, Usable, Pending, tables
  <2>5. \A r \in Secret : Phase(r)' = Phase(r)
    BY <1>3, <2>4, PhaseKept DEF SetResetKey, history
  <2> QED BY <2>3, <2>5, PromiseKept
<1>4. CASE CommitReset(w)
  <2>1. s \in Secret /\ kind[s] = "reset" /\ asker[w].account \in User /\ asker[w].op = "request"
    BY <1>0, <1>4, Working DEF CommitReset, Doing
  <2>2. /\ row' = [row EXCEPT ![s] = [status |-> "pending", account |-> asker[w].account]]
        /\ issued' = issued \cup {s} /\ row[s] = Nobody /\ asker' = [asker EXCEPT ![w] = AtRest]
        /\ kind' = kind /\ key' = key /\ uses' = uses /\ late' = late
    BY <1>0, <1>4 DEF CommitReset, Leaves, Continues, redis
  <2>3. \A r \in Secret : Holders(r)' = Holders(r)
    BY <1>2, <2>1, <2>2, RestFits DEF Holds
  <2>4. s \notin issued /\ s \notin late /\ uses[s] = 0
    BY <1>1, <2>1, <2>2 DEF SecretsInv, Secrets
  <2>5. \A r \in Secret : r # s => (Usable(r)' <=> Usable(r))
    BY <1>1, <2>1, <2>2 DEF Usable, Pending
  <2>6. \A r \in Secret : r # s => Phase(r)' = Phase(r)
    BY <2>2, <2>5, PhaseKept
  <2>7. row'[s] # Nobody
    BY <2>1, <2>2 DEF SecretsInv, Secrets
  <2>8. row'[s].status = "pending" BY <1>1, <2>1, <2>2
  <2>9. Usable(s)' BY <2>1, <2>2, <2>4, <2>7, <2>8 DEF Usable, Pending
  <2>10. Phase(s) = "unissued" /\ Phase(s)' = "open"
    BY <1>1, <2>1, <2>2, <2>4, <2>9, PhaseIs, PhaseBecomes
  <2> QED BY <2>1, <2>3, <2>6, <2>10, PromiseIssued
<1>5. CASE CheckKey(w)
  <2> DEFINE next == IF s \in key THEN "lock" ELSE "expire"
  <2>1. s \in Secret /\ asker[w].op = "confirm" /\ asker[w].step = "key"
    BY <1>0, <1>5, Working DEF CheckKey, Doing
  <2>2. PICK m : asker' = [asker EXCEPT ![w] = m] /\ m.op = "confirm" /\ m.step = next
                 /\ m.secret = s
    BY <1>0, <1>1, <1>5, <2>1, Turned DEF CheckKey
  <2>3. \A r \in Secret : Phase(r)' = Phase(r)
    BY <1>5, PhaseKept DEF CheckKey, Usable, Pending, redis, tables, history
  <2>4. \A r \in Secret : Holds(asker[w], r) <=> r = s BY <1>0, <2>1 DEF Holds
  <2>5. CASE s \in key
    <3>1. \A r \in Secret : Holds(m, r) <=> r = s BY <2>2, <2>5 DEF Holds
    <3>2. \A r \in Secret : Holders(r)' = Holders(r) BY <1>1, <2>2, <2>4, <3>1, HoldersMove
    <3> QED BY <2>3, <3>2, PromiseKept
  <2>6. CASE s \notin key
    <3>1. \A r \in Secret : ~Holds(m, r) BY <2>2, <2>6 DEF Holds
    <3>2. /\ Holders(s)' = Holders(s) \ {w}
          /\ \A r \in Secret : r # s => Holders(r)' = Holders(r)
      BY <1>1, <2>1, <2>2, <2>4, <3>1, HoldersMove
    <3> QED BY <2>1, <2>3, <3>2, PromiseDropped
  <2> QED BY <2>5, <2>6
<1>6. CASE MarkExpired(w)
  <2>1. /\ s \in Secret /\ asker[w].op = "confirm" /\ asker[w].step = "expire"
        /\ kind[s] = "reset" /\ s \in issued
    BY <1>0, <1>6, Working DEF MarkExpired, Doing
  <2>2. /\ row' = [row EXCEPT ![s].status = "expired"] /\ asker' = [asker EXCEPT ![w] = AtRest]
        /\ kind' = kind /\ key' = key /\ uses' = uses /\ late' = late /\ issued' = issued
    BY <1>0, <1>6 DEF MarkExpired, Leaves, Continues, redis, history
  <2>3. \A r \in Secret : Holders(r)' = Holders(r)
    BY <1>2, <2>1, <2>2, RestFits DEF Holds
  <2>4. \A r \in Secret : r # s => row'[r] = row[r] BY <1>1, <2>2
  <2>5. row'[s].status = "expired"
    <3>1. row[s] \in PasswordResetToken BY <1>0, <1>6, Working DEF MarkExpired, Doing
    <3>2. row'[s] = [row[s] EXCEPT !.status = "expired"] BY <1>1, <2>1, <2>2
    <3> DEFINE old == row[s]
    <3>3. old \in PasswordResetToken BY <3>1
    <3> HIDE DEF old
    <3>4. [old EXCEPT !.status = "expired"].status = "expired"
      BY <3>3 DEF PasswordResetToken
    <3> QED BY <3>2, <3>4 DEF old
  <2>6. \A r \in Secret : r # s => (Usable(r)' <=> Usable(r))
    BY <2>2, <2>4 DEF Usable, Pending
  <2>7. \A r \in Secret : r # s => Phase(r)' = Phase(r) BY <2>2, <2>6, PhaseKept
  <2>8. ~Usable(s)' BY <2>1, <2>2, <2>5 DEF Usable, Pending
  <2>9. Phase(s)' = Phase(s) \/ (Phase(s) = "open" /\ Phase(s)' = "gone")
    <3>1. Phase(s) = IF uses[s] > 0 THEN "used" ELSE IF Usable(s) THEN "open" ELSE "gone"
      BY <1>1, <2>1, PhaseIs
    <3>2. Phase(s)' = IF uses[s] > 0 THEN "used" ELSE "gone"
      BY <1>1, <2>1, <2>2, <2>8, PhaseBecomes
    <3> QED BY <3>1, <3>2
  <2>10. CASE Phase(s)' = Phase(s) BY <2>3, <2>7, <2>10, PromiseKept
  <2>11. CASE Phase(s) = "open" /\ Phase(s)' = "gone" BY <2>3, <2>7, <2>11, PromiseGivenUp
  <2> QED BY <2>9, <2>10, <2>11
<1>7. CASE LockReset(w)
  <2>1. /\ s \in Secret /\ asker[w].op = "confirm" /\ asker[w].step = "lock"
    BY <1>0, <1>7, Working DEF LockReset, Doing
  <2>2. /\ row' = [row EXCEPT ![s].status = "used"] /\ uses' = [uses EXCEPT ![s] = @ + 1]
        /\ kind' = kind /\ key' = key /\ late' = late /\ issued' = issued
    BY <1>0, <1>7 DEF LockReset, redis
  <2>3. PICK m : asker' = [asker EXCEPT ![w] = m] /\ m.op = "confirm" /\ m.step = "delete"
    BY <1>0, <1>1, <1>7, <2>1, Turned DEF LockReset
  <2>4. \A r \in Secret : Holds(asker[w], r) <=> r = s BY <1>0, <2>1 DEF Holds
  <2>5. \A r \in Secret : ~Holds(m, r) BY <2>3 DEF Holds
  <2>6. /\ w \in Holders(s) /\ Holders(s)' = Holders(s) \ {w}
        /\ \A r \in Secret : r # s => Holders(r)' = Holders(r)
    BY <1>1, <2>1, <2>3, <2>4, <2>5, HoldersMove
  <2>7. uses'[s] > 0 /\ \A r \in Secret : r # s => uses'[r] = uses[r] /\ row'[r] = row[r]
    BY <1>1, <2>1, <2>2
  <2>8. \A r \in Secret : r # s => Phase(r)' = Phase(r)
    BY <2>2, <2>7, PhaseKept DEF Usable, Pending
  <2>9. Phase(s)' = "used" BY <1>1, <2>1, <2>7, PhaseBecomes
  <2> QED BY <2>1, <2>6, <2>8, <2>9, PromiseUsed
<1>8. CASE DeleteResetKey(w)
  <2>1. /\ s \in Secret /\ asker[w].op = "confirm" /\ asker[w].step = "delete"
        /\ kind[s] = "reset"
    BY <1>0, <1>8, Working DEF DeleteResetKey, Doing
  <2>2. asker' = [asker EXCEPT ![w] = AtRest]
    BY <1>8 DEF DeleteResetKey, Leaves, Continues
  <2>3. \A r \in Secret : Holders(r)' = Holders(r)
    BY <1>2, <2>1, <2>2, RestFits DEF Holds
  <2>4. \A r \in Secret : Usable(r)' <=> Usable(r)
    BY <1>0, <1>8, <2>1 DEF DeleteResetKey, Usable, Pending, tables
  <2>5. \A r \in Secret : Phase(r)' = Phase(r)
    BY <1>8, <2>4, PhaseKept DEF DeleteResetKey, history
  <2> QED BY <2>3, <2>5, PromiseKept
<1> QED BY <1>3, <1>4, <1>5, <1>6, <1>7, <1>8 DEF ResetStep

LEMMA OidcPromise ==
    ASSUME SecretsInv, SecretsInv', NEW w \in Asker, OidcStep(w)
    PROVE  PromiseStep
<1>1. /\ asker \in [Asker -> AskerState] /\ uses \in [Secret -> Nat]
      /\ \A r \in Secret : uses[r] \in Nat /\ uses'[r] \in Nat
  BY DEF SecretsInv, Variables
<1>2. CASE PopState(w)
  <2>1. PICK s \in Secret : s = asker[w].secret BY <1>2, Working DEF PopState, Doing
  <2>2. /\ asker[w].op = "callback" /\ asker[w].step = "pop"
        /\ kind[s] = "oidc" /\ s \in issued
    BY <1>2, <2>1, Working DEF PopState, Doing
  <2>3. /\ key' = key \ {s} /\ row' = row /\ kind' = kind /\ late' = late /\ issued' = issued
    BY <1>2, <2>1 DEF PopState, tables
  <2>4. PICK m : asker' = [asker EXCEPT ![w] = m] /\ \A r \in Secret : ~Holds(m, r)
    <3>1. CASE s \in late
      BY <1>2, <2>1, <3>1, RestFits DEF PopState, Leaves, Continues, Holds
    <3>2. CASE s \notin late
      <4>1. PICK m : asker' = [asker EXCEPT ![w] = m] /\ m.op = "callback"
                     /\ m.step = "exchange"
        BY <1>1, <1>2, <2>1, <2>2, <3>2, Turned DEF PopState
      <4> QED BY <4>1 DEF Holds
    <3> QED BY <3>1, <3>2
  <2>5. \A r \in Secret : Holds(asker[w], r) <=> r = s BY <2>1, <2>2 DEF Holds
  <2>6. /\ w \in Holders(s) /\ Holders(s)' = Holders(s) \ {w}
        /\ \A r \in Secret : r # s => Holders(r)' = Holders(r)
    BY <1>1, <2>4, <2>5, HoldersMove
  <2>7. /\ s \in late => uses' = uses
        /\ s \notin late => uses' = [uses EXCEPT ![s] = @ + 1]
    BY <1>2, <2>1 DEF PopState
  <2>8. \A r \in Secret : r # s => uses'[r] = uses[r] BY <1>1, <2>7
  <2>9. \A r \in Secret : r # s => Phase(r)' = Phase(r)
    BY <2>3, <2>8, PhaseKept DEF Usable, Pending
  <2>10. CASE s \notin late
    <3>1. uses'[s] > 0 BY <1>1, <2>7, <2>10
    <3>2. Phase(s)' = "used" BY <1>1, <3>1, PhaseBecomes
    <3> QED BY <2>6, <2>9, <3>2, PromiseUsed
  <2>11. CASE s \in late
    <3>1. Phase(s) = IF uses[s] > 0 THEN "used" ELSE IF s \in key THEN "open" ELSE "gone"
      BY <1>1, <2>2, PhaseIs DEF Usable
    <3>2. ~Usable(s)' BY <2>2, <2>3 DEF Usable
    <3>3. Phase(s)' = IF uses[s] > 0 THEN "used" ELSE "gone"
      BY <1>1, <2>2, <2>3, <2>7, <2>11, <3>2, PhaseBecomes
    <3>4. CASE Phase(s)' = Phase(s) BY <2>6, <2>9, <3>4, PromiseDropped
    <3>5. CASE Phase(s) = "open" /\ Phase(s)' = "gone" BY <2>6, <2>9, <3>5, PromiseGivenUp
    <3> QED BY <3>1, <3>3, <3>4, <3>5
  <2> QED BY <2>10, <2>11
<1>3. CASE Exchange(w) \/ Validate(w) \/ LookUpAccount(w) \/ Link(w)
  <2>1. UNCHANGED <<kind, row, key, uses, issued, late>>
    BY <1>3 DEF Exchange, Validate, LookUpAccount, Link, redis, tables, history
  <2>2. \A s \in Secret : Phase(s)' = Phase(s)
    BY <2>1, PhaseKept DEF Usable, Pending
  <2>3. \A s \in Secret : ~Holds(asker[w], s)
    BY <1>3 DEF Exchange, Validate, LookUpAccount, Link, Doing, Holds
  <2>4. \E m : asker' = [asker EXCEPT ![w] = m] /\ \A s \in Secret : ~Holds(m, s)
    <3>1. CASE Exchange(w) \/ Validate(w)
      <4>1. PICK m : asker' = [asker EXCEPT ![w] = m] /\ m.op = "callback"
                     /\ m.step \in {"validate", "lookup"}
        BY <1>1, <3>1, Turned DEF Exchange, Validate, Doing
      <4> QED BY <4>1 DEF Holds
    <3>2. CASE LookUpAccount(w)
      <4> DEFINE m == [op |-> "link", account |-> Known, found |-> identity # Nobody]
      <4>1. asker' = [asker EXCEPT ![w] = m] BY <3>2 DEF LookUpAccount, Continues
      <4>2. \A s \in Secret : ~Holds(m, s) BY DEF Holds
      <4> QED BY <4>1, <4>2
    <3>3. CASE Link(w) BY <3>3, RestFits DEF Link, Leaves, Continues, Holds
    <3> QED BY <1>3, <3>1, <3>2, <3>3
  <2>5. \A s \in Secret : Holders(s)' = Holders(s) BY <1>1, <2>3, <2>4, NothingHeld
  <2> QED BY <2>2, <2>5, PromiseKept
<1> QED BY <1>2, <1>3 DEF OidcStep

LEMMA OtherPromise ==
    ASSUME SecretsInv, SecretsInv',
           \/ \E w \in Asker : Incr(w) \/ SetExpiry(w) \/ Stop(w)
           \/ \E window \in Window : WindowEnds(window)
           \/ \E s \in Secret : StartOidcAuthorization(s) \/ TimePasses(s) \/ LoseKey(s)
           \/ ChangeAccount
    PROVE  PromiseStep
<1>1. /\ asker \in [Asker -> AskerState]
      /\ \A r \in Secret : uses[r] \in Nat /\ uses'[r] \in Nat
  BY DEF SecretsInv, Variables
<1>2. ASSUME NEW w \in Asker, Incr(w) \/ SetExpiry(w) PROVE PromiseStep
  <2>1. UNCHANGED <<kind, row, key, uses, issued, late>>
    BY <1>2 DEF Incr, SetExpiry, tables
  <2>2. \A s \in Secret : Phase(s)' = Phase(s) BY <2>1, PhaseKept DEF Usable, Pending
  <2>3. asker[w].op = "limit" BY <1>2 DEF Incr, SetExpiry, Doing
  <2>4. PICK m : asker' = [asker EXCEPT ![w] = m] /\ m.op \in {"resting", "request", "limit"}
    <3>1. CASE \E n : Limited(w, n) BY <2>3, <3>1, AfterLimit
    <3>2. CASE Turns(w, "expire") BY <1>1, <2>3, <3>2, Turned
    <3> QED BY <1>2, <3>1, <3>2 DEF Incr, SetExpiry
  <2>5. \A s \in Secret : Holders(s)' = Holders(s)
    BY <1>1, <2>3, <2>4, NothingHeld DEF Holds
  <2> QED BY <2>2, <2>5, PromiseKept
<1>3. ASSUME NEW w \in Asker, Stop(w) PROVE PromiseStep
  <2>1. UNCHANGED <<kind, row, key, uses, issued, late>> /\ asker' = [asker EXCEPT ![w] = AtRest]
    BY <1>3 DEF Stop, Leaves, Continues, redis, tables
  <2>2. \A s \in Secret : Phase(s)' = Phase(s) BY <2>1, PhaseKept DEF Usable, Pending
  <2>3. \A s \in Secret : ~Holds(AtRest, s) BY RestFits DEF Holds
  <2>4. CASE \A s \in Secret : ~Holds(asker[w], s)
    <3>1. \A s \in Secret : Holders(s)' = Holders(s)
      BY <1>1, <2>1, <2>3, <2>4, NothingHeld
    <3> QED BY <2>2, <3>1, PromiseKept
  <2>5. ASSUME NEW s \in Secret, Holds(asker[w], s) PROVE PromiseStep
    <3>1. \A r \in Secret : r # s => ~Holds(asker[w], r) BY <2>5 DEF Holds
    <3>2. /\ Holders(s)' = Holders(s) \ {w}
          /\ \A r \in Secret : r # s => Holders(r)' = Holders(r)
      BY <1>1, <2>1, <2>3, <3>1, HoldersMove
    <3> QED BY <2>2, <3>2, PromiseDropped
  <2> QED BY <2>4, <2>5
<1>4. CASE (\E window \in Window : WindowEnds(window)) \/ ChangeAccount
  <2>1. UNCHANGED <<kind, row, key, uses, issued, late, asker>>
    BY <1>4 DEF WindowEnds, ChangeAccount, redis, tables, history
  <2>2. \A s \in Secret : Phase(s)' = Phase(s) BY <2>1, PhaseKept DEF Usable, Pending
  <2> QED BY <2>1, <2>2, HoldersKept, PromiseKept
<1>5. ASSUME NEW s \in Secret, StartOidcAuthorization(s) PROVE PromiseStep
  <2>1. /\ kind[s] = "oidc" /\ s \notin issued /\ key' = key \cup {s}
        /\ issued' = issued \cup {s} /\ UNCHANGED <<kind, row, uses, late, asker>>
    BY <1>5 DEF StartOidcAuthorization, tables
  <2>2. uses[s] = 0 BY <1>1, <2>1 DEF SecretsInv, Secrets
  <2>3. \A r \in Secret : r # s => Phase(r)' = Phase(r)
    BY <2>1, PhaseKept DEF Usable, Pending
  <2>4. Usable(s)' BY <2>1 DEF Usable
  <2>5. Phase(s) = "unissued" /\ Phase(s)' = "open"
    BY <1>1, <2>1, <2>2, <2>4, PhaseIs, PhaseBecomes
  <2>6. \A r \in Secret : Holders(r)' = Holders(r) BY <2>1, HoldersKept
  <2> QED BY <2>3, <2>5, <2>6, PromiseIssued
<1>6. ASSUME NEW s \in Secret, TimePasses(s) \/ LoseKey(s) PROVE PromiseStep
  <2>1. /\ UNCHANGED <<kind, row, issued, uses, asker>>
        /\ key' \subseteq key /\ late \subseteq late'
        /\ \A r \in Secret : r # s => (r \in key' <=> r \in key) /\ (r \in late' <=> r \in late)
    BY <1>6 DEF TimePasses, LoseKey, redis, tables, history
  <2>2. s \in issued \/ Phase(s)' = Phase(s)
    <3>1. CASE TimePasses(s) BY <3>1 DEF TimePasses
    <3>2. CASE LoseKey(s) /\ kind[s] = "oidc"
      BY <3>2 DEF LoseKey, SecretsInv, Secrets
    <3>3. CASE LoseKey(s) /\ kind[s] # "oidc"
      <4>1. kind[s] = "reset" BY <3>3 DEF SecretsInv, Variables, Kind
      <4>2. Usable(s)' <=> Usable(s) BY <2>1, <3>3, <4>1 DEF LoseKey, Usable, Pending, history
      <4> QED BY <2>1, <4>2, PhaseKept
    <3> QED BY <1>6, <3>1, <3>2, <3>3
  <2>3. \A r \in Secret : r # s => Phase(r)' = Phase(r)
    BY <2>1, PhaseKept DEF Usable, Pending
  <2>4. \A r \in Secret : Holders(r)' = Holders(r) BY <2>1, HoldersKept
  <2>5. CASE Phase(s)' = Phase(s) BY <2>3, <2>4, <2>5, PromiseKept
  <2>6. CASE Phase(s)' # Phase(s)
    <3>1. Usable(s)' => Usable(s) BY <2>1 DEF Usable, Pending
    <3>2. Phase(s) = IF uses[s] > 0 THEN "used" ELSE IF Usable(s) THEN "open" ELSE "gone"
      BY <1>1, <2>2, <2>6, PhaseIs
    <3>3. Phase(s)' = IF uses[s] > 0 THEN "used" ELSE IF Usable(s)' THEN "open" ELSE "gone"
      BY <1>1, <2>1, <2>2, <2>6, PhaseBecomes
    <3>4. Phase(s) = "open" /\ Phase(s)' = "gone" BY <2>6, <3>1, <3>2, <3>3
    <3> QED BY <2>3, <2>4, <3>4, PromiseGivenUp
  <2> QED BY <2>5, <2>6
<1> QED BY <1>2, <1>3, <1>4, <1>5, <1>6

\* Whatever requests overlap, stop, or find Redis to have lost a key, a secret is used by
\* a request that read it while it was open, and is not open again: reset tokens of
\* confirm_password_reset and states of complete_oidc_callback.
THEOREM SecretsUsedOnce == AccountServicesSpec => ImplementsOneTimeSecret
<1>1. AccountServicesInit => Promise!Init
  <2> SUFFICES ASSUME AccountServicesInit PROVE Promise!Init OBVIOUS
  <2>1. SecretsInit BY DEF AccountServicesInit
  <2>2. \A s \in Secret : Phase(s) = "unissued" BY <2>1 DEF SecretsInit, Phase
  <2>3. \A s \in Secret : Holders(s) = {} BY <2>1, RestFits DEF SecretsInit, Holders, Doing
  <2> QED BY <2>2, <2>3 DEF Promise!Init
<1>2. SecretsInv /\ SecretsInv' /\ [AccountServicesNext]_accountVars => PromiseStep
  <2> SUFFICES ASSUME SecretsInv, SecretsInv', [AccountServicesNext]_accountVars
               PROVE  PromiseStep
    OBVIOUS
  <2>1. CASE SecretsNext
    BY <2>1, BeginPromise, ResetPromise, OidcPromise, OtherPromise DEF SecretsNext
  <2>2. CASE UNCHANGED secretsVars
    <3>1. UNCHANGED <<kind, row, key, uses, issued, late, asker>>
      BY <2>2 DEF secretsVars, redis, tables, history
    <3>2. \A s \in Secret : Phase(s)' = Phase(s) BY <3>1, PhaseKept DEF Usable, Pending
    <3> QED BY <3>1, <3>2, HoldersKept, PromiseKept
  <2> QED BY <2>1, <2>2 DEF AccountServicesNext, accountVars
<1> QED BY <1>1, <1>2, SecretsInvariance, PTL
        DEF AccountServicesSpec, ImplementsOneTimeSecret, Promise!Spec, PromiseStep, phases, holding

-----------------------------------------------------------------------------
(* The cache of permissions *)

\* What the rows say of a check, whether or not the account is active.
Held(k) ==
    \E r \in ActiveRows(k[1]) :
        \/ assignment[r].role = "super_admin"
        \/ assignment[r].scope \in {Platform, k[3]} /\ <<assignment[r].role, k[2]>> \in granted

Verdict(k) == IF Held(k) THEN "allowed" ELSE "denied"

Concerned(m, k) ==
    \/ m.op = "invalidate" /\ k \in m.concerns
    \/ m.op = "delete" /\ k \in m.keys

\* A stored answer is the verdict, or a request is to invalidate it, or could not.
StoredAnswers ==
    \A k \in Key :
        /\ cache[k] \notin {None, Verdict(k)} =>
              k \in overlapped \/ \E w \in Worker : Concerned(worker[w], k)
        /\ account[k[1]] = Absent => cache[k] = None

\* So is one about to be stored; it is not checked for an account that does not exist.
ChecksRight ==
    \A w \in Worker : worker[w].op = "check" =>
        /\ account[worker[w].key[1]] # Absent
        /\ \/ worker[w].key \in overlapped
           \/ /\ IsActive(worker[w].key[1])
              /\ worker[w].answer \in {None, Verdict(worker[w].key)}

LoadedRows == \A w \in Worker : worker[w].op = "revoke" => assignment[worker[w].row] # None

CacheInv == PermissionTypeOK /\ StoredAnswers /\ ChecksRight /\ LoadedRows

CheckWork == [op : {"check"}, key : Key, answer : Answer \cup {None}]
RevokeWork == [op : {"revoke"}, row : Row]
InvalidateWork == [op : {"invalidate"}, concerns : SUBSET Key]
DeleteWork == [op : {"delete"}, keys : SUBSET Key]

LEMMA WorkerFields ==
    ASSUME NEW m \in WorkerState
    PROVE  /\ m.op \in {"idle", "check", "revoke", "invalidate", "delete"}
           /\ m.op = "check" => m \in CheckWork
           /\ m.op = "revoke" => m \in RevokeWork
           /\ m.op = "invalidate" => m \in InvalidateWork
           /\ m.op = "delete" => m \in DeleteWork
BY DEF WorkerState, Idle, CheckWork, RevokeWork, InvalidateWork, DeleteWork

LEMMA WorkerTypes ==
    /\ Idle \in WorkerState /\ Idle.op = "idle"
    /\ CheckWork \subseteq WorkerState /\ RevokeWork \subseteq WorkerState
    /\ InvalidateWork \subseteq WorkerState /\ DeleteWork \subseteq WorkerState
BY DEF WorkerState, Idle, CheckWork, RevokeWork, InvalidateWork, DeleteWork

LEMMA KeyParts ==
    ASSUME NEW k \in Key
    PROVE  k[1] \in Account /\ k[2] \in Permission /\ k[3] \in Scope
BY PermissionAssumption

\* What a request works on.
LEMMA WorkedOn ==
    ASSUME CacheInv, NEW w \in Worker
    PROVE  /\ worker[w] \in WorkerState
           /\ worker[w].op = "check" =>
                 worker[w].key \in Key /\ worker[w].answer \in Answer \cup {None}
           /\ worker[w].op = "revoke" =>
                 worker[w].row \in Row /\ assignment[worker[w].row] \in Assignment
           /\ worker[w].op = "invalidate" => worker[w].concerns \subseteq Key
           /\ worker[w].op = "delete" => worker[w].keys \subseteq Key
<1> DEFINE m == worker[w]
<1>1. m \in WorkerState BY DEF CacheInv, PermissionTypeOK
<1>2. m.op = "revoke" => assignment[m.row] # None BY DEF CacheInv, LoadedRows
<1>3. \A r \in Row : assignment[r] # None => assignment[r] \in Assignment
  BY DEF CacheInv, PermissionTypeOK
<1>4. m = worker[w] OBVIOUS
<1> HIDE DEF m
<1>5. m.op = "check" => m.key \in Key /\ m.answer \in Answer \cup {None}
  BY <1>1, WorkerFields DEF CheckWork
<1>6. m.op = "revoke" => m.row \in Row BY <1>1, WorkerFields DEF RevokeWork
<1>7. m.op = "invalidate" => m.concerns \subseteq Key BY <1>1, WorkerFields DEF InvalidateWork
<1>8. m.op = "delete" => m.keys \subseteq Key BY <1>1, WorkerFields DEF DeleteWork
<1> QED BY <1>1, <1>2, <1>3, <1>4, <1>5, <1>6, <1>7, <1>8

\* The verdict on a check depends on the permissions and on the rows of its account.
LEMMA VerdictKept ==
    ASSUME NEW k, granted' = granted,
           \A r \in Row :
               \/ assignment'[r] = assignment[r]
               \/ /\ assignment[r] = None \/ assignment[r].account # k[1]
                  /\ assignment'[r] = None \/ assignment'[r].account # k[1]
    PROVE  Verdict(k)' = Verdict(k)
<1>1. \A r \in Row : r \in ActiveRows(k[1])' <=> r \in ActiveRows(k[1])
  BY DEF ActiveRows
<1>2. \A r \in ActiveRows(k[1]) : assignment'[r] = assignment[r]
  BY DEF ActiveRows
<1>3. ActiveRows(k[1])' = ActiveRows(k[1]) BY <1>1 DEF ActiveRows
<1>4. Held(k)' <=> Held(k) BY <1>2, <1>3 DEF Held
<1> QED BY <1>4 DEF Verdict

LEMMA Verdicts ==
    ASSUME NEW k
    PROVE  /\ Verdict(k) \in Answer /\ Truth(k) \in Answer
           /\ IsActive(k[1]) => Truth(k) = Verdict(k)
BY DEF Verdict, Held, Truth, Permitted, Answer

\* A change of rows or permissions is saved: what it concerns is to be invalidated.
LEMMA SavedStep ==
    ASSUME CacheInv, NEW w \in Worker, NEW keys \in SUBSET Key, Saved(w, keys),
           worker[w].op \notin {"invalidate", "delete"},
           account' = account, cache' = cache, roleChanges' \in 0 .. MaxRoleChanges,
           assignment' \in [Row -> Assignment \cup {None}], granted' \subseteq RolePermission,
           \A r \in Row : assignment[r] # None => assignment'[r] # None,
           \A k \in Key \ keys : Verdict(k)' = Verdict(k)
    PROVE  CacheInv'
<1> DEFINE m == [op |-> "invalidate", concerns |-> keys]
<1>1. /\ worker' = [worker EXCEPT ![w] = m] /\ overlapped' = overlapped \cup InFlight(keys)
      /\ worker \in [Worker -> WorkerState] /\ cache \in [Key -> Answer \cup {None}]
  BY DEF Saved, CacheInv, PermissionTypeOK
<1>2. m \in WorkerState /\ \A k \in keys : Concerned(m, k)
  BY WorkerTypes DEF InvalidateWork, Concerned
<1>3. \A v \in Worker : worker'[v] = IF v = w THEN m ELSE worker[v] BY <1>1
<1>4. PermissionTypeOK'
  BY <1>1, <1>2 DEF CacheInv, PermissionTypeOK, InFlight
<1>5. StoredAnswers'
  <2> SUFFICES ASSUME NEW k \in Key, cache[k] \notin {None, Verdict(k)'}
               PROVE  k \in overlapped' \/ \E v \in Worker : Concerned(worker'[v], k)
    BY DEF StoredAnswers, CacheInv
  <2>1. CASE k \in keys BY <1>2, <1>3, <2>1
  <2>2. CASE k \notin keys
    <3>1. k \in overlapped \/ \E v \in Worker : Concerned(worker[v], k)
      BY <2>2 DEF CacheInv, StoredAnswers
    <3>2. \A v \in Worker : Concerned(worker[v], k) => v # w BY DEF Concerned
    <3> QED BY <1>1, <1>3, <3>1, <3>2
  <2> QED BY <2>1, <2>2
<1>6. ChecksRight'
  <2> SUFFICES ASSUME NEW v \in Worker, worker'[v].op = "check"
               PROVE  /\ account'[worker'[v].key[1]] # Absent
                      /\ \/ worker'[v].key \in overlapped'
                         \/ /\ IsActive(worker[v].key[1])'
                            /\ worker'[v].answer \in {None, Verdict(worker[v].key)'}
    BY DEF ChecksRight
  <2>1. worker'[v] = worker[v] BY <1>3
  <2>2. PICK k \in Key : k = worker[v].key BY <2>1, WorkedOn
  <2>3. /\ account[k[1]] # Absent
        /\ k \in overlapped \/ (IsActive(k[1]) /\ worker[v].answer \in {None, Verdict(k)})
    BY <2>1, <2>2 DEF CacheInv, ChecksRight
  <2>4. CASE k \in keys
    <3>1. k \in InFlight(keys) BY <2>1, <2>2, <2>4 DEF InFlight, Checking
    <3> QED BY <1>1, <2>1, <2>2, <2>3, <3>1
  <2>5. CASE k \notin keys
    <3>1. Verdict(k)' = Verdict(k) /\ (IsActive(k[1])' <=> IsActive(k[1]))
      BY <2>5 DEF IsActive
    <3> QED BY <1>1, <2>1, <2>2, <2>3, <3>1
  <2> QED BY <2>4, <2>5
<1>7. LoadedRows'
  <2> SUFFICES ASSUME NEW v \in Worker, worker'[v].op = "revoke"
               PROVE  assignment'[worker'[v].row] # None
    BY DEF LoadedRows
  <2>1. worker'[v] = worker[v] BY <1>3
  <2> QED BY <2>1, WorkedOn DEF CacheInv, LoadedRows
<1> QED BY <1>4, <1>5, <1>6, <1>7 DEF CacheInv

\* Steps that write neither rows nor accounts.
LEMMA WorkerStep ==
    ASSUME CacheInv, NEW w \in Worker, NEW m \in WorkerState,
           worker' = [worker EXCEPT ![w] = m], UNCHANGED <<account, assignment, granted>>,
           cache' \in [Key -> Answer \cup {None}], overlapped' \subseteq Key,
           roleChanges' \in 0 .. MaxRoleChanges,
           overlapped \subseteq overlapped', m.op = "revoke" => assignment[m.row] # None,
           m.op = "check" =>
               /\ account[m.key[1]] # Absent
               /\ \/ m.key \in overlapped
                  \/ IsActive(m.key[1]) /\ m.answer \in {None, Verdict(m.key)},
           \A k \in Key :
               /\ cache'[k] \notin {None, Verdict(k)} =>
                     k \in overlapped' \/ \E v \in Worker : Concerned(worker'[v], k)
               /\ account[k[1]] = Absent => cache'[k] = None
    PROVE  CacheInv'
<1>1. \A v \in Worker : worker'[v] = IF v = w THEN m ELSE worker[v]
  BY DEF CacheInv, PermissionTypeOK
<1>2. PermissionTypeOK' BY DEF CacheInv, PermissionTypeOK
<1>3. ASSUME NEW k PROVE Verdict(k)' = Verdict(k) /\ (IsActive(k[1])' <=> IsActive(k[1]))
  BY VerdictKept DEF IsActive
<1>4. StoredAnswers' BY <1>3 DEF StoredAnswers
<1>5. ChecksRight'
  <2> SUFFICES ASSUME NEW v \in Worker, worker'[v].op = "check"
               PROVE  /\ account'[worker'[v].key[1]] # Absent
                      /\ \/ worker'[v].key \in overlapped'
                         \/ /\ IsActive(worker[v].key[1])'
                            /\ worker'[v].answer \in {None, Verdict(worker[v].key)'}
    BY DEF ChecksRight
  <2>1. PICK k : k = worker'[v].key OBVIOUS
  <2>2. /\ account[k[1]] # Absent
        /\ \/ k \in overlapped
           \/ IsActive(k[1]) /\ worker'[v].answer \in {None, Verdict(k)}
    BY <1>1, <2>1 DEF CacheInv, ChecksRight
  <2>3. Verdict(k)' = Verdict(k) /\ (IsActive(k[1])' <=> IsActive(k[1])) BY <1>3
  <2> QED BY <2>1, <2>2, <2>3
<1>6. LoadedRows' BY <1>1 DEF CacheInv, LoadedRows
<1> QED BY <1>2, <1>4, <1>5, <1>6 DEF CacheInv

LEMMA CheckSteps ==
    ASSUME CacheInv, NEW w \in Worker,
           \/ \E k \in Key : CheckMiss(w, k)
           \/ CheckRead(w) \/ CheckStore(w)
           \/ \E r \in Row : LoadAssignment(w, r)
    PROVE  CacheInv'
<1> USE PermissionAssumption
<1>1. /\ worker \in [Worker -> WorkerState] /\ cache \in [Key -> Answer \cup {None}]
      /\ overlapped \subseteq Key /\ roleChanges \in 0 .. MaxRoleChanges
      /\ UNCHANGED <<account, assignment, granted, overlapped>>
      /\ worker[w].op \notin {"invalidate", "delete"}
  BY WorkerTypes
     DEF CacheInv, PermissionTypeOK, CheckMiss, CheckRead, CheckStore, LoadAssignment
<1>2. ASSUME NEW m, worker' = [worker EXCEPT ![w] = m], NEW k \in Key,
             k \in overlapped \/ \E v \in Worker : Concerned(worker[v], k)
      PROVE  k \in overlapped \/ \E v \in Worker : Concerned(worker'[v], k)
  BY <1>1, <1>2 DEF Concerned
<1>3. ASSUME NEW k \in Key, CheckMiss(w, k) PROVE CacheInv'
  <2> DEFINE m == [op |-> "check", key |-> k, answer |-> None]
  <2>1. /\ worker' = [worker EXCEPT ![w] = m] /\ cache' = cache /\ roleChanges' = roleChanges
        /\ IsActive(k[1])
    BY <1>3 DEF CheckMiss
  <2>2. m \in WorkerState BY WorkerTypes DEF CheckWork
  <2>3. account[k[1]] # Absent BY <2>1 DEF IsActive, Absent
  <2>4. \A j \in Key :
            /\ cache'[j] \notin {None, Verdict(j)} =>
                  j \in overlapped' \/ \E v \in Worker : Concerned(worker'[v], j)
            /\ account[j[1]] = Absent => cache'[j] = None
    BY <1>1, <1>2, <2>1 DEF CacheInv, StoredAnswers
  <2> HIDE DEF m
  <2>5. m.op = "check" /\ m.key = k /\ m.answer = None BY DEF m
  <2> QED BY <1>1, <2>1, <2>2, <2>3, <2>4, <2>5, WorkerStep
<1>4. CASE CheckRead(w)
  <2>1. PICK k \in Key : k = worker[w].key BY <1>4, WorkedOn DEF CheckRead
  <2> DEFINE r == worker[w]
             m == [r EXCEPT !.answer = Truth(k)]
  <2>2. /\ worker' = [worker EXCEPT ![w] = m] /\ cache' = cache /\ roleChanges' = roleChanges
        /\ r.op = "check" /\ r \in WorkerState
    BY <1>1, <1>4, <2>1 DEF CheckRead
  <2>3. r \in CheckWork /\ r.key = k BY <2>1, <2>2, WorkerFields
  <2>4. /\ account[k[1]] # Absent
        /\ k \in overlapped \/ IsActive(k[1])
    BY <2>1, <2>2 DEF CacheInv, ChecksRight
  <2> HIDE DEF r
  <2>5. m \in CheckWork /\ m.op = "check" /\ m.key = k /\ m.answer = Truth(k)
    BY <2>2, <2>3, Verdicts DEF CheckWork
  <2> HIDE DEF m
  <2>6. k \in overlapped \/ (IsActive(k[1]) /\ m.answer = Verdict(k))
    BY <2>4, <2>5, Verdicts
  <2>7. \A j \in Key :
            /\ cache'[j] \notin {None, Verdict(j)} =>
                  j \in overlapped' \/ \E v \in Worker : Concerned(worker'[v], j)
            /\ account[j[1]] = Absent => cache'[j] = None
    BY <1>1, <1>2, <2>2 DEF CacheInv, StoredAnswers
  <2>8. m \in WorkerState BY <2>5, WorkerTypes
  <2> QED BY <1>1, <2>2, <2>4, <2>5, <2>6, <2>7, <2>8, WorkerStep
<1>5. CASE CheckStore(w)
  <2>1. PICK k \in Key : k = worker[w].key BY <1>5, WorkedOn DEF CheckStore
  <2>2. PICK answer \in Answer : answer = worker[w].answer
    BY <1>5, WorkedOn DEF CheckStore
  <2>3. /\ worker' = [worker EXCEPT ![w] = Idle] /\ roleChanges' = roleChanges
        /\ cache' = cache \/ cache' = [cache EXCEPT ![k] = answer]
        /\ worker[w].op = "check"
    BY <1>5, <2>1, <2>2 DEF CheckStore
  <2>4. /\ account[k[1]] # Absent
        /\ k \in overlapped \/ answer = Verdict(k)
    BY <2>1, <2>2, <2>3 DEF CacheInv, ChecksRight
  <2>5. \A j \in Key :
            /\ cache'[j] \notin {None, Verdict(j)} =>
                  j \in overlapped' \/ \E v \in Worker : Concerned(worker'[v], j)
            /\ account[j[1]] = Absent => cache'[j] = None
    BY <1>1, <1>2, <2>3, <2>4 DEF CacheInv, StoredAnswers
  <2>6. cache' \in [Key -> Answer \cup {None}] BY <1>1, <2>3
  <2> QED BY <1>1, <2>3, <2>5, <2>6, WorkerTypes, WorkerStep
<1>6. ASSUME NEW r \in Row, LoadAssignment(w, r) PROVE CacheInv'
  <2> DEFINE m == [op |-> "revoke", row |-> r]
  <2>1. /\ worker' = [worker EXCEPT ![w] = m] /\ cache' = cache /\ assignment[r] # None
        /\ roleChanges' \in 0 .. MaxRoleChanges
    BY <1>1, <1>6 DEF LoadAssignment, BeginChange
  <2>2. m \in WorkerState BY WorkerTypes DEF RevokeWork
  <2>3. \A j \in Key :
            /\ cache'[j] \notin {None, Verdict(j)} =>
                  j \in overlapped' \/ \E v \in Worker : Concerned(worker'[v], j)
            /\ account[j[1]] = Absent => cache'[j] = None
    BY <1>1, <1>2, <2>1 DEF CacheInv, StoredAnswers
  <2> HIDE DEF m
  <2>4. m.op = "revoke" /\ m.row = r BY DEF m
  <2> QED BY <1>1, <2>1, <2>2, <2>3, <2>4, WorkerStep
<1> QED BY <1>3, <1>4, <1>5, <1>6

LEMMA ExpireStep ==
    ASSUME CacheInv, NEW k \in Key, Expire(k)
    PROVE  CacheInv'
<1>1. /\ cache' = [cache EXCEPT ![k] = None]
      /\ overlapped' = IF \E w \in Worker : Checking(w, k) THEN overlapped ELSE overlapped \ {k}
      /\ UNCHANGED <<account, assignment, granted, worker, roleChanges>>
      /\ cache \in [Key -> Answer \cup {None}]
  BY DEF Expire, CacheInv, PermissionTypeOK
<1>2. PermissionTypeOK' BY <1>1 DEF CacheInv, PermissionTypeOK
<1>3. ASSUME NEW j PROVE Verdict(j)' = Verdict(j) /\ (IsActive(j[1])' <=> IsActive(j[1]))
  BY <1>1, VerdictKept DEF IsActive
<1>4. StoredAnswers' BY <1>1, <1>3 DEF CacheInv, StoredAnswers
<1>5. ChecksRight'
  <2> SUFFICES ASSUME NEW v \in Worker, worker[v].op = "check"
               PROVE  /\ account[worker[v].key[1]] # Absent
                      /\ \/ worker[v].key \in overlapped'
                         \/ /\ IsActive(worker[v].key[1])'
                            /\ worker[v].answer \in {None, Verdict(worker[v].key)'}
    BY <1>1 DEF ChecksRight
  <2>1. PICK j : j = worker[v].key OBVIOUS
  <2>2. j = k => \E w \in Worker : Checking(w, k) BY <2>1 DEF Checking
  <2>3. Verdict(j)' = Verdict(j) /\ (IsActive(j[1])' <=> IsActive(j[1])) BY <1>3
  <2> QED BY <1>1, <2>1, <2>2, <2>3 DEF CacheInv, ChecksRight
<1>6. LoadedRows' BY <1>1 DEF CacheInv, LoadedRows
<1> QED BY <1>2, <1>4, <1>5, <1>6 DEF CacheInv

LEMMA InvalidationSteps ==
    ASSUME CacheInv, NEW w \in Worker, Scan(w) \/ Delete(w) \/ InvalidationFails(w)
    PROVE  CacheInv'
<1>1. /\ worker \in [Worker -> WorkerState] /\ cache \in [Key -> Answer \cup {None}]
      /\ overlapped \subseteq Key /\ roleChanges \in 0 .. MaxRoleChanges
      /\ UNCHANGED <<account, assignment, granted, roleChanges>>
  BY DEF CacheInv, PermissionTypeOK, Scan, Delete, InvalidationFails
<1>2. \A k \in Key :
          /\ cache[k] \notin {None, Verdict(k)} =>
                k \in overlapped \/ \E v \in Worker : Concerned(worker[v], k)
          /\ account[k[1]] = Absent => cache[k] = None
  BY DEF CacheInv, StoredAnswers
<1>3. CASE Scan(w)
  <2> DEFINE keys == {k \in worker[w].concerns : cache[k] # None}
             m == [op |-> "delete", keys |-> keys]
  <2>1. /\ worker' = [worker EXCEPT ![w] = m] /\ cache' = cache /\ overlapped' = overlapped
        /\ worker[w].op = "invalidate" /\ worker[w].concerns \subseteq Key
    BY <1>3, WorkedOn DEF Scan
  <2>2. m \in WorkerState
    <3>1. keys \in SUBSET Key BY <2>1
    <3> HIDE DEF keys
    <3> QED BY <3>1, WorkerTypes DEF DeleteWork
  <2>3. ASSUME NEW k \in Key, Concerned(worker[w], k), cache[k] # None PROVE Concerned(m, k)
    BY <2>1, <2>3 DEF Concerned
  <2> HIDE DEF keys
  <2>4. m.op = "delete" OBVIOUS
  <2> HIDE DEF m
  <2>5. \A v \in Worker : worker'[v] = IF v = w THEN m ELSE worker[v] BY <1>1, <2>1
  <2>6. \A k \in Key :
            /\ cache'[k] \notin {None, Verdict(k)} =>
                  k \in overlapped' \/ \E v \in Worker : Concerned(worker'[v], k)
            /\ account[k[1]] = Absent => cache'[k] = None
    BY <1>2, <2>1, <2>3, <2>5
  <2> QED BY <1>1, <2>1, <2>2, <2>4, <2>6, WorkerStep
<1>4. CASE Delete(w)
  <2>1. /\ cache' = [k \in Key |-> IF k \in worker[w].keys THEN None ELSE cache[k]]
        /\ worker' = [worker EXCEPT ![w] = Idle] /\ overlapped' = overlapped
        /\ worker[w].op = "delete"
    BY <1>4 DEF Delete
  <2>2. cache' \in [Key -> Answer \cup {None}] BY <1>1, <2>1
  <2>3. \A v \in Worker : v # w => worker'[v] = worker[v] BY <1>1, <2>1
  <2>4. \A k \in Key :
            /\ cache'[k] \notin {None, Verdict(k)} =>
                  k \in overlapped' \/ \E v \in Worker : Concerned(worker'[v], k)
            /\ account[k[1]] = Absent => cache'[k] = None
    BY <1>2, <2>1, <2>3 DEF Concerned
  <2> QED BY <1>1, <2>1, <2>2, <2>4, WorkerTypes, WorkerStep
<1>5. CASE InvalidationFails(w)
  <2>1. /\ overlapped' = overlapped \cup
              (IF worker[w].op = "delete" THEN worker[w].keys ELSE worker[w].concerns)
        /\ worker' = [worker EXCEPT ![w] = Idle] /\ cache' = cache
        /\ worker[w].op \in {"invalidate", "delete"}
    BY <1>5 DEF InvalidationFails
  <2>2. overlapped' \subseteq Key BY <1>1, <2>1, WorkedOn
  <2>3. \A v \in Worker : v # w => worker'[v] = worker[v] BY <1>1, <2>1
  <2>4. \A k \in Key :
            /\ cache'[k] \notin {None, Verdict(k)} =>
                  k \in overlapped' \/ \E v \in Worker : Concerned(worker'[v], k)
            /\ account[k[1]] = Absent => cache'[k] = None
    BY <1>2, <2>1, <2>3 DEF Concerned
  <2> QED BY <1>1, <2>1, <2>2, <2>4, WorkerTypes, WorkerStep
<1> QED BY <1>3, <1>4, <1>5

\* A row is added, of the account, or none is.
LEMMA UpsertRows ==
    ASSUME assignment \in [Row -> Assignment \cup {None}],
           NEW a \in Account, NEW role \in Role, NEW scope \in Scope, Upsert(a, role, scope)
    PROVE  /\ assignment' \in [Row -> Assignment \cup {None}]
           /\ \A r \in Row :
                 /\ assignment[r] # None => assignment'[r] = assignment[r]
                 /\ assignment'[r] # None /\ assignment'[r] # assignment[r] =>
                       assignment'[r].account = a
<1>1. CASE UNCHANGED assignment BY <1>1
<1>2. ASSUME NEW r \in Row, assignment[r] = None,
             assignment' = [assignment EXCEPT ![r] =
                [account |-> a, role |-> role, scope |-> scope, revoked |-> FALSE]]
      PROVE  /\ assignment' \in [Row -> Assignment \cup {None}]
             /\ \A q \in Row :
                   /\ assignment[q] # None => assignment'[q] = assignment[q]
                   /\ assignment'[q] # None /\ assignment'[q] # assignment[q] =>
                         assignment'[q].account = a
  <2> DEFINE new == [account |-> a, role |-> role, scope |-> scope, revoked |-> FALSE]
  <2>1. new \in Assignment /\ new.account = a BY DEF Assignment
  <2>2. assignment' = [assignment EXCEPT ![r] = new] BY <1>2
  <2> HIDE DEF new
  <2> QED BY <1>2, <2>1, <2>2
<1> QED BY <1>1, <1>2 DEF Upsert

LEMMA RoleSteps ==
    ASSUME CacheInv, NEW w \in Worker,
           \/ \E q \in AssignmentRequest : Assign(w, q)
           \/ RevokeAssignment(w)
           \/ \E role \in Role, p \in Permission :
                GrantPermission(w, role, p) \/ WithdrawPermission(w, role, p)
    PROVE  CacheInv'
<1> USE PermissionAssumption
<1>1. /\ assignment \in [Row -> Assignment \cup {None}] /\ granted \subseteq RolePermission
      /\ roleChanges \in 0 .. MaxRoleChanges
  BY DEF CacheInv, PermissionTypeOK
<1>2. ASSUME BeginChange PROVE roleChanges' \in 0 .. MaxRoleChanges
  BY <1>1, <1>2 DEF BeginChange
<1>3. ASSUME NEW a PROVE KeysOf(a) \in SUBSET Key /\ \A k \in Key \ KeysOf(a) : k[1] # a
  BY DEF KeysOf
<1>4. ASSUME NEW q \in AssignmentRequest, Assign(w, q) PROVE CacheInv'
  <2>1. q.account \in Account /\ q.role \in Role /\ q.scope \in Scope
    BY DEF AssignmentRequest, RoleAssignmentRequest
  <2>2. /\ assignment' \in [Row -> Assignment \cup {None}]
        /\ \A r \in Row :
              /\ assignment[r] # None => assignment'[r] = assignment[r]
              /\ assignment'[r] # None /\ assignment'[r] # assignment[r] =>
                    assignment'[r].account = q.account
    BY <1>1, <1>4, <2>1, UpsertRows DEF Assign
  <2>3. \A k \in Key \ KeysOf(q.account) : Verdict(k)' = Verdict(k)
    <3> SUFFICES ASSUME NEW k \in Key, k[1] # q.account PROVE Verdict(k)' = Verdict(k)
      BY <1>3
    <3>1. granted' = granted BY <1>4 DEF Assign
    <3>2. \A r \in Row :
              \/ assignment'[r] = assignment[r]
              \/ /\ assignment[r] = None \/ assignment[r].account # k[1]
                 /\ assignment'[r] = None \/ assignment'[r].account # k[1]
      BY <2>2
    <3> QED BY <3>1, <3>2, VerdictKept
  <2>4. Saved(w, KeysOf(q.account)) /\ worker[w] = Idle BY <1>4 DEF Assign
  <2> QED BY <1>1, <1>2, <1>3, <1>4, <2>2, <2>3, <2>4, WorkerTypes, SavedStep DEF Assign
<1>5. CASE RevokeAssignment(w)
  <2>1. PICK r \in Row : r = worker[w].row /\ assignment[r] \in Assignment
    BY <1>5, WorkedOn DEF RevokeAssignment
  <2> DEFINE old == assignment[r]
             new == [old EXCEPT !.revoked = TRUE]
  <2>2. /\ assignment' = [assignment EXCEPT ![r] = new]
        /\ Saved(w, KeysOf(old.account)) /\ worker[w].op = "revoke"
        /\ UNCHANGED <<account, granted, cache, roleChanges>>
    BY <1>5, <2>1 DEF RevokeAssignment
  <2>3. old \in Assignment BY <2>1
  <2>4. old = assignment[r] OBVIOUS
  <2> HIDE DEF old
  <2>5. new \in Assignment /\ new.account = old.account /\ new # None
    BY <2>3, AssignmentAssumption DEF Assignment
  <2> HIDE DEF new
  <2>6. /\ assignment' \in [Row -> Assignment \cup {None}]
        /\ \A q \in Row : /\ assignment[q] # None => assignment'[q] # None
                          /\ q # r => assignment'[q] = assignment[q]
    BY <1>1, <2>2, <2>5
  <2>7. PICK a : a = old.account OBVIOUS
  <2>8. \A k \in Key \ KeysOf(a) : Verdict(k)' = Verdict(k)
    <3> SUFFICES ASSUME NEW k \in Key, k[1] # a PROVE Verdict(k)' = Verdict(k)
      BY <1>3
    <3>1. assignment[r].account # k[1] /\ assignment'[r].account # k[1]
      BY <1>1, <2>2, <2>4, <2>5, <2>7
    <3>2. \A q \in Row :
              \/ assignment'[q] = assignment[q]
              \/ /\ assignment[q] = None \/ assignment[q].account # k[1]
                 /\ assignment'[q] = None \/ assignment'[q].account # k[1]
      BY <2>6, <3>1
    <3> QED BY <2>2, <3>2, VerdictKept
  <2>9. Saved(w, KeysOf(a)) BY <2>2, <2>7
  <2> QED BY <1>1, <1>3, <2>2, <2>6, <2>8, <2>9, SavedStep
<1>6. ASSUME NEW role \in Role, NEW p \in Permission,
             GrantPermission(w, role, p) \/ WithdrawPermission(w, role, p)
      PROVE  CacheInv'
  <2>1. granted' \subseteq RolePermission
    BY <1>1, <1>6 DEF GrantPermission, WithdrawPermission, RolePermission
  <2>2. /\ Saved(w, Key) /\ worker[w] = Idle /\ roleChanges' \in 0 .. MaxRoleChanges
        /\ UNCHANGED <<account, assignment, cache>>
    BY <1>2, <1>6 DEF GrantPermission, WithdrawPermission
  <2> QED BY <1>1, <2>1, <2>2, WorkerTypes, SavedStep
<1> QED BY <1>4, <1>5, <1>6

\* An account that exists goes on to exist, and one that is deleted stays deleted.
Grown ==
    /\ account' \in [Account -> AccountRow]
    /\ \A a \in Account : account[a] # Absent =>
          account'[a] # Absent /\ (account[a].deleted => account'[a].deleted)

\* A change of one account concerns the checks in progress, and its cached answers are
\* right but for its being active.
LEMMA AccountStep ==
    ASSUME CacheInv, NEW a \in Account, NEW new \in AccountRow, new # Absent,
           account' = [account EXCEPT ![a] = new],
           assignment' \in [Row -> Assignment \cup {None}],
           \A r \in Row : assignment[r] # None => assignment'[r] = assignment[r],
           \A r \in Row : assignment'[r] # None /\ assignment'[r] # assignment[r] =>
               account[a] = Absent /\ assignment'[r].account = a,
           UNCHANGED <<granted, cache, worker>>, roleChanges' \in 0 .. MaxRoleChanges,
           \/ account[a] = Absent /\ overlapped' = overlapped
           \/ overlapped' = overlapped \cup InFlight(KeysOf(a))
    PROVE  CacheInv'
<1>1. account \in [Account -> AccountRow]
  BY DEF CacheInv, PermissionTypeOK
<1>2. \A b \in Account : account'[b] = IF b = a THEN new ELSE account[b] BY <1>1
<1>3. overlapped \subseteq overlapped' /\ overlapped' \subseteq Key
  BY DEF CacheInv, PermissionTypeOK, InFlight, KeysOf
<1>4. PermissionTypeOK' BY <1>1, <1>3 DEF CacheInv, PermissionTypeOK
<1>5. ASSUME NEW k \in Key, account[k[1]] # Absent PROVE Verdict(k)' = Verdict(k)
  <2>1. \A r \in Row :
            \/ assignment'[r] = assignment[r]
            \/ /\ assignment[r] = None \/ assignment[r].account # k[1]
               /\ assignment'[r] = None \/ assignment'[r].account # k[1]
    BY <1>5
  <2> QED BY <2>1, VerdictKept
<1>6. StoredAnswers'
  <2> SUFFICES ASSUME NEW k \in Key
               PROVE  /\ cache[k] \notin {None, Verdict(k)'} =>
                            k \in overlapped' \/ \E v \in Worker : Concerned(worker[v], k)
                      /\ account'[k[1]] = Absent => cache[k] = None
    BY DEF StoredAnswers
  <2>1. CASE account[k[1]] = Absent BY <2>1 DEF CacheInv, StoredAnswers
  <2>2. CASE account[k[1]] # Absent
    <3>1. account'[k[1]] # Absent BY <1>2, <2>2, KeyParts
    <3>2. Verdict(k)' = Verdict(k) BY <1>5, <2>2
    <3> QED BY <1>3, <3>1, <3>2 DEF CacheInv, StoredAnswers
  <2> QED BY <2>1, <2>2
<1>7. ChecksRight'
  <2> SUFFICES ASSUME NEW v \in Worker, worker[v].op = "check"
               PROVE  /\ account'[worker[v].key[1]] # Absent
                      /\ \/ worker[v].key \in overlapped'
                         \/ /\ IsActive(worker[v].key[1])'
                            /\ worker[v].answer \in {None, Verdict(worker[v].key)'}
    BY DEF ChecksRight
  <2>1. PICK k \in Key : k = worker[v].key BY WorkedOn
  <2>2. /\ account[k[1]] # Absent
        /\ \/ k \in overlapped
           \/ IsActive(k[1]) /\ worker[v].answer \in {None, Verdict(k)}
    BY <2>1 DEF CacheInv, ChecksRight
  <2>3. account'[k[1]] # Absent /\ Verdict(k)' = Verdict(k) BY <1>2, <1>5, <2>2, KeyParts
  <2>4. worker'[v].key = k BY <2>1
  <2>5. CASE k[1] = a
    <3>1. k \in InFlight(KeysOf(a)) BY <2>1, <2>5 DEF InFlight, KeysOf, Checking
    <3> QED BY <2>1, <2>2, <2>3, <2>5, <3>1
  <2>6. CASE k[1] # a
    <3>1. IsActive(k[1])' <=> IsActive(k[1]) BY <1>2, <2>6, KeyParts DEF IsActive
    <3> QED BY <1>3, <2>1, <2>2, <2>3, <2>4, <3>1
  <2> QED BY <2>5, <2>6
<1>8. LoadedRows'
  <2>1. \A v \in Worker : worker[v].op = "revoke" =>
            worker[v].row \in Row /\ assignment[worker[v].row] # None
    BY WorkedOn DEF CacheInv, LoadedRows
  <2> QED BY <2>1 DEF LoadedRows
<1> QED BY <1>4, <1>6, <1>7, <1>8 DEF CacheInv

LEMMA AccountSteps ==
    ASSUME CacheInv, NEW a \in Account,
           \/ \E q \in AccountRequest : CreateAccount(a, q)
           \/ DeactivateAccount(a)
           \/ \E status \in StatusRequest : UpdateStatus(a, status)
    PROVE  /\ CacheInv' /\ Grown /\ account'[a] # Absent
           /\ \A b \in Account : b # a => account'[b] = account[b]
<1>1. /\ account \in [Account -> AccountRow] /\ assignment \in [Row -> Assignment \cup {None}]
      /\ roleChanges \in 0 .. MaxRoleChanges /\ MaxRoleChanges \in Nat
  BY PermissionAssumption DEF CacheInv, PermissionTypeOK
<1>2. ASSUME NEW new \in AccountRow, new # Absent, account' = [account EXCEPT ![a] = new],
             account[a] # Absent /\ account[a].deleted => new.deleted
      PROVE  /\ Grown /\ account'[a] # Absent
             /\ \A b \in Account : b # a => account'[b] = account[b]
  BY <1>1, <1>2 DEF Grown
<1>3. ASSUME NEW q \in AccountRequest, CreateAccount(a, q)
      PROVE  /\ CacheInv' /\ Grown /\ account'[a] # Absent
             /\ \A b \in Account : b # a => account'[b] = account[b]
  <2> DEFINE new == [status |-> "active", deleted |-> FALSE]
  <2>1. new \in AccountRow /\ new # Absent BY DEF AccountRow, Status, Absent
  <2>2. /\ account[a] = Absent /\ account' = [account EXCEPT ![a] = new]
        /\ UNCHANGED <<granted, cache, worker, overlapped, roleChanges>>
    BY <1>3 DEF CreateAccount
  <2>3. q.role \in Role /\ q.scope \in Scope BY DEF AccountRequest
  <2>4. /\ assignment' \in [Row -> Assignment \cup {None}]
        /\ \A r \in Row :
              /\ assignment[r] # None => assignment'[r] = assignment[r]
              /\ assignment'[r] # None /\ assignment'[r] # assignment[r] =>
                    assignment'[r].account = a
    BY <1>1, <1>3, <2>3, UpsertRows DEF CreateAccount
  <2> HIDE DEF new
  <2>5. CacheInv' BY <1>1, <2>1, <2>2, <2>4, AccountStep
  <2> QED BY <1>2, <2>1, <2>2, <2>5
<1>4. CASE DeactivateAccount(a)
  <2> DEFINE new == [status |-> "deactivated", deleted |-> TRUE]
  <2>1. new \in AccountRow /\ new # Absent /\ new.deleted BY DEF AccountRow, Status, Absent
  <2>2. /\ account' = [account EXCEPT ![a] = new]
        /\ UNCHANGED <<assignment, granted, cache, worker, roleChanges>>
        /\ overlapped' = overlapped \cup InFlight(KeysOf(a))
    BY <1>4 DEF DeactivateAccount, SaveAccount
  <2> HIDE DEF new
  <2>3. CacheInv' BY <1>1, <2>1, <2>2, AccountStep
  <2> QED BY <1>2, <2>1, <2>2, <2>3
<1>5. ASSUME NEW status \in StatusRequest, UpdateStatus(a, status)
      PROVE  /\ CacheInv' /\ Grown /\ account'[a] # Absent
             /\ \A b \in Account : b # a => account'[b] = account[b]
  <2> DEFINE new == [status |-> status,
                     deleted |-> account[a].deleted \/ status = "deactivated"]
  <2>1. new \in AccountRow /\ new # Absent /\ (account[a].deleted => new.deleted)
    <3>1. account[a].deleted \in BOOLEAN BY <1>1 DEF AccountRow
    <3>2. status \in Status /\ status # "absent" BY DEF StatusRequest
    <3>3. new.status = status /\ Absent.status = "absent" BY DEF Absent
    <3>4. new # Absent BY <3>2, <3>3
    <3>5. (account[a].deleted \/ status = "deactivated") \in BOOLEAN OBVIOUS
    <3> QED BY <3>1, <3>2, <3>4, <3>5 DEF AccountRow
  <2>2. /\ account' = [account EXCEPT ![a] = new]
        /\ UNCHANGED <<assignment, granted, cache, worker>>
        /\ roleChanges' \in 0 .. MaxRoleChanges
        /\ overlapped' = overlapped \cup InFlight(KeysOf(a))
    BY <1>1, <1>5 DEF UpdateStatus, BeginChange
  <2> HIDE DEF new
  <2>3. CacheInv' BY <1>1, <2>1, <2>2, AccountStep
  <2> QED BY <1>2, <2>1, <2>2, <2>3
<1> QED BY <1>3, <1>4, <1>5

LEMMA PermissionSteps ==
    ASSUME CacheInv, PermissionNext
    PROVE  CacheInv' /\ account' = account
<1>1. CacheInv' BY CheckSteps, RoleSteps, InvalidationSteps, ExpireStep DEF PermissionNext
<1>2. account' = account
  BY DEF PermissionNext, CheckMiss, CheckRead, CheckStore, Assign, LoadAssignment,
         RevokeAssignment, GrantPermission, WithdrawPermission, Scan, Delete, InvalidationFails,
         Expire
<1> QED BY <1>1, <1>2

LEMMA CacheKept ==
    ASSUME CacheInv, UNCHANGED permissionVars
    PROVE  CacheInv'
<1>1. UNCHANGED <<account, assignment, granted, cache, worker, overlapped, roleChanges>>
  BY DEF permissionVars
<1> QED BY <1>1 DEF CacheInv, PermissionTypeOK, StoredAnswers, ChecksRight, LoadedRows, Verdict,
                    Held, ActiveRows, IsActive, Concerned

\* What the invariant says of the property.
LEMMA CacheImplied ==
    ASSUME CacheInv
    PROVE  CacheAgrees
<1> SUFFICES ASSUME NEW k \in Key, cache[k] \notin {None, Truth(k)}, IsActive(k[1])
             PROVE  k \in overlapped \/ \E w \in Worker : Concerned(worker[w], k)
  BY DEF CacheAgrees, Concerned
<1>1. Truth(k) = Verdict(k) BY Verdicts
<1> QED BY <1>1 DEF CacheInv, StoredAnswers

-----------------------------------------------------------------------------
(* Profiles and their accounts *)

CreateWork == [op : {"create"}, step : {"call", "store", "undo"}, account : Account, new : Profile]
DeactivateWork == [op : {"deactivate"}, step : {"call", "save"}, account : Account]
UpdateWork == [op : {"update"}, account : Account, copy : Profile]
UnitWork == [op : {"unit"}, unit : Unit]

Consistent(p) == p.section # None => p.institution \in {Platform, Home[p.section]}

\* What a request remembers agrees with the profile it works on.
Agrees(rows, m) ==
    /\ m \in ClerkState
    /\ m.op = "create" => ~m.new.deleted
    /\ m.op = "deactivate" => rows[m.account] # None
    /\ m.op = "update" =>
          /\ rows[m.account] # None
          /\ ~m.copy.deleted /\ Consistent(m.copy)
          /\ m.copy.institution = rows[m.account].institution

\* The account is created and its profile is not.
Creating(m, a) == m.op = "create" /\ m.step \in {"store", "undo"} /\ m.account = a

\* The account is deactivated and its profile is not.
Saving(m, a) == m.op = "deactivate" /\ m.step = "save" /\ m.account = a

ClerkVariables ==
    /\ profile \in [Account -> Profile \cup {None}]
    /\ unit \in [Unit -> UnitState]
    /\ clerk \in [Clerk -> ClerkState]
    /\ authorized \in BOOLEAN
    /\ divided \subseteq Account /\ replaced \subseteq Account
    /\ started \in 0 .. MaxStarted

\* One request creates an account at a time, and knows that it is there.
Clerks ==
    /\ \A c \in Clerk : Agrees(profile, clerk[c])
    /\ \A c \in Clerk, a \in Account : Creating(clerk[c], a) =>
          /\ account[a] # Absent /\ profile[a] = None
          /\ account[a].deleted => a \in divided
    /\ \A b, c \in Clerk, a \in Account : Creating(clerk[b], a) /\ Creating(clerk[c], a) => b = c
    /\ \A c \in Clerk, a \in Account : Saving(clerk[c], a) => account[a].deleted

\* The two rows of an account, and who is to make them agree.
Rows ==
    \A a \in Account :
        /\ account[a] = Absent => profile[a] = None /\ a \notin divided \cup replaced
        /\ account[a] # Absent /\ ~account[a].deleted /\ profile[a] = None =>
              a \in divided \/ \E c \in Clerk : Creating(clerk[c], a)
        /\ profile[a] # None /\ profile[a].deleted => account[a].deleted
        /\ profile[a] # None /\ account[a].deleted /\ ~profile[a].deleted =>
              a \in divided \cup replaced \/ \E c \in Clerk : Saving(clerk[c], a)
        /\ profile[a] # None => Consistent(profile[a])

ProfilesInv == ClerkVariables /\ Clerks /\ Rows

LEMMA ClerkFields ==
    ASSUME NEW m \in ClerkState
    PROVE  /\ m.op \in {"resting", "create", "deactivate", "update", "unit"}
           /\ m.op = "create" => m \in CreateWork
           /\ m.op = "deactivate" => m \in DeactivateWork
           /\ m.op = "update" => m \in UpdateWork
           /\ m.op = "unit" => m \in UnitWork
BY DEF ClerkState, Resting, CreateWork, DeactivateWork, UpdateWork, UnitWork

LEMMA ClerkTypes ==
    /\ Resting \in ClerkState /\ Resting.op = "resting"
    /\ CreateWork \subseteq ClerkState /\ DeactivateWork \subseteq ClerkState
    /\ UpdateWork \subseteq ClerkState /\ UnitWork \subseteq ClerkState
BY DEF ClerkState, Resting, CreateWork, DeactivateWork, UpdateWork, UnitWork

LEMMA ClerkWork ==
    ASSUME ProfilesInv, NEW c \in Clerk
    PROVE  /\ clerk[c] \in ClerkState /\ Agrees(profile, clerk[c])
           /\ clerk[c].op \in {"create", "deactivate", "update"} => clerk[c].account \in Account
           /\ clerk[c].op = "create" => clerk[c].new \in Profile
           /\ clerk[c].op = "update" => clerk[c].copy \in Profile
           /\ clerk[c].op = "unit" => clerk[c].unit \in Unit
<1> DEFINE m == clerk[c]
<1>1. m \in ClerkState /\ Agrees(profile, m) BY DEF ProfilesInv, ClerkVariables, Clerks
<1>2. m = clerk[c] OBVIOUS
<1> HIDE DEF m
<1>3. m.op = "create" => m.account \in Account /\ m.new \in Profile
  BY <1>1, ClerkFields DEF CreateWork
<1>4. m.op = "deactivate" => m.account \in Account BY <1>1, ClerkFields DEF DeactivateWork
<1>5. m.op = "update" => m.account \in Account /\ m.copy \in Profile
  BY <1>1, ClerkFields DEF UpdateWork
<1>6. m.op = "unit" => m.unit \in Unit BY <1>1, ClerkFields DEF UnitWork
<1> QED BY <1>1, <1>2, <1>3, <1>4, <1>5, <1>6

\* What holds of a request goes on to hold while no profile disappears and none changes
\* its institution.
LEMMA AgreesKept ==
    ASSUME NEW m, Agrees(profile, m), NEW rows,
           \A a \in Account : profile[a] # None =>
               rows[a] # None /\ rows[a].institution = profile[a].institution
    PROVE  Agrees(rows, m)
<1>1. m \in ClerkState BY DEF Agrees
<1>2. m.op \in {"deactivate", "update"} => m.account \in Account
  BY <1>1, ClerkFields DEF DeactivateWork, UpdateWork
<1> QED BY <1>2 DEF Agrees

\* A step of one request: the profiles of the others do not disappear, accounts that
\* were created stay, and the rows it leaves without a request to make them agree are
\* marked.
LEMMA ClerkStep ==
    ASSUME ProfilesInv, NEW c \in Clerk, NEW m, clerk' = [clerk EXCEPT ![c] = m],
           Agrees(profile', m), Grown, account \in [Account -> AccountRow],
           profile' \in [Account -> Profile \cup {None}], unit' \in [Unit -> UnitState],
           authorized' \in BOOLEAN, divided' \subseteq Account, replaced' \subseteq Account,
           started' \in 0 .. MaxStarted, divided \subseteq divided', replaced \subseteq replaced',
           \A a \in Account : profile[a] # None =>
               profile'[a] # None /\ profile'[a].institution = profile[a].institution,
           \A a \in Account : Creating(m, a) =>
               /\ account'[a] # Absent /\ profile'[a] = None
               /\ account'[a].deleted => a \in divided'
               /\ \A b \in Clerk : b # c => ~Creating(clerk[b], a),
           \A a \in Account : Saving(m, a) => account'[a].deleted,
           \A b \in Clerk, a \in Account : b # c /\ Creating(clerk[b], a) =>
               /\ profile'[a] = None
               /\ account'[a].deleted => account[a].deleted \/ a \in divided',
           Rows'
    PROVE  ProfilesInv'
<1>1. clerk \in [Clerk -> ClerkState] BY DEF ProfilesInv, ClerkVariables
<1>2. \A b \in Clerk : clerk'[b] = IF b = c THEN m ELSE clerk[b] BY <1>1
<1>3. ClerkVariables' BY <1>1 DEF ClerkVariables, Agrees
<1>4. ASSUME NEW b \in Clerk PROVE Agrees(profile', clerk'[b])
  BY <1>2, ClerkWork, AgreesKept
<1>5. ASSUME NEW b \in Clerk, NEW a \in Account, Creating(clerk'[b], a)
      PROVE  /\ account'[a] # Absent /\ profile'[a] = None
             /\ account'[a].deleted => a \in divided'
  <2>1. CASE b = c BY <1>2, <1>5, <2>1
  <2>2. CASE b # c
    <3>1. /\ Creating(clerk[b], a) /\ account[a] # Absent
          /\ account[a].deleted => a \in divided
      BY <1>2, <1>5, <2>2 DEF ProfilesInv, Clerks
    <3> QED BY <2>2, <3>1 DEF Grown
  <2> QED BY <2>1, <2>2
<1>6. ASSUME NEW b \in Clerk, NEW d \in Clerk, NEW a \in Account,
             Creating(clerk'[b], a), Creating(clerk'[d], a)
      PROVE  b = d
  BY <1>2, <1>6 DEF ProfilesInv, Clerks
<1>7. ASSUME NEW b \in Clerk, NEW a \in Account, Saving(clerk'[b], a)
      PROVE  account'[a].deleted
  <2>1. CASE b = c BY <1>2, <1>7, <2>1
  <2>2. CASE b # c
    <3>1. Saving(clerk[b], a) /\ account[a].deleted
      BY <1>2, <1>7, <2>2 DEF ProfilesInv, Clerks
    <3>2. account[a] # Absent BY <3>1 DEF Absent
    <3> QED BY <3>1, <3>2 DEF Grown
  <2> QED BY <2>1, <2>2
<1>8. Clerks' BY <1>4, <1>5, <1>6, <1>7 DEF Clerks, Agrees, Creating, Saving, Consistent
<1> QED BY <1>3, <1>8 DEF ProfilesInv

\* A step that writes no row: the request goes on to make them agree, or marks them.
LEMMA RowsKept ==
    ASSUME ProfilesInv, NEW c \in Clerk, NEW m, clerk' = [clerk EXCEPT ![c] = m],
           UNCHANGED <<profile, account, replaced>>, divided \subseteq divided',
           \A a \in divided' \ divided : account[a] # Absent,
           \A a \in Account :
               /\ Creating(clerk[c], a) => Creating(m, a) \/ a \in divided'
               /\ Saving(clerk[c], a) => Saving(m, a) \/ a \in divided'
    PROVE  Rows'
<1>1. \A b \in Clerk : clerk'[b] = IF b = c THEN m ELSE clerk[b]
  BY DEF ProfilesInv, ClerkVariables
<1>2. \A a \in Account :
          /\ (\E b \in Clerk : Creating(clerk[b], a)) =>
                (\E b \in Clerk : Creating(clerk'[b], a)) \/ a \in divided'
          /\ (\E b \in Clerk : Saving(clerk[b], a)) =>
                (\E b \in Clerk : Saving(clerk'[b], a)) \/ a \in divided'
  BY <1>1
<1>3. \A p : Consistent(p)' <=> Consistent(p) BY DEF Consistent
<1> QED BY <1>2 DEF ProfilesInv, Rows, Creating, Saving, Consistent

\* So does a request that has neither created nor deactivated an account.
LEMMA QuietClerk ==
    ASSUME ProfilesInv, account \in [Account -> AccountRow],
           NEW c \in Clerk, NEW m, clerk' = [clerk EXCEPT ![c] = m], Agrees(profile, m),
           \A a \in Account : ~Creating(m, a) /\ ~Saving(m, a),
           \A a \in Account : ~Creating(clerk[c], a) /\ ~Saving(clerk[c], a),
           UNCHANGED <<account, profile, authorized, divided, replaced>>,
           unit' \in [Unit -> UnitState], started' \in 0 .. MaxStarted
    PROVE  ProfilesInv'
<1>1. Rows' BY RowsKept
<1>2. Agrees(profile', m) OBVIOUS
<1>3. Grown BY DEF Grown
<1>4. \A b \in Clerk, a \in Account : b # c /\ Creating(clerk[b], a) =>
          /\ profile'[a] = None
          /\ account'[a].deleted => account[a].deleted \/ a \in divided'
  BY DEF ProfilesInv, Clerks
<1> QED BY <1>1, <1>2, <1>3, <1>4, ClerkStep DEF ProfilesInv, ClerkVariables

LEMMA UnitSteps ==
    ASSUME ProfilesInv, account' = account,
           \/ Reauthorize
           \/ \E i \in Institution : CreateInstitution(i)
           \/ \E s \in SectionRequest : CreateSection(s)
           \/ \E u \in Unit : ArchiveUnit(u)
    PROVE  ProfilesInv'
<1> USE ProvisioningAssumption
<1>1. UNCHANGED <<profile, clerk, divided, replaced>>
  BY DEF Reauthorize, CreateInstitution, CreateSection, ArchiveUnit
<1>2. ClerkVariables'
  <2>1. authorized' \in BOOLEAN
    BY DEF ProfilesInv, ClerkVariables, Reauthorize, CreateInstitution, CreateSection, ArchiveUnit
  <2>2. unit' \in [Unit -> UnitState]
    <3>1. unit \in [Unit -> UnitState] BY DEF ProfilesInv, ClerkVariables
    <3> QED BY <3>1 DEF Reauthorize, CreateInstitution, CreateSection, ArchiveUnit, UnitState
  <2>3. started' \in 0 .. MaxStarted
    <3>1. started \in 0 .. MaxStarted BY DEF ProfilesInv, ClerkVariables
    <3> QED BY <3>1 DEF Reauthorize, CreateInstitution, CreateSection, ArchiveUnit, Request
  <2> QED BY <1>1, <2>1, <2>2, <2>3 DEF ProfilesInv, ClerkVariables
<1>3. Clerks' BY <1>1 DEF ProfilesInv, Clerks, Agrees, Creating, Saving, Consistent
<1>4. Rows' BY <1>1 DEF ProfilesInv, Rows, Creating, Saving, Consistent
<1> QED BY <1>2, <1>3, <1>4 DEF ProfilesInv

LEMMA ResumeSteps ==
    ASSUME ProfilesInv, account \in [Account -> AccountRow], account' = account,
           NEW c \in Clerk,
           \/ \E u \in Unit : LoadUnit(c, u)
           \/ UpdateUnit(c)
           \/ \E a \in Account :
                 \/ \E new \in CreateRequest : BeginCreate(c, a, new)
                 \/ LoadProfile(c, a) \/ BeginDeactivate(c, a)
           \/ CallRefused(c)
    PROVE  ProfilesInv'
<1> USE ProvisioningAssumption
<1>1. /\ profile \in [Account -> Profile \cup {None}] /\ unit \in [Unit -> UnitState]
      /\ started \in 0 .. MaxStarted
  BY DEF ProfilesInv, ClerkVariables
<1>2. Agrees(profile, Resting) /\ \A a : ~Creating(Resting, a) /\ ~Saving(Resting, a)
  BY ClerkTypes DEF Agrees, Creating, Saving
<1>3. ASSUME NEW m, Starts(c), clerk' = [clerk EXCEPT ![c] = m], Agrees(profile, m),
             \A a \in Account : ~Creating(m, a) /\ ~Saving(m, a),
             UNCHANGED <<profile, unit, authorized, divided, replaced>>
      PROVE  ProfilesInv'
  <2>1. started' \in 0 .. MaxStarted BY <1>1, <1>3 DEF Starts, Request
  <2>2. \A a \in Account : ~Creating(clerk[c], a) /\ ~Saving(clerk[c], a)
    BY <1>2, <1>3 DEF Starts
  <2> QED BY <1>1, <1>3, <2>1, <2>2, QuietClerk
<1>4. ASSUME NEW u \in Unit, LoadUnit(c, u) PROVE ProfilesInv'
  <2> DEFINE m == [op |-> "unit", unit |-> u]
  <2>1. m \in ClerkState BY ClerkTypes DEF UnitWork
  <2>2. Agrees(profile, m) /\ \A a \in Account : ~Creating(m, a) /\ ~Saving(m, a)
    BY <2>1 DEF Agrees, Creating, Saving
  <2> QED BY <1>3, <1>4, <2>2 DEF LoadUnit
<1>5. CASE UpdateUnit(c)
  <2>1. /\ clerk' = [clerk EXCEPT ![c] = Resting] /\ clerk[c].op = "unit"
        /\ UNCHANGED <<profile, authorized, divided, replaced, started>>
        /\ unit' \in [Unit -> UnitState]
    BY <1>1, <1>5, ClerkWork DEF UpdateUnit, Ends, UnitState
  <2>2. \A a \in Account : ~Creating(clerk[c], a) /\ ~Saving(clerk[c], a)
    BY <2>1 DEF Creating, Saving
  <2> QED BY <1>1, <1>2, <2>1, <2>2, QuietClerk
<1>6. ASSUME NEW a \in Account, NEW new \in CreateRequest, BeginCreate(c, a, new)
      PROVE  ProfilesInv'
  <2>1. new \in Profile /\ ~new.deleted
    <3>1. PICK i \in Institution \cup {Platform}, s \in Section \cup {None} :
              new = NewProfile(i, s)
      BY DEF CreateRequest
    <3> QED BY <3>1 DEF NewProfile, Profile, ProfileStatus, Scope
  <2> DEFINE m == [op |-> "create", step |-> "call", account |-> a, new |-> new]
  <2>2. m \in ClerkState BY <2>1, ClerkTypes DEF CreateWork
  <2>3. Agrees(profile, m) /\ \A b \in Account : ~Creating(m, b) /\ ~Saving(m, b)
    BY <2>1, <2>2 DEF Agrees, Creating, Saving
  <2> QED BY <1>3, <1>6, <2>3 DEF BeginCreate
<1>7. ASSUME NEW a \in Account, LoadProfile(c, a) PROVE ProfilesInv'
  <2>1. profile[a] # None /\ ~profile[a].deleted /\ profile[a] \in Profile
    BY <1>1, <1>7 DEF LoadProfile, Present
  <2>2. Consistent(profile[a]) BY <2>1 DEF ProfilesInv, Rows
  <2> DEFINE m == [op |-> "update", account |-> a, copy |-> profile[a]]
  <2>3. m \in ClerkState BY <2>1, ClerkTypes DEF UpdateWork
  <2>4. Agrees(profile, m) /\ \A b \in Account : ~Creating(m, b) /\ ~Saving(m, b)
    BY <2>1, <2>2, <2>3 DEF Agrees, Creating, Saving
  <2> QED BY <1>3, <1>7, <2>4 DEF LoadProfile
<1>8. ASSUME NEW a \in Account, BeginDeactivate(c, a) PROVE ProfilesInv'
  <2> DEFINE m == [op |-> "deactivate", step |-> "call", account |-> a]
  <2>1. m \in ClerkState BY ClerkTypes DEF DeactivateWork
  <2>2. Agrees(profile, m) /\ \A b \in Account : ~Creating(m, b) /\ ~Saving(m, b)
    BY <1>8, <2>1 DEF Agrees, Creating, Saving, BeginDeactivate, Present
  <2> QED BY <1>3, <1>8, <2>2 DEF BeginDeactivate
<1>9. CASE CallRefused(c)
  <2>1. /\ clerk' = [clerk EXCEPT ![c] = Resting] /\ clerk[c].step = "call"
        /\ UNCHANGED <<profile, unit, authorized, divided, replaced, started>>
    BY <1>9 DEF CallRefused, Ends
  <2>2. \A a \in Account : ~Creating(clerk[c], a) /\ ~Saving(clerk[c], a)
    BY <2>1 DEF Creating, Saving
  <2> QED BY <1>1, <1>2, <2>1, <2>2, QuietClerk
<1> QED BY <1>4, <1>5, <1>6, <1>7, <1>8, <1>9

\* A request goes on to its next step and keeps the rest.
LEMMA EntersNext ==
    ASSUME ProfilesInv, NEW c \in Clerk, NEW step, Enters(c, step)
    PROVE  \E m : /\ clerk' = [clerk EXCEPT ![c] = m] /\ m.op = clerk[c].op
                  /\ clerk[c].op = "create" /\ step \in {"store", "undo"} =>
                        /\ Agrees(profile, m) /\ m.step = step
                        /\ m.account = clerk[c].account
                  /\ clerk[c].op = "deactivate" /\ step = "save" =>
                        /\ Agrees(profile, m) /\ m.step = step
                        /\ m.account = clerk[c].account
<1> DEFINE r == clerk[c]
           m == [r EXCEPT !.step = step]
<1>1. r \in ClerkState /\ Agrees(profile, r) BY ClerkWork
<1>2. clerk' = [clerk EXCEPT ![c] = m] BY DEF Enters
<1>3. r = clerk[c] OBVIOUS
<1> HIDE DEF r
<1>4. m.op = r.op BY <1>1 DEF ClerkState, Resting
<1>5. ASSUME r.op = "create", step \in {"store", "undo"}
      PROVE  Agrees(profile, m) /\ m.step = step /\ m.account = r.account
  <2>1. r \in CreateWork BY <1>1, <1>5, ClerkFields
  <2>2. m \in CreateWork /\ m.step = step /\ m.account = r.account /\ m.new = r.new
    BY <1>5, <2>1 DEF CreateWork
  <2> HIDE DEF m
  <2> QED BY <1>1, <1>4, <1>5, <2>2, ClerkTypes DEF Agrees
<1>6. ASSUME r.op = "deactivate", step = "save"
      PROVE  Agrees(profile, m) /\ m.step = step /\ m.account = r.account
  <2>1. r \in DeactivateWork BY <1>1, <1>6, ClerkFields
  <2>2. m \in DeactivateWork /\ m.step = step /\ m.account = r.account
    BY <1>6, <2>1 DEF DeactivateWork
  <2> HIDE DEF m
  <2> QED BY <1>1, <1>4, <1>6, <2>2, ClerkTypes DEF Agrees
<1> HIDE DEF m
<1> QED BY <1>2, <1>3, <1>4, <1>5, <1>6

LEMMA StoreStep ==
    ASSUME ProfilesInv, account \in [Account -> AccountRow], account' = account,
           NEW c \in Clerk, Store(c)
    PROVE  ProfilesInv'
<1>1. PICK a \in Account, new \in Profile : a = clerk[c].account /\ new = clerk[c].new
  BY ClerkWork DEF Store, At
<1>2. /\ Creating(clerk[c], a) /\ profile[a] = None /\ RoleProfileFound(new)
      /\ profile' = [profile EXCEPT ![a] = new] /\ clerk' = [clerk EXCEPT ![c] = Resting]
      /\ UNCHANGED <<unit, authorized, divided, replaced, started>>
  BY <1>1 DEF Store, At, Ends, Creating
<1>3. ~new.deleted BY <1>1, ClerkWork DEF Store, At, Agrees
<1>4. Consistent(new) /\ new # None
  BY <1>2, ProfileAssumption DEF RoleProfileFound, Found, Consistent
<1>5. /\ profile \in [Account -> Profile \cup {None}] /\ clerk \in [Clerk -> ClerkState]
      /\ \A b \in Account : profile'[b] = IF b = a THEN new ELSE profile[b]
      /\ \A b \in Clerk : clerk'[b] = IF b = c THEN Resting ELSE clerk[b]
  BY <1>2 DEF ProfilesInv, ClerkVariables
<1>6. \A b \in Account : ~Creating(Resting, b) /\ ~Saving(Resting, b)
  BY ClerkTypes DEF Creating, Saving
<1>7. account[a] # Absent /\ (account[a].deleted => a \in divided)
  BY <1>2 DEF ProfilesInv, Clerks
<1>8. \A b \in Clerk, d \in Account : b # c /\ Creating(clerk[b], d) => d # a
  BY <1>2 DEF ProfilesInv, Clerks
<1>9. ASSUME NEW d \in Account
      PROVE  /\ (\E b \in Clerk : Saving(clerk[b], d)) => \E b \in Clerk : Saving(clerk'[b], d)
             /\ d # a /\ (\E b \in Clerk : Creating(clerk[b], d)) =>
                   \E b \in Clerk : Creating(clerk'[b], d)
  BY <1>1, <1>2, <1>5 DEF Saving, Creating
<1>10. Rows'
  <2> SUFFICES ASSUME NEW d \in Account
               PROVE
      /\ account[d] = Absent => profile'[d] = None /\ d \notin divided \cup replaced
      /\ account[d] # Absent /\ ~account[d].deleted /\ profile'[d] = None =>
            d \in divided \/ \E b \in Clerk : Creating(clerk'[b], d)
      /\ profile'[d] # None /\ profile'[d].deleted => account[d].deleted
      /\ profile'[d] # None /\ account[d].deleted /\ ~profile'[d].deleted =>
            d \in divided \cup replaced \/ \E b \in Clerk : Saving(clerk'[b], d)
      /\ profile'[d] # None => Consistent(profile'[d])
    BY <1>2 DEF Rows, Creating, Saving, Consistent
  <2>1. CASE d = a BY <1>3, <1>4, <1>5, <1>7, <2>1
  <2>2. CASE d # a BY <1>5, <1>9, <2>2 DEF ProfilesInv, Rows
  <2> QED BY <2>1, <2>2
<1>11. Agrees(profile', Resting) BY ClerkTypes DEF Agrees
<1>12. profile' \in [Account -> Profile \cup {None}] BY <1>2, <1>5
<1>13. \A d \in Account : profile[d] # None =>
           profile'[d] # None /\ profile'[d].institution = profile[d].institution
  BY <1>2, <1>5
<1>14. \A b \in Clerk, d \in Account : b # c /\ Creating(clerk[b], d) =>
           /\ profile'[d] = None
           /\ account'[d].deleted => account[d].deleted \/ d \in divided'
  BY <1>5, <1>8 DEF ProfilesInv, Clerks
<1>15. Grown BY DEF Grown
<1> QED BY <1>2, <1>6, <1>10, <1>11, <1>12, <1>13, <1>14, <1>15, ClerkStep
        DEF ProfilesInv, ClerkVariables

\* Requests that write no row of either service.
LEMMA StoreFailsStep ==
    ASSUME ProfilesInv, account \in [Account -> AccountRow], account' = account,
           NEW c \in Clerk, StoreFails(c)
    PROVE  ProfilesInv'
<1>1. /\ clerk[c].op = "create" /\ clerk[c].step = "store" /\ Enters(c, "undo")
      /\ UNCHANGED <<profile, unit, authorized, divided, replaced, started>>
  BY DEF StoreFails, At
<1>2. PICK m : /\ clerk' = [clerk EXCEPT ![c] = m] /\ m.op = "create" /\ m.step = "undo"
               /\ Agrees(profile, m) /\ m.account = clerk[c].account
  BY <1>1, EntersNext
<1>3. \A a \in Account : (Creating(m, a) <=> Creating(clerk[c], a)) /\ ~Saving(m, a)
                         /\ ~Saving(clerk[c], a)
  BY <1>1, <1>2 DEF Creating, Saving
<1>4. Rows' BY <1>1, <1>2, <1>3, RowsKept
<1>5. \A a \in Account : Creating(m, a) =>
          /\ account'[a] # Absent /\ profile'[a] = None
          /\ account'[a].deleted => a \in divided'
          /\ \A b \in Clerk : b # c => ~Creating(clerk[b], a)
  BY <1>1, <1>3 DEF ProfilesInv, Clerks
<1>6. \A b \in Clerk, a \in Account : b # c /\ Creating(clerk[b], a) =>
          /\ profile'[a] = None
          /\ account'[a].deleted => account[a].deleted \/ a \in divided'
  BY <1>1 DEF ProfilesInv, Clerks
<1>7. Grown BY DEF Grown
<1> QED BY <1>1, <1>2, <1>3, <1>4, <1>5, <1>6, <1>7, ClerkStep DEF ProfilesInv, ClerkVariables

LEMMA CrashStep ==
    ASSUME ProfilesInv, account \in [Account -> AccountRow], account' = account,
           NEW c \in Clerk, Crash(c)
    PROVE  ProfilesInv'
<1>1. /\ clerk' = [clerk EXCEPT ![c] = Resting]
      /\ divided' = IF At(c, "create", "store") \/ At(c, "create", "undo")
                       \/ At(c, "deactivate", "save")
                    THEN divided \cup {clerk[c].account} ELSE divided
      /\ UNCHANGED <<profile, unit, authorized, replaced, started>>
  BY DEF Crash, Ends
<1>2. \A a \in Account : Creating(clerk[c], a) \/ Saving(clerk[c], a) => a \in divided'
  BY <1>1 DEF Creating, Saving, At
<1>3. \A a \in divided' \ divided : a \in Account /\ account[a] # Absent
  <2> SUFFICES ASSUME NEW a \in divided', a \notin divided
               PROVE  a \in Account /\ account[a] # Absent
    OBVIOUS
  <2>1. /\ a = clerk[c].account /\ a \in Account
        /\ clerk[c].op \in {"create", "deactivate"}
        /\ Creating(clerk[c], a) \/ Saving(clerk[c], a)
    BY <1>1, ClerkWork DEF At, Creating, Saving
  <2> QED BY <2>1 DEF ProfilesInv, Clerks, Absent
<1>4. \A a \in Account : ~Creating(Resting, a) /\ ~Saving(Resting, a)
  BY ClerkTypes DEF Creating, Saving
<1>5. divided \subseteq divided' /\ divided' \subseteq Account
  BY <1>1, <1>3 DEF ProfilesInv, ClerkVariables
<1>6. Rows' BY <1>1, <1>2, <1>3, <1>5, RowsKept
<1>7. Agrees(profile', Resting) BY ClerkTypes DEF Agrees
<1>8. Grown BY DEF Grown
<1>9. \A b \in Clerk, a \in Account : b # c /\ Creating(clerk[b], a) =>
          /\ profile'[a] = None
          /\ account'[a].deleted => account[a].deleted \/ a \in divided'
  BY <1>1 DEF ProfilesInv, Clerks
<1> QED BY <1>1, <1>4, <1>5, <1>6, <1>7, <1>8, <1>9, ClerkStep DEF ProfilesInv, ClerkVariables

\* A profile that exists is saved with its institution, and is deactivated with its
\* account or marked.
LEMMA SavedProfile ==
    ASSUME ProfilesInv, account \in [Account -> AccountRow], account' = account,
           NEW c \in Clerk, NEW a \in Account, NEW new \in Profile,
           clerk' = [clerk EXCEPT ![c] = Resting], profile' = [profile EXCEPT ![a] = new],
           UNCHANGED <<unit, authorized, divided, started>>,
           profile[a] # None, ~Creating(clerk[c], a),
           \A d \in Account : Creating(clerk[c], d) \/ Saving(clerk[c], d) => d = a,
           replaced' = replaced \/ replaced' = replaced \cup {a},
           new.institution = profile[a].institution, Consistent(new),
           new.deleted => account[a].deleted,
           account[a].deleted /\ ~new.deleted => ~profile[a].deleted \/ a \in replaced',
           Saving(clerk[c], a) => new.deleted
    PROVE  ProfilesInv'
<1>1. /\ profile \in [Account -> Profile \cup {None}] /\ clerk \in [Clerk -> ClerkState]
      /\ \A b \in Account : profile'[b] = IF b = a THEN new ELSE profile[b]
      /\ \A b \in Clerk : clerk'[b] = IF b = c THEN Resting ELSE clerk[b]
  BY DEF ProfilesInv, ClerkVariables
<1>2. \A b \in Account : ~Creating(Resting, b) /\ ~Saving(Resting, b)
  BY ClerkTypes DEF Creating, Saving
<1>3. new # None /\ account[a] # Absent
  BY ProfileAssumption DEF ProfilesInv, Rows
<1>4. Rows'
  <2> SUFFICES ASSUME NEW d \in Account
               PROVE
      /\ account[d] = Absent => profile'[d] = None /\ d \notin divided \cup replaced'
      /\ account[d] # Absent /\ ~account[d].deleted /\ profile'[d] = None =>
            d \in divided \/ \E b \in Clerk : Creating(clerk'[b], d)
      /\ profile'[d] # None /\ profile'[d].deleted => account[d].deleted
      /\ profile'[d] # None /\ account[d].deleted /\ ~profile'[d].deleted =>
            d \in divided \cup replaced' \/ \E b \in Clerk : Saving(clerk'[b], d)
      /\ profile'[d] # None => Consistent(profile'[d])
    BY DEF Rows, Creating, Saving, Consistent
  <2>1. CASE d = a
    <3>1. ASSUME account[a].deleted, ~new.deleted
          PROVE  a \in divided \cup replaced' \/ \E b \in Clerk : Saving(clerk'[b], a)
      <4>1. CASE a \in replaced' BY <4>1
      <4>2. CASE ~profile[a].deleted
        <5>1. a \in divided \cup replaced \/ \E b \in Clerk : Saving(clerk[b], a)
          BY <3>1, <4>2 DEF ProfilesInv, Rows
        <5>2. \A b \in Clerk : Saving(clerk[b], a) => b # c BY <3>1
        <5> QED BY <1>1, <5>1, <5>2
      <4> QED BY <3>1, <4>1, <4>2
    <3> QED BY <1>1, <1>3, <2>1, <3>1
  <2>2. CASE d # a
    <3>1. \A b \in Clerk : Creating(clerk[b], d) \/ Saving(clerk[b], d) => b # c BY <2>2
    <3> QED BY <1>1, <2>2, <3>1 DEF ProfilesInv, Rows
  <2> QED BY <2>1, <2>2
<1>5. Agrees(profile', Resting) BY ClerkTypes DEF Agrees
<1>6. profile' \in [Account -> Profile \cup {None}] BY <1>1
<1>7. \A d \in Account : profile[d] # None =>
          profile'[d] # None /\ profile'[d].institution = profile[d].institution
  BY <1>1, <1>3
<1>8. \A b \in Clerk, d \in Account : b # c /\ Creating(clerk[b], d) =>
          /\ profile'[d] = None
          /\ account'[d].deleted => account[d].deleted \/ d \in divided'
  BY <1>1 DEF ProfilesInv, Clerks
<1>9. Grown BY DEF Grown
<1>10. replaced' \subseteq Account /\ replaced \subseteq replaced'
  BY DEF ProfilesInv, ClerkVariables
<1> QED BY <1>2, <1>4, <1>5, <1>6, <1>7, <1>8, <1>9, <1>10, ClerkStep
        DEF ProfilesInv, ClerkVariables

LEMMA SaveSteps ==
    ASSUME ProfilesInv, account \in [Account -> AccountRow], account' = account,
           NEW c \in Clerk, SaveProfile(c) \/ SaveDeactivated(c)
    PROVE  ProfilesInv'
<1>1. profile \in [Account -> Profile \cup {None}] BY DEF ProfilesInv, ClerkVariables
<1>2. CASE SaveProfile(c)
  <2>1. PICK a \in Account, copy \in Profile :
            /\ a = clerk[c].account /\ copy = clerk[c].copy /\ profile[a] # None
            /\ ~copy.deleted /\ Consistent(copy) /\ copy.institution = profile[a].institution
    BY <1>2, ClerkWork DEF SaveProfile, Agrees
  <2>2. PICK new \in Updated(a, copy) : profile' = [profile EXCEPT ![a] = new]
    BY <1>2, <2>1 DEF SaveProfile
  <2>3. PICK status \in ProfileStatus, s \in UpdatedSection(a, copy) :
            new = Sent(copy, status, s)
    BY <2>2 DEF Updated
  <2>4. profile[a] \in Profile /\ Consistent(profile[a])
    BY <1>1, <2>1 DEF ProfilesInv, Rows
  <2>5. /\ s \in Section \cup {None}
        /\ s # None => copy.institution \in {Platform, Home[s]}
    BY <2>1, <2>3, <2>4 DEF UpdatedSection, Found, Consistent, Profile
  <2>6. /\ new \in Profile /\ ~new.deleted /\ new.institution = copy.institution
        /\ new.section = s
    BY <2>1, <2>3, <2>5 DEF Profile, Sent
  <2>7. Consistent(new) BY <2>5, <2>6 DEF Consistent
  <2>8. /\ clerk' = [clerk EXCEPT ![c] = Resting] /\ clerk[c].op = "update"
        /\ UNCHANGED <<unit, authorized, divided, started>>
        /\ replaced' = IF profile[a] = copy THEN replaced ELSE replaced \cup {a}
    BY <1>2, <2>1 DEF SaveProfile, Ends
  <2>9. \A d \in Account : ~Creating(clerk[c], d) /\ ~Saving(clerk[c], d)
    BY <2>8 DEF Creating, Saving
  <2>10. ~profile[a].deleted \/ a \in replaced' BY <2>1, <2>8
  <2>11. replaced' = replaced \/ replaced' = replaced \cup {a} BY <2>8
  <2> HIDE DEF Updated
  <2> QED BY <2>1, <2>2, <2>6, <2>7, <2>8, <2>9, <2>10, <2>11, SavedProfile
<1>3. CASE SaveDeactivated(c)
  <2>1. PICK a \in Account : a = clerk[c].account /\ profile[a] # None
    BY <1>3, ClerkWork DEF SaveDeactivated, At, Agrees
  <2> DEFINE old == profile[a]
             new == [old EXCEPT !.status = "deactivated", !.deleted = TRUE]
  <2>2. old \in Profile /\ Consistent(old) BY <1>1, <2>1 DEF ProfilesInv, Rows
  <2>3. profile' = [profile EXCEPT ![a] = new] BY <1>1, <1>3, <2>1 DEF SaveDeactivated
  <2>4. old = profile[a] OBVIOUS
  <2> HIDE DEF old
  <2>5. /\ new \in Profile /\ new.deleted /\ new.institution = old.institution
        /\ new.section = old.section
    BY <2>2 DEF Profile, ProfileStatus
  <2> HIDE DEF new
  <2>6. Consistent(new) BY <2>2, <2>5 DEF Consistent
  <2>7. /\ clerk' = [clerk EXCEPT ![c] = Resting] /\ Saving(clerk[c], a)
        /\ UNCHANGED <<unit, authorized, divided, replaced, started>>
        /\ \A d \in Account : ~Creating(clerk[c], d) /\ (Saving(clerk[c], d) => d = a)
    BY <1>3, <2>1 DEF SaveDeactivated, At, Ends, Creating, Saving
  <2>8. account[a].deleted BY <2>7 DEF ProfilesInv, Clerks
  <2> QED BY <2>1, <2>3, <2>4, <2>5, <2>6, <2>7, <2>8, SavedProfile
<1> QED BY <1>2, <1>3

-----------------------------------------------------------------------------
(* user-service and auth-service together *)

\* A step that changes one account, but no profile.
LEMMA CalledStep ==
    ASSUME ProfilesInv, account \in [Account -> AccountRow], Grown,
           NEW c \in Clerk, NEW a \in Account, NEW m, clerk' = [clerk EXCEPT ![c] = m],
           Agrees(profile, m), account'[a] # Absent,
           \A d \in Account : d # a => account'[d] = account[d],
           UNCHANGED <<profile, unit, authorized, replaced, started>>,
           divided' = divided \/ divided' = divided \cup {a},
           \A d \in Account : Creating(clerk[c], d) \/ Saving(clerk[c], d) => d = a,
           \A d \in Account : Creating(m, d) \/ Saving(m, d) => d = a,
           \A b \in Clerk : b # c => ~Creating(clerk[b], a),
           Creating(m, a) => profile[a] = None /\ ~account'[a].deleted,
           Saving(m, a) => account'[a].deleted,
           Saving(clerk[c], a) => Saving(m, a) \/ a \in divided',
           profile[a] = None /\ ~account'[a].deleted => Creating(m, a) \/ a \in divided',
           profile[a] # None /\ account'[a].deleted => Saving(m, a) \/ a \in divided'
    PROVE  ProfilesInv'
<1>1. \A b \in Clerk : clerk'[b] = IF b = c THEN m ELSE clerk[b]
  BY DEF ProfilesInv, ClerkVariables
<1>2. divided \subseteq divided' /\ divided' \subseteq Account /\ divided' \subseteq divided \cup {a}
  BY DEF ProfilesInv, ClerkVariables
<1>3. Rows'
  <2> SUFFICES ASSUME NEW d \in Account
               PROVE
      /\ account'[d] = Absent => profile[d] = None /\ d \notin divided' \cup replaced
      /\ account'[d] # Absent /\ ~account'[d].deleted /\ profile[d] = None =>
            d \in divided' \/ \E b \in Clerk : Creating(clerk'[b], d)
      /\ profile[d] # None /\ profile[d].deleted => account'[d].deleted
      /\ profile[d] # None /\ account'[d].deleted /\ ~profile[d].deleted =>
            d \in divided' \cup replaced \/ \E b \in Clerk : Saving(clerk'[b], d)
      /\ profile[d] # None => Consistent(profile[d])
    BY DEF Rows, Creating, Saving, Consistent
  <2>1. CASE d = a
    <3>1. profile[a] # None => account[a] # Absent BY DEF ProfilesInv, Rows
    <3>2. profile[a] # None /\ profile[a].deleted => account'[a].deleted
      BY <3>1 DEF ProfilesInv, Rows, Grown
    <3>3. profile[a] # None => Consistent(profile[a]) BY DEF ProfilesInv, Rows
    <3> QED BY <1>1, <2>1, <3>2, <3>3
  <2>2. CASE d # a
    <3>1. \A b \in Clerk : Creating(clerk[b], d) \/ Saving(clerk[b], d) => b # c BY <2>2
    <3>2. account'[d] = account[d] /\ (d \in divided' <=> d \in divided) BY <1>2, <2>2
    <3> QED BY <1>1, <3>1, <3>2 DEF ProfilesInv, Rows
  <2> QED BY <2>1, <2>2
<1>4. Agrees(profile', m) OBVIOUS
<1>5. \A d \in Account : Creating(m, d) =>
          /\ account'[d] # Absent /\ profile'[d] = None
          /\ account'[d].deleted => d \in divided'
          /\ \A b \in Clerk : b # c => ~Creating(clerk[b], d)
  OBVIOUS
<1>6. \A b \in Clerk, d \in Account : b # c /\ Creating(clerk[b], d) =>
          /\ profile'[d] = None
          /\ account'[d].deleted => account[d].deleted \/ d \in divided'
  BY DEF ProfilesInv, Clerks
<1>7. \A d \in Account : Saving(m, d) => account'[d].deleted OBVIOUS
<1> QED BY <1>2, <1>3, <1>4, <1>5, <1>6, <1>7, ClerkStep DEF ProfilesInv, ClerkVariables

LEMMA TogetherSteps ==
    ASSUME CacheInv, ProfilesInv, Together
    PROVE  CacheInv' /\ ProfilesInv'
<1>1. account \in [Account -> AccountRow] BY DEF CacheInv, PermissionTypeOK
<1>2. /\ Agrees(profile, Resting)
      /\ \A a \in Account : ~Creating(Resting, a) /\ ~Saving(Resting, a)
  BY ClerkTypes DEF Agrees, Creating, Saving
<1>3. ASSUME NEW c \in Clerk, NEW q \in AccountRequest, CallCreate(c, q)
      PROVE  CacheInv' /\ ProfilesInv'
  <2>1. PICK a \in Account : a = clerk[c].account BY <1>3, ClerkWork DEF CallCreate, At
  <2>2. CreateAccount(a, q) BY <1>3, <2>1 DEF CallCreate, CreateCall
  <2>3. /\ CacheInv' /\ Grown /\ account'[a] # Absent
        /\ \A d \in Account : d # a => account'[d] = account[d]
    BY <2>2, AccountSteps
  <2>4. account[a] = Absent /\ ~account'[a].deleted
    BY <1>1, <2>2 DEF CreateAccount
  <2>5. /\ clerk[c].op = "create" /\ clerk[c].step = "call"
        /\ UNCHANGED <<profile, unit, authorized, replaced, started>>
        /\ \/ Enters(c, "store") /\ UNCHANGED divided
           \/ clerk' = [clerk EXCEPT ![c] = Resting] /\ divided' = divided \cup {a}
    BY <1>3, <2>1 DEF CallCreate, At, Ends
  <2>6. profile[a] = None BY <2>4 DEF ProfilesInv, Rows
  <2>7. \A d \in Account : ~Creating(clerk[c], d) /\ ~Saving(clerk[c], d)
    BY <2>5 DEF Creating, Saving
  <2>8. \A b \in Clerk : ~Creating(clerk[b], a) BY <2>4 DEF ProfilesInv, Clerks
  <2>9. PICK m : /\ clerk' = [clerk EXCEPT ![c] = m] /\ Agrees(profile, m)
                 /\ \A d \in Account : (Creating(m, d) => d = a) /\ ~Saving(m, d)
                 /\ \/ Creating(m, a) /\ divided' = divided
                    \/ ~Creating(m, a) /\ divided' = divided \cup {a}
    <3>1. CASE Enters(c, "store") /\ UNCHANGED divided
      <4>1. PICK m : /\ clerk' = [clerk EXCEPT ![c] = m] /\ Agrees(profile, m)
                     /\ m.op = "create" /\ m.step = "store" /\ m.account = a
        BY <2>1, <2>5, <3>1, EntersNext
      <4> QED BY <3>1, <4>1 DEF Creating, Saving
    <3>2. CASE clerk' = [clerk EXCEPT ![c] = Resting] /\ divided' = divided \cup {a}
      BY <1>2, <3>2
    <3> QED BY <2>5, <3>1, <3>2
  <2>10. ProfilesInv' BY <1>1, <2>3, <2>4, <2>5, <2>6, <2>7, <2>8, <2>9, CalledStep
  <2> QED BY <2>3, <2>10
<1>4. ASSUME NEW c \in Clerk, Undo(c) PROVE CacheInv' /\ ProfilesInv'
  <2>1. PICK a \in Account : a = clerk[c].account BY <1>4, ClerkWork DEF Undo, At
  <2>2. /\ clerk[c].op = "create" /\ clerk[c].step = "undo"
        /\ clerk' = [clerk EXCEPT ![c] = Resting]
        /\ UNCHANGED <<profile, unit, authorized, replaced, started>>
        /\ \/ DeactivateAccount(a) /\ UNCHANGED divided
           \/ divided' = divided \cup {a} /\ UNCHANGED permissionVars
    BY <1>4, <2>1 DEF Undo, At, Ends, DeactivateCall
  <2>3. /\ Creating(clerk[c], a)
        /\ \A d \in Account : (Creating(clerk[c], d) => d = a) /\ ~Saving(clerk[c], d)
    BY <2>1, <2>2 DEF Creating, Saving
  <2>4. /\ account[a] # Absent /\ profile[a] = None
        /\ \A b \in Clerk : b # c => ~Creating(clerk[b], a)
    BY <2>3 DEF ProfilesInv, Clerks
  <2>5. CASE DeactivateAccount(a) /\ UNCHANGED divided
    <3>1. /\ CacheInv' /\ Grown /\ account'[a] # Absent
          /\ \A d \in Account : d # a => account'[d] = account[d]
      BY <2>5, AccountSteps
    <3>2. account'[a].deleted BY <1>1, <2>5 DEF DeactivateAccount, SaveAccount
    <3>3. ProfilesInv' BY <1>1, <1>2, <2>2, <2>3, <2>4, <2>5, <3>1, <3>2, CalledStep
    <3> QED BY <3>1, <3>3
  <2>6. CASE divided' = divided \cup {a} /\ UNCHANGED permissionVars
    <3>1. CacheInv' BY <2>6, CacheKept
    <3>2. account' = account BY <2>6 DEF permissionVars
    <3>3. Grown BY <1>1, <3>2 DEF Grown
    <3>4. ProfilesInv' BY <1>1, <1>2, <2>2, <2>3, <2>4, <2>6, <3>2, <3>3, CalledStep
    <3> QED BY <3>1, <3>4
  <2> QED BY <2>2, <2>5, <2>6
<1>5. ASSUME NEW c \in Clerk, CallDeactivate(c) PROVE CacheInv' /\ ProfilesInv'
  <2>1. PICK a \in Account : a = clerk[c].account /\ profile[a] # None
    BY <1>5, ClerkWork DEF CallDeactivate, At, Agrees
  <2>2. /\ clerk[c].op = "deactivate" /\ clerk[c].step = "call" /\ DeactivateAccount(a)
        /\ UNCHANGED <<profile, unit, authorized, replaced, started>>
        /\ \/ Enters(c, "save") /\ UNCHANGED divided
           \/ clerk' = [clerk EXCEPT ![c] = Resting] /\ divided' = divided \cup {a}
    BY <1>5, <2>1 DEF CallDeactivate, At, Ends, DeactivateCall
  <2>3. /\ CacheInv' /\ Grown /\ account'[a] # Absent
        /\ \A d \in Account : d # a => account'[d] = account[d]
    BY <2>2, AccountSteps
  <2>4. account'[a].deleted BY <1>1, <2>2 DEF DeactivateAccount, SaveAccount
  <2>5. \A d \in Account : ~Creating(clerk[c], d) /\ ~Saving(clerk[c], d)
    BY <2>2 DEF Creating, Saving
  <2>6. \A b \in Clerk : ~Creating(clerk[b], a) BY <2>1 DEF ProfilesInv, Clerks
  <2>7. PICK m : /\ clerk' = [clerk EXCEPT ![c] = m] /\ Agrees(profile, m)
                 /\ \A d \in Account : (Saving(m, d) => d = a) /\ ~Creating(m, d)
                 /\ \/ Saving(m, a) /\ divided' = divided
                    \/ ~Saving(m, a) /\ divided' = divided \cup {a}
    <3>1. CASE Enters(c, "save") /\ UNCHANGED divided
      <4>1. PICK m : /\ clerk' = [clerk EXCEPT ![c] = m] /\ Agrees(profile, m)
                     /\ m.op = "deactivate" /\ m.step = "save" /\ m.account = a
        BY <2>1, <2>2, <3>1, EntersNext
      <4> QED BY <3>1, <4>1 DEF Creating, Saving
    <3>2. CASE clerk' = [clerk EXCEPT ![c] = Resting] /\ divided' = divided \cup {a}
      BY <1>2, <3>2
    <3> QED BY <2>2, <3>1, <3>2
  <2>8. /\ \A d \in Account : Creating(clerk[c], d) \/ Saving(clerk[c], d) => d = a
        /\ \A d \in Account : Creating(m, d) \/ Saving(m, d) => d = a
        /\ \A b \in Clerk : b # c => ~Creating(clerk[b], a)
    BY <2>5, <2>6, <2>7
  <2>9. /\ Creating(m, a) => profile[a] = None /\ ~account'[a].deleted
        /\ Saving(m, a) => account'[a].deleted
        /\ Saving(clerk[c], a) => Saving(m, a) \/ a \in divided'
    BY <2>4, <2>5, <2>7
  <2>10. /\ divided' = divided \/ divided' = divided \cup {a}
         /\ profile[a] = None /\ ~account'[a].deleted => Creating(m, a) \/ a \in divided'
         /\ profile[a] # None /\ account'[a].deleted => Saving(m, a) \/ a \in divided'
    BY <2>1, <2>7
  <2>11. ProfilesInv'
    BY <1>1, <2>2, <2>3, <2>7, <2>8, <2>9, <2>10, CalledStep
  <2> QED BY <2>3, <2>11
<1>6. ASSUME NEW a \in Account, NEW status \in StatusRequest, SetStatus(a, status)
      PROVE  CacheInv' /\ ProfilesInv'
  <2>1. /\ UpdateStatus(a, status)
        /\ divided' = IF status = "deactivated" THEN divided \cup {a} ELSE divided
        /\ UNCHANGED <<profile, unit, clerk, authorized, replaced, started>>
    BY <1>6 DEF SetStatus
  <2>2. /\ CacheInv' /\ Grown /\ account'[a] # Absent
        /\ \A d \in Account : d # a => account'[d] = account[d]
    BY <2>1, AccountSteps
  <2>3. /\ account[a] # Absent
        /\ account'[a].deleted <=> account[a].deleted \/ status = "deactivated"
    BY <1>1, <2>1 DEF UpdateStatus
  <2>4. account'[a].deleted => account[a].deleted \/ a \in divided' BY <2>1, <2>3
  <2>5. divided \subseteq divided' /\ divided' \subseteq divided \cup {a}
    BY <2>1
  <2>6. ClerkVariables' BY <2>1, <2>5 DEF ProfilesInv, ClerkVariables
  <2>7. Clerks'
    <3>1. \A c \in Clerk : Agrees(profile, clerk[c])' BY <2>1 DEF ProfilesInv, Clerks, Agrees, Consistent
    <3>2. \A c \in Clerk, d \in Account : Creating(clerk[c], d) =>
              /\ account'[d] # Absent /\ profile[d] = None
              /\ account'[d].deleted => d \in divided'
      BY <2>2, <2>4, <2>5 DEF ProfilesInv, Clerks
    <3>3. \A c \in Clerk, d \in Account : Saving(clerk[c], d) => account'[d].deleted
      BY <2>2, <2>3 DEF ProfilesInv, Clerks
    <3>4. \A b, c \in Clerk, d \in Account :
              Creating(clerk[b], d) /\ Creating(clerk[c], d) => b = c
      BY DEF ProfilesInv, Clerks
    <3> QED BY <2>1, <3>1, <3>2, <3>3, <3>4 DEF Clerks, Creating, Saving
  <2>8. Rows'
    <3> SUFFICES ASSUME NEW d \in Account
                 PROVE
        /\ account'[d] = Absent => profile[d] = None /\ d \notin divided' \cup replaced
        /\ account'[d] # Absent /\ ~account'[d].deleted /\ profile[d] = None =>
              d \in divided' \/ \E b \in Clerk : Creating(clerk[b], d)
        /\ profile[d] # None /\ profile[d].deleted => account'[d].deleted
        /\ profile[d] # None /\ account'[d].deleted /\ ~profile[d].deleted =>
              d \in divided' \cup replaced \/ \E b \in Clerk : Saving(clerk[b], d)
        /\ profile[d] # None => Consistent(profile[d])
      BY <2>1 DEF Rows, Creating, Saving, Consistent
    <3>1. CASE d = a BY <2>2, <2>3, <2>4, <2>5, <3>1 DEF ProfilesInv, Rows
    <3>2. CASE d # a
      <4>1. account'[d] = account[d] /\ (d \in divided' <=> d \in divided) BY <2>2, <2>5, <3>2
      <4> QED BY <4>1 DEF ProfilesInv, Rows
    <3> QED BY <3>1, <3>2
  <2> QED BY <2>2, <2>6, <2>7, <2>8 DEF ProfilesInv
<1> QED BY <1>3, <1>4, <1>5, <1>6 DEF Together

\* The invariant of both services.
AccountInv == CacheInv /\ ProfilesInv

LEMMA AccountsInitially ==
    ASSUME Init
    PROVE  AccountInv
<1> USE PermissionAssumption, ProvisioningAssumption, ProfileAssumption DEF Init
<1>1. PICK existing \in SUBSET Account :
          /\ PermissionInit(existing)
          /\ profile = [a \in Account |->
                IF a \in existing THEN NewProfile(Platform, None) ELSE None]
  OBVIOUS
<1>2. NewProfile(Platform, None) \in Profile
  BY DEF NewProfile, Profile, ProfileStatus, Scope
<1>3. \A w \in Worker : worker[w] = Idle BY <1>1 DEF PermissionInit
<1>4. PermissionTypeOK
  <2>1. account \in [Account -> AccountRow]
    BY <1>1 DEF PermissionInit, AccountRow, Status, Absent
  <2>2. worker \in [Worker -> WorkerState] BY <1>1, WorkerTypes DEF PermissionInit
  <2>3. granted \subseteq RolePermission BY <1>1 DEF PermissionInit
  <2> QED BY <1>1, <2>1, <2>2, <2>3 DEF PermissionInit, PermissionTypeOK
<1>5. CacheInv
  <2>1. StoredAnswers BY <1>1 DEF PermissionInit, StoredAnswers
  <2>2. ChecksRight /\ LoadedRows BY <1>3, WorkerTypes DEF ChecksRight, LoadedRows
  <2> QED BY <1>4, <2>1, <2>2 DEF CacheInv
<1>6. \A c \in Clerk : clerk[c] = Resting OBVIOUS
<1>7. ClerkVariables
  <2>1. unit \in [Unit -> UnitState] BY DEF UnitState
  <2>2. clerk \in [Clerk -> ClerkState] BY ClerkTypes
  <2>3. profile \in [Account -> Profile \cup {None}] BY <1>1, <1>2
  <2> QED BY <2>1, <2>2, <2>3 DEF ClerkVariables
<1>8. Clerks BY <1>6, ClerkTypes DEF Clerks, Agrees, Creating, Saving
<1>9. Rows
  <2>1. /\ ~NewProfile(Platform, None).deleted /\ Consistent(NewProfile(Platform, None))
        /\ NewProfile(Platform, None) # None
    BY <1>2 DEF NewProfile, Consistent
  <2>2. \A a \in Account :
            /\ account[a] = IF a \in existing THEN [status |-> "active", deleted |-> FALSE]
                            ELSE Absent
            /\ profile[a] = IF a \in existing THEN NewProfile(Platform, None) ELSE None
    BY <1>1 DEF PermissionInit
  <2>3. [status |-> "active", deleted |-> FALSE] # Absent BY DEF Absent
  <2> QED BY <2>1, <2>2, <2>3 DEF Rows
<1> QED BY <1>5, <1>7, <1>8, <1>9 DEF AccountInv, ProfilesInv

LEMMA AccountsPreserved ==
    ASSUME AccountInv, [Next]_vars
    PROVE  AccountInv'
<1>1. account \in [Account -> AccountRow] BY DEF AccountInv, CacheInv, PermissionTypeOK
<1>2. ASSUME UNCHANGED provisioningVars, account' = account PROVE ProfilesInv'
  BY <1>2 DEF AccountInv, provisioningVars, ProfilesInv, ClerkVariables, Clerks, Rows, Agrees,
              Creating, Saving, Consistent
<1>3. CASE PermissionNext /\ UNCHANGED provisioningVars
  BY <1>2, <1>3, PermissionSteps DEF AccountInv
<1>4. CASE Alone /\ UNCHANGED permissionVars
  <2>1. CacheInv' /\ account' = account BY <1>4, CacheKept DEF AccountInv, permissionVars
  <2>2. ProfilesInv'
    BY <1>1, <1>4, <2>1, UnitSteps, ResumeSteps, StoreStep, StoreFailsStep, SaveSteps, CrashStep
       DEF Alone, AccountInv
  <2> QED BY <2>1, <2>2 DEF AccountInv
<1>5. CASE Together BY <1>5, TogetherSteps DEF AccountInv
<1>6. CASE UNCHANGED vars
  <2>1. UNCHANGED permissionVars /\ UNCHANGED provisioningVars BY <1>6 DEF vars
  <2>2. account' = account BY <2>1 DEF permissionVars
  <2> QED BY <1>2, <2>1, <2>2, CacheKept DEF AccountInv
<1> QED BY <1>3, <1>4, <1>5, <1>6 DEF Next

\* What the invariant says of the property.
LEMMA AccountsImplied ==
    ASSUME AccountInv
    PROVE  AccountsAgree
<1>1. TypeOK
  <2>1. \A c \in Clerk : clerk[c].op \in {"deactivate", "update"} =>
            profile[clerk[c].account] # None
    BY ClerkWork DEF AccountInv, Agrees
  <2> QED BY <2>1 DEF AccountInv, CacheInv, ProfilesInv, ClerkVariables, Rows, TypeOK
<1>2. NoOrphanAccount
  BY DEF AccountInv, ProfilesInv, Rows, Creating, NoOrphanAccount, IsActive, Absent
<1>3. DeactivatedEverywhere
  BY DEF AccountInv, ProfilesInv, Rows, DeactivatedEverywhere, IsActive
<1>4. ServicesAgree
  <2> SUFFICES ASSUME NEW a \in Account \ (divided \cup replaced), profile[a] # None,
                      \A c \in Clerk : clerk[c].op = "deactivate" => clerk[c].account # a
               PROVE  profile[a].deleted <=> account[a].deleted
    BY DEF ServicesAgree
  <2>1. \A c \in Clerk : ~Saving(clerk[c], a) BY DEF Saving
  <2>2. /\ profile[a].deleted => account[a].deleted
        /\ account[a].deleted => profile[a].deleted
    BY <2>1 DEF AccountInv, ProfilesInv, Rows
  <2>3. profile[a].deleted \in BOOLEAN /\ account[a].deleted \in BOOLEAN
    BY DEF AccountInv, ProfilesInv, ClerkVariables, CacheInv, PermissionTypeOK, Profile, AccountRow
  <2> QED BY <2>2, <2>3
<1>5. MembershipConsistent
  BY DEF AccountInv, ProfilesInv, Rows, Consistent, MembershipConsistent
<1> QED BY <1>1, <1>2, <1>3, <1>4, <1>5 DEF AccountsAgree

LEMMA AccountsInvariance == AccountServicesSpec => []AccountInv
<1>1. AccountServicesInit => AccountInv BY AccountsInitially DEF AccountServicesInit
<1>2. AccountInv /\ [AccountServicesNext]_accountVars => AccountInv'
  BY AccountsPreserved DEF AccountServicesNext, accountVars
<1> QED BY <1>1, <1>2, PTL DEF AccountServicesSpec

\* A cached answer to a permission check is what the database says while the account is
\* active, unless a change has yet to invalidate it or overlapped with the check:
\* has_permission, assign_role, revoke_role_assignment and the rest.
THEOREM PermissionsCached == AccountServicesSpec => []CacheAgrees
<1>1. AccountInv => CacheAgrees BY CacheImplied DEF AccountInv
<1> QED BY <1>1, AccountsInvariance, PTL

\* No account is left without its profile, no deactivated profile has an account that can
\* be used, and the two services tell the same of both, whatever call between them fails,
\* loses its answer or overlaps another: create_user_profile, deactivate_user_profile.
THEOREM ServicesTellTheSame == AccountServicesSpec => []AccountsAgree
<1>1. AccountInv => AccountsAgree BY AccountsImplied
<1> QED BY <1>1, AccountsInvariance, PTL

=============================================================================
