------------------------- MODULE TokenSessionProofs -------------------------
(***************************************************************************)
(* Proofs about TokenSession, for any accounts, pairs, workers, lifetimes  *)
(* and bounds.  The inductive invariant IInv adds to the type invariant    *)
(* what the row locks guarantee: who may revoke a row, and in which order  *)
(* the password_changed_at values of an account are written.  Two more     *)
(* invariants follow: the order in which requests wait for locks, and what *)
(* a logout leaves in Redis.                                               *)
(***************************************************************************)
EXTENDS TokenSession, Integers, TLAPS

Revoking(r) == req[r].op \in {"deactivate", "reset"}

\* A deactivation begins, with a new email or phone or without.
Deactivates(r, a) == \E newKey \in BOOLEAN : DeactivateBegin(r, a, newKey)

\* The fields of a request that its operation and step determine.
RequestShape ==
    \A r \in Request :
        /\ req[r].op = "none" => req[r] = Idle
        /\ req[r].op # "none" => req[r].account \in Account
        /\ req[r].op = "login" => req[r].pair = None /\ req[r].locked = {}
        /\ req[r].op = "refresh" =>
              /\ req[r].pair \in Pair
              /\ req[r].pc = "commit" \/ req[r].pc = "blacklist"
                    => req[r].locked = {req[r].pair}
        /\ req[r].op = "logout" => req[r].pair \in Pair
        /\ Revoking(r) => req[r].pc \in {"credential", "lockRows", "commit"}

\* A row locked by a request is not revoked, and no other request has locked it.
LockedRows ==
    /\ \A r \in Request : \A k \in req[r].locked : ~revoked[k]
    /\ \A r, s \in Request : r # s => req[r].locked \cap req[s].locked = {}

\* A pair that has a successor is revoked.
ParentsRevoked ==
    \A k \in Pair : parent[k] # None => revoked[parent[k]]

\* Only one request at a time holds the row of an account.
AccountLock ==
    \A r, s \in Request : \A a \in Account :
        HoldsAccount(r, a) /\ HoldsAccount(s, a) => r = s

\* st was read from the credential of a while ep revocations of the account
\* were committed: it is not ahead of password_changed_at, and behind it once
\* another revocation is committed.
ReadFrom(st, ep, a) ==
    /\ st <= changedAt[a] /\ ep <= epoch[a]
    /\ ep < epoch[a] /\ a \notin tied => st < changedAt[a]

\* password_changed_at never runs ahead of the clock, every claim was read from
\* it, and the value a revocation is about to write is not older.
StampOrder ==
    /\ \A a \in Account : changedAt[a] <= now
    /\ \A k \in Pair : owner[k] # None => ReadFrom(stamp[k], readEpoch[k], owner[k])
    /\ \A r \in Request :
          /\ req[r].op \in {"login", "refresh"}
                => ReadFrom(req[r].stamp, req[r].epoch, req[r].account)
          /\ Revoking(r) /\ req[r].pc \in {"lockRows", "commit"}
                => /\ changedAt[req[r].account] <= req[r].stamp
                   /\ req[r].stamp <= now

IInv ==
    /\ TypeOK
    /\ RequestShape
    /\ LockedRows
    /\ ParentsRevoked
    /\ RotatedAtMostOnce
    /\ AccountLock
    /\ StampOrder

-----------------------------------------------------------------------------
(* Arithmetic of whole seconds *)

\* Cutting a time or a duration to whole seconds yields an integer.
LEMMA WholeSecondsType ==
    ASSUME NEW t \in Int PROVE WholeSeconds(t) \in Int
<1>1. TicksPerSecond \in Nat \ {0}
    BY BoundsAssumption
<1>2. t % TicksPerSecond \in Int
    BY <1>1
<1> QED
    BY <1>2 DEF WholeSeconds

\* The Redis part of blacklist_token_jti leaves every key with an expiry time.
LEMMA BlacklistKeysType ==
    ASSUME TypeOK, NEW until \in [Jti -> Int], NEW J
    PROVE  BlacklistKeys(until, J) \in [Jti -> Nat]
<1> SUFFICES ASSUME NEW j \in Jti
             PROVE  (IF redisUp /\ j \in J /\ KeyUntil(until[j]) > now
                     THEN KeyUntil(until[j]) ELSE redisUntil[j]) \in Nat
    BY DEF BlacklistKeys
<1>1. now \in Nat /\ redisUntil[j] \in Nat /\ until[j] \in Int
    BY BoundsAssumption DEF TypeOK, Time
<1>2. WholeSeconds(until[j] - now) \in Int
    BY <1>1, WholeSecondsType
<1>3. KeyUntil(until[j]) \in Int
    BY <1>1, <1>2 DEF KeyUntil
<1> QED
    BY <1>1, <1>3

\* Expiry times are integers.
LEMMA ExpiryType ==
    ASSUME TypeOK
    PROVE  /\ [j \in Jti |-> ExpiresAt(j[2])] \in [Jti -> Int]
           /\ [j \in Jti |-> Exp(j[1], j[2])] \in [Jti -> Int]
<1> SUFFICES ASSUME NEW j \in Jti
             PROVE  ExpiresAt(j[2]) \in Int /\ Exp(j[1], j[2]) \in Int
    OBVIOUS
<1>1. j[2] \in Pair
    BY DEF Jti
<1>2. issuedAt[j[2]] \in Int
    BY <1>1, BoundsAssumption DEF TypeOK, Time
<1>3. ExpiresAt(j[2]) \in Int /\ issuedAt[j[2]] + Lifetime(j[1]) \in Int
    BY <1>2, BoundsAssumption DEF ExpiresAt, Lifetime
<1> QED
    BY <1>3, WholeSecondsType DEF Exp

-----------------------------------------------------------------------------
(* Type correctness *)

LEMMA InitTypeOK == Init => TypeOK
BY BoundsAssumption
   DEF Init, TypeOK, Time, AccountStatus, RequestState, Idle, Jti

Steps == {"lockAccount", "lockToken", "credential", "lockRows", "blacklist",
          "commit"}

LEMMA IdleType == Idle \in RequestState
BY BoundsAssumption DEF Idle, RequestState, Time

\* Advancing a request, with or without the rows it has locked, keeps its type.
LEMMA AdvanceType ==
    ASSUME TypeOK, NEW r \in Request, NEW p \in Steps, NEW L \in SUBSET Pair
    PROVE  /\ [req EXCEPT ![r].pc = p] \in [Request -> RequestState]
           /\ [req EXCEPT ![r].pc = p, ![r].locked = L] \in [Request -> RequestState]
<1>1. req[r] \in RequestState
    BY DEF TypeOK
<1>2. [req[r] EXCEPT !.pc = p] \in RequestState
    BY <1>1 DEF RequestState, Steps
<1>3. [req[r] EXCEPT !.pc = p, !.locked = L] \in RequestState
    BY <1>1 DEF RequestState, Steps
<1>4. [req EXCEPT ![r].pc = p] = [req EXCEPT ![r] = [req[r] EXCEPT !.pc = p]]
    OBVIOUS
<1>5. [req EXCEPT ![r].pc = p, ![r].locked = L]
      = [req EXCEPT ![r] = [req[r] EXCEPT !.pc = p, !.locked = L]]
    BY DEF TypeOK
<1> QED
    BY <1>2, <1>3, <1>4, <1>5 DEF TypeOK

\* So does reading the clock and starting to select the rows to revoke.
LEMMA SelectType ==
    ASSUME TypeOK, NEW r \in Request, NEW S \in SUBSET Pair
    PROVE  [req EXCEPT ![r].pc = "lockRows", ![r].stamp = now, ![r].seen = S]
              \in [Request -> RequestState]
<1>1. req[r] \in RequestState
    BY DEF TypeOK
<1>2. [req[r] EXCEPT !.pc = "lockRows", !.stamp = now, !.seen = S] \in RequestState
    BY <1>1 DEF RequestState, TypeOK
<1>3. [req EXCEPT ![r].pc = "lockRows", ![r].stamp = now, ![r].seen = S]
      = [req EXCEPT ![r] =
            [req[r] EXCEPT !.pc = "lockRows", !.stamp = now, !.seen = S]]
    BY DEF TypeOK
<1> QED
    BY <1>2, <1>3 DEF TypeOK

\* Every action of login, refresh and logout preserves the types.
LEMMA SessionTypeOK ==
    ASSUME TypeOK, RequestShape, NEW r \in Request,
           LoginStep(r) \/ RefreshStep(r) \/ LogoutStep(r) \/ Abort(r)
    PROVE  TypeOK'
<1>1. ASSUME NEW a \in Account, LoginRead(r, a) PROVE TypeOK'
    <2>1. [Idle EXCEPT !.op = "login", !.pc = "lockAccount", !.account = a,
                       !.stamp = changedAt[a], !.epoch = epoch[a]] \in RequestState
        BY IdleType DEF TypeOK, RequestState, Idle
    <2> QED
        BY <1>1, <2>1 DEF LoginRead, rows, history, TypeOK
<1>2. ASSUME LoginLock(r) PROVE TypeOK'
    BY <1>2, AdvanceType DEF LoginLock, rows, history, TypeOK, Steps
<1>3. ASSUME NEW k \in Pair, LoginCommit(r, k) PROVE TypeOK'
    BY <1>3, IdleType DEF LoginCommit, Issue, TypeOK, RequestState
<1>4. ASSUME NEW k \in Pair, RefreshRead(r, k) PROVE TypeOK'
    <2>1. owner[k] \in Account
        BY <1>4 DEF RefreshRead, RefreshAdmitted, Issued, TypeOK
    <2>2. [Idle EXCEPT !.op = "refresh", !.pc = "lockToken", !.account = owner[k],
                       !.pair = k, !.stamp = changedAt[owner[k]],
                       !.epoch = epoch[owner[k]]] \in RequestState
        BY <2>1, IdleType DEF TypeOK, RequestState, Idle
    <2> QED
        BY <1>4, <2>2 DEF RefreshRead, rows, history, TypeOK
<1>5. ASSUME RefreshLock(r) PROVE TypeOK'
    <2>0. {req[r].pair} \in SUBSET Pair
        BY <1>5 DEF RefreshLock, RequestShape
    <2>1. CASE RowActive(req[r].pair)
        BY <1>5, <2>0, <2>1, AdvanceType
        DEF RefreshLock, rows, history, TypeOK, Steps
    <2>2. CASE ~RowActive(req[r].pair)
        BY <1>5, <2>2, IdleType DEF RefreshLock, rows, history, TypeOK
    <2> QED
        BY <2>1, <2>2
<1>6. ASSUME RefreshBlacklist(r) PROVE TypeOK'
    <2>1. redisUntil' \in [Jti -> Nat]
        BY <1>6, BlacklistKeysType, ExpiryType DEF RefreshBlacklist
    <2> QED
        BY <1>6, <2>1, AdvanceType DEF RefreshBlacklist, rows, history, TypeOK, Steps
<1>7. ASSUME NEW k \in Pair, RefreshCommit(r, k) PROVE TypeOK'
    <2>1. blacklist' \subseteq Jti
        BY <1>7 DEF RefreshCommit, Jti, TypeOK, RequestShape
    <2> QED
        BY <1>7, <2>1, IdleType DEF RefreshCommit, Issue, TypeOK, RequestState
<1>8. ASSUME NEW k \in Pair, NEW w \in BOOLEAN, LogoutRead(r, k, w) PROVE TypeOK'
    <2>1. owner[k] \in Account /\ RowActive(k) \in BOOLEAN
        BY <1>8 DEF LogoutRead, Issued, RowActive, TypeOK
    <2>2. [Idle EXCEPT !.op = "logout", !.pc = "lockToken", !.account = owner[k],
                       !.pair = k, !.withAccess = w, !.live = RowActive(k)]
             \in RequestState
        BY <2>1, IdleType DEF TypeOK, RequestState, Idle
    <2> QED
        BY <1>8, <2>2 DEF LogoutRead, rows, history, TypeOK
<1>9. ASSUME LogoutLock(r) PROVE TypeOK'
    <2>1. {k \in {req[r].pair} : ~revoked[k]} \in SUBSET Pair
        BY <1>9 DEF LogoutLock, RequestShape
    <2> QED
        BY <1>9, <2>1, AdvanceType DEF LogoutLock, rows, history, TypeOK, Steps
<1>10. ASSUME LogoutBlacklist(r) PROVE TypeOK'
    <2>1. redisUntil' \in [Jti -> Nat]
        BY <1>10, BlacklistKeysType, ExpiryType DEF LogoutBlacklist
    <2> DEFINE up == redisUp
    <2>a. req[r] \in RequestState /\ up \in BOOLEAN
        BY DEF TypeOK
    <2> HIDE DEF up
    <2>b. [req[r] EXCEPT !.pc = "commit", !.keyed = up] \in RequestState
        BY <2>a DEF RequestState
    <2>2. [req[r] EXCEPT !.pc = "commit", !.keyed = redisUp] \in RequestState
        BY <2>b DEF up
    <2>3. [req EXCEPT ![r].pc = "commit", ![r].keyed = redisUp]
          = [req EXCEPT ![r] = [req[r] EXCEPT !.pc = "commit", !.keyed = redisUp]]
        BY DEF TypeOK
    <2>4. req' \in [Request -> RequestState]
        BY <1>10, <2>2, <2>3 DEF LogoutBlacklist, TypeOK
    <2> QED
        BY <1>10, <2>1, <2>4 DEF LogoutBlacklist, rows, history, TypeOK
<1>11. ASSUME LogoutCommit(r) PROVE TypeOK'
    <2>1. req[r].pair \in Pair
        BY <1>11 DEF LogoutCommit, RequestShape
    <2>2. LogoutJtis(r) \subseteq Jti
        BY <2>1 DEF LogoutJtis, Jti
    <2> QED
        BY <1>11, <2>1, <2>2, IdleType DEF LogoutCommit, TypeOK
<1>12. ASSUME Abort(r) PROVE TypeOK'
    BY <1>12, IdleType DEF Abort, rows, history, TypeOK
<1> QED
    BY <1>1, <1>2, <1>3, <1>4, <1>5, <1>6, <1>7, <1>8, <1>9, <1>10, <1>11, <1>12
    DEF LoginStep, RefreshStep, LogoutStep

\* So does every action of deactivation, password reset and the environment.
LEMMA RevokeTypeOK ==
    ASSUME TypeOK, RequestShape, NEW r \in Request, RevokeStep(r)
    PROVE  TypeOK'
<1>1. ASSUME NEW a \in Account, NEW m \in BOOLEAN, DeactivateBegin(r, a, m) PROVE TypeOK'
    <2>1. [Idle EXCEPT !.op = "deactivate", !.pc = "credential", !.account = a,
                       !.newKey = m] \in RequestState
        BY IdleType DEF RequestState, Idle
    <2> QED
        BY <1>1, <2>1 DEF Deactivates, DeactivateBegin, rows, history, TypeOK
<1>2. ASSUME NEW a \in Account, ResetBegin(r, a) PROVE TypeOK'
    <2>1. [Idle EXCEPT !.op = "reset", !.pc = "credential", !.account = a,
                       !.newKey = TRUE] \in RequestState
        BY IdleType DEF RequestState, Idle
    <2> QED
        BY <1>2, <2>1 DEF ResetBegin, rows, history, TypeOK
<1>3. ASSUME RevokeCredential(r) PROVE TypeOK'
    BY <1>3, SelectType DEF RevokeCredential, rows, history, TypeOK
<1>4. ASSUME RevokeRows(r) PROVE TypeOK'
    <2> DEFINE hit == {k \in req[r].seen : ~revoked[k]}
    <2>1. hit \in SUBSET Pair
        BY DEF TypeOK, RequestState
    <2>2. redisUntil' \in [Jti -> Nat]
        BY <1>4, BlacklistKeysType, ExpiryType DEF RevokeRows
    <2>3. req' = [req EXCEPT ![r].pc = "commit", ![r].locked = hit]
        BY <1>4 DEF RevokeRows
    <2>4. req' \in [Request -> RequestState]
        BY <2>1, <2>3, AdvanceType DEF Steps
    <2> QED
        BY <1>4, <2>2, <2>4 DEF RevokeRows, rows, history, TypeOK
<1>5. ASSUME RevokeCommit(r) PROVE TypeOK'
    <2>1. req[r].account \in Account /\ req[r].locked \subseteq Pair /\ req[r].stamp \in Time
        BY <1>5 DEF RevokeCommit, RequestShape, TypeOK, RequestState
    <2>2. blacklist' \subseteq Jti
        BY <1>5, <2>1 DEF RevokeCommit, Jti, TypeOK
    <2>3. status' \in [Account -> AccountStatus] /\ deleted' \in [Account -> BOOLEAN]
        BY <1>5 DEF RevokeCommit, TypeOK, AccountStatus
    <2>4. epoch' \in [Account -> Nat] /\ changedAt' \in [Account -> Time]
        BY <1>5, <2>1 DEF RevokeCommit, TypeOK
    <2>5. req' \in [Request -> RequestState] /\ revoked' \in [Pair -> BOOLEAN]
        BY <1>5, IdleType DEF RevokeCommit, TypeOK
    <2>6. UNCHANGED <<now, redisUp, owner, stamp, issuedAt, redisUntil, parent,
                      readEpoch, loggedOut, keyed, ended>>
        BY <1>5 DEF RevokeCommit
    <2>7. tied' \subseteq Account
        BY <1>5, <2>1 DEF RevokeCommit, TypeOK
    <2> QED
        BY <2>2, <2>3, <2>4, <2>5, <2>6, <2>7 DEF TypeOK
<1> QED
    BY <1>1, <1>2, <1>3, <1>4, <1>5 DEF RevokeStep

LEMMA EnvironmentTypeOK ==
    ASSUME TypeOK,
           \/ \E a \in Account, s \in AccountStatus : SetStatus(a, s)
           \/ Tick \/ RedisFails \/ RedisRecovers
    PROVE  TypeOK'
<1>1. ASSUME NEW a \in Account, NEW s \in AccountStatus, SetStatus(a, s) PROVE TypeOK'
    BY <1>1 DEF SetStatus, history, TypeOK
<1>2. CASE Tick
    BY <1>2, BoundsAssumption DEF Tick, rows, history, TypeOK, Time
<1>3. CASE RedisFails \/ RedisRecovers
    BY <1>3 DEF RedisFails, RedisRecovers, rows, history, TypeOK
<1> QED
    BY <1>1, <1>2, <1>3

-----------------------------------------------------------------------------
(* The shape of requests *)

LEMMA IdleFields ==
    /\ Idle.op = "none" /\ Idle.pc = "idle" /\ Idle.account = None
    /\ Idle.pair = None /\ Idle.locked = {} /\ Idle.seen = {}
BY DEF Idle

LEMMA SessionShape ==
    ASSUME TypeOK, RequestShape, NEW r \in Request,
           LoginStep(r) \/ RefreshStep(r) \/ LogoutStep(r) \/ Abort(r)
    PROVE  RequestShape'
<1> USE DEF RequestShape, Revoking
<1>1. ASSUME NEW a \in Account, LoginRead(r, a) PROVE RequestShape'
    BY <1>1 DEF LoginRead, Idle, TypeOK
<1>2. ASSUME LoginLock(r) PROVE RequestShape'
    BY <1>2 DEF LoginLock, TypeOK, RequestState
<1>3. ASSUME NEW k \in Pair, LoginCommit(r, k) PROVE RequestShape'
    BY <1>3 DEF LoginCommit, Idle, TypeOK
<1>4. ASSUME NEW k \in Pair, RefreshRead(r, k) PROVE RequestShape'
    BY <1>4 DEF RefreshRead, RefreshAdmitted, Issued, Idle, TypeOK
<1>5. ASSUME RefreshLock(r) PROVE RequestShape'
    <2>1. CASE RowActive(req[r].pair)
        BY <1>5, <2>1 DEF RefreshLock, TypeOK, RequestState
    <2>2. CASE ~RowActive(req[r].pair)
        BY <1>5, <2>2 DEF RefreshLock, Idle, TypeOK
    <2> QED
        BY <2>1, <2>2
<1>6. ASSUME RefreshBlacklist(r) PROVE RequestShape'
    BY <1>6 DEF RefreshBlacklist, TypeOK, RequestState
<1>7. ASSUME NEW k \in Pair, RefreshCommit(r, k) PROVE RequestShape'
    BY <1>7 DEF RefreshCommit, Idle, TypeOK
<1>8. ASSUME NEW k \in Pair, NEW w \in BOOLEAN, LogoutRead(r, k, w) PROVE RequestShape'
    BY <1>8 DEF LogoutRead, Issued, Idle, TypeOK
<1>9. ASSUME LogoutLock(r) PROVE RequestShape'
    BY <1>9 DEF LogoutLock, TypeOK, RequestState
<1>10. ASSUME LogoutBlacklist(r) PROVE RequestShape'
    BY <1>10 DEF LogoutBlacklist, TypeOK, RequestState
<1>11. ASSUME LogoutCommit(r) PROVE RequestShape'
    BY <1>11 DEF LogoutCommit, Idle, TypeOK
<1>12. ASSUME Abort(r) PROVE RequestShape'
    BY <1>12 DEF Abort, Idle, TypeOK
<1> QED
    BY <1>1, <1>2, <1>3, <1>4, <1>5, <1>6, <1>7, <1>8, <1>9, <1>10, <1>11, <1>12
    DEF LoginStep, RefreshStep, LogoutStep

LEMMA RevokeShape ==
    ASSUME TypeOK, RequestShape, NEW r \in Request, RevokeStep(r)
    PROVE  RequestShape'
<1> USE DEF RequestShape, Revoking
<1>1. ASSUME NEW a \in Account, NEW m \in BOOLEAN, DeactivateBegin(r, a, m)
      PROVE  RequestShape'
    BY <1>1 DEF Deactivates, DeactivateBegin, Idle, TypeOK
<1>2. ASSUME NEW a \in Account, ResetBegin(r, a) PROVE RequestShape'
    BY <1>2 DEF ResetBegin, Idle, TypeOK
<1>3. ASSUME RevokeCredential(r) PROVE RequestShape'
    BY <1>3 DEF RevokeCredential, TypeOK, RequestState
<1>4. ASSUME RevokeRows(r) PROVE RequestShape'
    BY <1>4 DEF RevokeRows, TypeOK, RequestState
<1>5. ASSUME RevokeCommit(r) PROVE RequestShape'
    BY <1>5 DEF RevokeCommit, Idle, TypeOK
<1> QED
    BY <1>1, <1>2, <1>3, <1>4, <1>5 DEF RevokeStep

-----------------------------------------------------------------------------
(* Row locks of refresh tokens *)

\* Steps that revoke nothing and lock nothing new.
LEMMA LockedRowsKept ==
    ASSUME LockedRows, revoked' = revoked,
           \A s \in Request : req'[s].locked \subseteq req[s].locked
    PROVE  LockedRows'
BY DEF LockedRows

\* Locking rows that are free and not revoked.
LEMMA LockedRowsTaken ==
    ASSUME LockedRows, revoked' = revoked, NEW r \in Request,
           \A s \in Request \ {r} : req'[s].locked = req[s].locked,
           \A k \in req'[r].locked : RowFree(k) /\ ~revoked[k]
    PROVE  LockedRows'
BY DEF LockedRows, RowFree

\* Committing the revocation of the rows a request has locked.
LEMMA LockedRowsCommitted ==
    ASSUME TypeOK, LockedRows, NEW r \in Request,
           revoked' = [p \in Pair |-> revoked[p] \/ p \in req[r].locked],
           req' = [req EXCEPT ![r] = Idle]
    PROVE  LockedRows'
<1>1. \A s \in Request : req[s].locked \subseteq Pair
    BY DEF TypeOK, RequestState
<1>2. req'[r].locked = {} /\ \A s \in Request \ {r} : req'[s] = req[s]
    BY IdleFields DEF TypeOK
<1> QED
    BY <1>1, <1>2 DEF LockedRows

LEMMA LockedRowsStep ==
    ASSUME TypeOK, RequestShape, LockedRows, NEW r \in Request,
           \/ LoginStep(r) \/ RefreshStep(r) \/ LogoutStep(r) \/ RevokeStep(r)
           \/ Abort(r)
    PROVE  LockedRows'
<1>1. ASSUME \/ \E a \in Account : \/ LoginRead(r, a) \/ Deactivates(r, a)
                                   \/ ResetBegin(r, a)
             \/ \E k \in Pair : \/ LoginCommit(r, k) \/ RefreshRead(r, k)
                                \/ \E w \in BOOLEAN : LogoutRead(r, k, w)
             \/ Abort(r)
      PROVE LockedRows'
    <2>1. revoked' = revoked
        BY <1>1 DEF LoginRead, Deactivates, DeactivateBegin, ResetBegin, LoginCommit,
                    RefreshRead, LogoutRead, Abort, rows
    <2>2. ASSUME NEW a \in Account,
                 LoginRead(r, a) \/ Deactivates(r, a) \/ ResetBegin(r, a)
          PROVE  \A s \in Request : req'[s].locked \subseteq req[s].locked
        <3>1. CASE LoginRead(r, a)
            BY <3>1 DEF LoginRead, Idle, TypeOK
        <3>2. CASE Deactivates(r, a)
            BY <3>2 DEF Deactivates, DeactivateBegin, Idle, TypeOK
        <3>3. CASE ResetBegin(r, a)
            BY <3>3 DEF ResetBegin, Idle, TypeOK
        <3> QED
            BY <2>2, <3>1, <3>2, <3>3
    <2>3. ASSUME NEW k \in Pair, LoginCommit(r, k) \/ RefreshRead(r, k)
          PROVE  \A s \in Request : req'[s].locked \subseteq req[s].locked
        <3>1. CASE LoginCommit(r, k)
            BY <3>1 DEF LoginCommit, Idle, TypeOK
        <3>2. CASE RefreshRead(r, k)
            BY <3>2 DEF RefreshRead, Idle, TypeOK
        <3> QED
            BY <2>3, <3>1, <3>2
    <2>4. ASSUME NEW k \in Pair, NEW w \in BOOLEAN, LogoutRead(r, k, w)
          PROVE  \A s \in Request : req'[s].locked \subseteq req[s].locked
        BY <2>4 DEF LogoutRead, Idle, TypeOK
    <2>5. ASSUME Abort(r)
          PROVE  \A s \in Request : req'[s].locked \subseteq req[s].locked
        BY <2>5 DEF Abort, Idle, TypeOK
    <2> QED
        BY <1>1, <2>1, <2>2, <2>3, <2>4, <2>5, LockedRowsKept
<1>2. ASSUME \/ LoginLock(r) \/ RefreshBlacklist(r) \/ LogoutBlacklist(r)
             \/ RevokeCredential(r)
      PROVE LockedRows'
    <2>1. revoked' = revoked
        BY <1>2 DEF LoginLock, RefreshBlacklist, LogoutBlacklist, RevokeCredential, rows
    <2>2. CASE LoginLock(r)
        BY <2>1, <2>2, LockedRowsKept DEF LoginLock, TypeOK, RequestState
    <2>3. CASE RefreshBlacklist(r)
        BY <2>1, <2>3, LockedRowsKept DEF RefreshBlacklist, TypeOK, RequestState
    <2>4. CASE LogoutBlacklist(r)
        BY <2>1, <2>4, LockedRowsKept DEF LogoutBlacklist, TypeOK, RequestState
    <2>5. CASE RevokeCredential(r)
        BY <2>1, <2>5, LockedRowsKept DEF RevokeCredential, TypeOK, RequestState
    <2> QED
        BY <1>2, <2>2, <2>3, <2>4, <2>5
<1>3. ASSUME RefreshLock(r) PROVE LockedRows'
    <2>1. CASE RowActive(req[r].pair)
        <3>1. req' = [req EXCEPT ![r].pc = "blacklist", ![r].locked = {req[r].pair}]
            BY <1>3, <2>1 DEF RefreshLock
        <3>2. /\ \A s \in Request \ {r} : req'[s].locked = req[s].locked
              /\ req'[r].locked = {req[r].pair}
            BY <3>1 DEF TypeOK, RequestState
        <3>3. RowFree(req[r].pair) /\ ~revoked[req[r].pair] /\ revoked' = revoked
            BY <1>3, <2>1 DEF RefreshLock, RowActive, rows
        <3> QED
            BY <3>2, <3>3, LockedRowsTaken
    <2>2. CASE ~RowActive(req[r].pair)
        BY <1>3, <2>2, LockedRowsKept, IdleFields DEF RefreshLock, rows, TypeOK
    <2> QED
        BY <2>1, <2>2
<1>4. ASSUME LogoutLock(r) PROVE LockedRows'
    <2>1. req'[r].locked = {k \in {req[r].pair} : ~revoked[k]}
        BY <1>4 DEF LogoutLock, TypeOK, RequestState
    <2>2. \A s \in Request \ {r} : req'[s].locked = req[s].locked
        BY <1>4 DEF LogoutLock, TypeOK
    <2> QED
        BY <1>4, <2>1, <2>2, LockedRowsTaken DEF LogoutLock, rows
<1>5. ASSUME RevokeRows(r) PROVE LockedRows'
    BY <1>5, LockedRowsTaken DEF RevokeRows, rows, TypeOK, RequestState
<1>6. ASSUME (\E k \in Pair : RefreshCommit(r, k)) \/ LogoutCommit(r) \/ RevokeCommit(r)
      PROVE LockedRows'
    BY <1>6, LockedRowsCommitted DEF RefreshCommit, LogoutCommit, RevokeCommit
<1> QED
    BY <1>1, <1>2, <1>3, <1>4, <1>5, <1>6
    DEF LoginStep, RefreshStep, LogoutStep, RevokeStep, Deactivates

-----------------------------------------------------------------------------
(* Rotation *)

\* A refresh that commits exchanges a token it has locked, which no request can
\* have revoked, for a pair that was not issued.
LEMMA RotationStep ==
    ASSUME TypeOK, RequestShape, LockedRows, ParentsRevoked, RotatedAtMostOnce,
           NEW r \in Request,
           \/ LoginStep(r) \/ RefreshStep(r) \/ LogoutStep(r) \/ RevokeStep(r)
           \/ Abort(r)
    PROVE  /\ ParentsRevoked'
           /\ RotatedAtMostOnce'
           /\ \A k, p \in Pair : parent[k] # p /\ parent'[k] = p => ~revoked[p]
<1> USE NoneAssumption DEF ParentsRevoked, RotatedAtMostOnce
<1>1. CASE \E k \in Pair : RefreshCommit(r, k)
    <2>1. PICK k \in Pair : RefreshCommit(r, k)
        BY <1>1
    <2> DEFINE p == req[r].pair
    <2>2. p \in Pair /\ req[r].locked = {p}
        BY <2>1 DEF RefreshCommit, RequestShape
    <2>3. ~revoked[p]
        BY <2>2 DEF LockedRows
    <2>4. /\ parent' = [parent EXCEPT ![k] = p]
          /\ revoked' = [x \in Pair |-> revoked[x] \/ x = p]
        BY <2>1, <2>2 DEF RefreshCommit, Issue
    <2>5. \A x \in Pair : parent[x] # p
        BY <2>2, <2>3
    <2>6. ParentsRevoked'
        BY <2>2, <2>4 DEF TypeOK
    <2>7. RotatedAtMostOnce'
        BY <2>4, <2>5 DEF TypeOK
    <2> QED
        BY <2>2, <2>3, <2>4, <2>6, <2>7 DEF TypeOK
<1>2. CASE \E k \in Pair : LoginCommit(r, k)
    <2>1. PICK k \in Pair : LoginCommit(r, k)
        BY <1>2
    <2>2. parent' = [parent EXCEPT ![k] = None] /\ revoked' = revoked
        BY <2>1 DEF LoginCommit, Issue, RequestShape
    <2> QED
        BY <2>2 DEF TypeOK
<1>3. CASE LogoutCommit(r) \/ RevokeCommit(r)
    <2>1. parent' = parent /\ revoked' = [x \in Pair |-> revoked[x] \/ x \in req[r].locked]
        BY <1>3 DEF LogoutCommit, RevokeCommit
    <2> QED
        BY <2>1 DEF TypeOK
<1>4. CASE ~ \/ \E k \in Pair : RefreshCommit(r, k) \/ LoginCommit(r, k)
             \/ LogoutCommit(r) \/ RevokeCommit(r)
    <2>1. UNCHANGED <<parent, revoked>>
        BY <1>4 DEF LoginStep, RefreshStep, LogoutStep, RevokeStep, Abort, LoginRead,
           LoginLock, RefreshRead, RefreshLock, RefreshBlacklist, LogoutRead,
           LogoutLock, LogoutBlacklist, Deactivates, DeactivateBegin, ResetBegin,
           RevokeCredential, RevokeRows, rows, history
    <2> QED
        BY <2>1
<1> QED
    BY <1>1, <1>2, <1>3, <1>4

-----------------------------------------------------------------------------
(* The row of an account *)

\* Steps after which a request holds no account that it did not hold before.
LEMMA AccountLockKept ==
    ASSUME AccountLock,
           \A s \in Request : \A a \in Account : HoldsAccount(s, a)' => HoldsAccount(s, a)
    PROVE  AccountLock'
BY DEF AccountLock

\* A request takes the row of an account only while it is free.
LEMMA AccountLockTaken ==
    ASSUME AccountLock, NEW r \in Request, NEW b \in Account, AccountFree(b),
           \A s \in Request \ {r} : req'[s] = req[s],
           req'[r].account = b
    PROVE  AccountLock'
BY DEF AccountLock, AccountFree, HoldsAccount

LEMMA AccountLockStep ==
    ASSUME TypeOK, RequestShape, AccountLock, NEW r \in Request,
           \/ LoginStep(r) \/ RefreshStep(r) \/ LogoutStep(r) \/ RevokeStep(r)
           \/ Abort(r)
    PROVE  AccountLock'
<1>1. ASSUME NEW a \in Account, Deactivates(r, a) \/ ResetBegin(r, a)
      PROVE AccountLock'
    <2>1. \A s \in Request \ {r} : req'[s] = req[s]
        BY <1>1 DEF Deactivates, DeactivateBegin, ResetBegin, TypeOK
    <2>2. req'[r].account = a
        BY <1>1 DEF Deactivates, DeactivateBegin, ResetBegin, Idle, TypeOK
    <2> QED
        BY <1>1, <2>1, <2>2, AccountLockTaken DEF Deactivates, DeactivateBegin, ResetBegin
<1>2. ASSUME LoginLock(r) PROVE AccountLock'
    <2>1. \A s \in Request \ {r} : req'[s] = req[s]
        BY <1>2 DEF LoginLock, TypeOK
    <2>2. req'[r].account = req[r].account /\ req[r].account \in Account
        BY <1>2 DEF LoginLock, TypeOK, RequestShape, RequestState
    <2> QED
        BY <1>2, <2>1, <2>2, AccountLockTaken DEF LoginLock
<1>3. ASSUME NEW a \in Account, LoginRead(r, a) PROVE AccountLock'
    BY <1>3, AccountLockKept DEF LoginRead, HoldsAccount, Idle, TypeOK
<1>4. ASSUME NEW k \in Pair, RefreshRead(r, k) PROVE AccountLock'
    BY <1>4, AccountLockKept DEF RefreshRead, HoldsAccount, Idle, TypeOK
<1>5. ASSUME NEW k \in Pair, NEW w \in BOOLEAN, LogoutRead(r, k, w)
      PROVE AccountLock'
    BY <1>5, AccountLockKept DEF LogoutRead, HoldsAccount, Idle, TypeOK
<1>6. ASSUME req' = [req EXCEPT ![r] = Idle] PROVE AccountLock'
    BY <1>6, AccountLockKept, IdleFields DEF HoldsAccount, TypeOK
<1>7. ASSUME RefreshLock(r) \/ RefreshBlacklist(r) PROVE AccountLock'
    <2>1. CASE RefreshLock(r) /\ RowActive(req[r].pair)
        BY <2>1, AccountLockKept DEF RefreshLock, HoldsAccount, TypeOK, RequestState
    <2>2. CASE RefreshLock(r) /\ ~RowActive(req[r].pair)
        BY <2>2, <1>6 DEF RefreshLock
    <2>3. CASE RefreshBlacklist(r)
        BY <2>3, AccountLockKept DEF RefreshBlacklist, HoldsAccount, TypeOK, RequestState
    <2> QED
        BY <1>7, <2>1, <2>2, <2>3
<1>8. ASSUME LogoutLock(r) \/ LogoutBlacklist(r) PROVE AccountLock'
    <2>1. CASE LogoutLock(r)
        BY <2>1, AccountLockKept DEF LogoutLock, HoldsAccount, TypeOK, RequestState
    <2>2. CASE LogoutBlacklist(r)
        BY <2>2, AccountLockKept DEF LogoutBlacklist, HoldsAccount, TypeOK, RequestState
    <2> QED
        BY <1>8, <2>1, <2>2
<1>9. ASSUME RevokeCredential(r) \/ RevokeRows(r) PROVE AccountLock'
    <2>1. CASE RevokeCredential(r)
        BY <2>1, AccountLockKept DEF RevokeCredential, HoldsAccount, TypeOK, RequestState
    <2>2. CASE RevokeRows(r)
        BY <2>2, AccountLockKept DEF RevokeRows, HoldsAccount, TypeOK, RequestState
    <2> QED
        BY <1>9, <2>1, <2>2
<1>10. ASSUME \/ \E k \in Pair : LoginCommit(r, k) \/ RefreshCommit(r, k)
              \/ LogoutCommit(r) \/ RevokeCommit(r) \/ Abort(r)
       PROVE AccountLock'
    BY <1>10, <1>6 DEF LoginCommit, RefreshCommit, LogoutCommit, RevokeCommit, Abort
<1> QED
    BY <1>1, <1>2, <1>3, <1>4, <1>5, <1>7, <1>8, <1>9, <1>10
    DEF LoginStep, RefreshStep, LogoutStep, RevokeStep, Deactivates

-----------------------------------------------------------------------------
(* The order of password_changed_at *)

\* What StampOrder says of one request.
RequestStamp(r) ==
    /\ req[r].op \in {"login", "refresh"}
          => ReadFrom(req[r].stamp, req[r].epoch, req[r].account)
    /\ Revoking(r) /\ req[r].pc \in {"lockRows", "commit"}
          => /\ changedAt[req[r].account] <= req[r].stamp
             /\ req[r].stamp <= now

\* Steps that only advance one request, or start or end it.
LEMMA StampOrderKept ==
    ASSUME StampOrder,
           UNCHANGED <<now, changedAt, owner, stamp, readEpoch, epoch, tied>>,
           NEW r \in Request, \A s \in Request \ {r} : req'[s] = req[s],
           RequestStamp(r)'
    PROVE  StampOrder'
BY DEF StampOrder, RequestStamp, Revoking, ReadFrom

LEMMA IdleStamp ==
    ASSUME NEW r \in Request, req'[r] = Idle
    PROVE  RequestStamp(r)'
BY IdleFields DEF RequestStamp, Revoking

\* An issued pair carries the stamp of its request, which is not ahead of the
\* credential; a revocation writes the time it has read while holding the row
\* of the account.
LEMMA StampOrderStep ==
    ASSUME TypeOK, RequestShape, AccountLock, StampOrder, NEW r \in Request,
           \/ LoginStep(r) \/ RefreshStep(r) \/ LogoutStep(r) \/ RevokeStep(r)
           \/ Abort(r)
    PROVE  StampOrder'
<1> USE BoundsAssumption
<1>0. RequestStamp(r)
    BY DEF StampOrder, RequestStamp
<1>1. ASSUME NEW a \in Account,
             LoginRead(r, a) \/ Deactivates(r, a) \/ ResetBegin(r, a)
      PROVE StampOrder'
    <2>1. UNCHANGED <<now, changedAt, owner, stamp, readEpoch, epoch, tied>>
        BY <1>1 DEF LoginRead, Deactivates, DeactivateBegin, ResetBegin, rows, history
    <2>2. \A s \in Request \ {r} : req'[s] = req[s]
        BY <1>1 DEF LoginRead, Deactivates, DeactivateBegin, ResetBegin, TypeOK
    <2>3. CASE LoginRead(r, a)
        <3>1. ReadFrom(changedAt[a], epoch[a], a)
            BY DEF ReadFrom, TypeOK, Time
        <3>2. RequestStamp(r)'
            BY <2>1, <2>3, <3>1
            DEF LoginRead, Idle, ReadFrom, RequestStamp, Revoking, TypeOK
        <3> QED
            BY <2>1, <2>2, <3>2, StampOrderKept
    <2>4. CASE Deactivates(r, a) \/ ResetBegin(r, a)
        <3>1. req'[r].pc = "credential" /\ req'[r].op \in {"deactivate", "reset"}
            <4>1. CASE Deactivates(r, a)
                BY <4>1 DEF Deactivates, DeactivateBegin, Idle, TypeOK
            <4>2. CASE ResetBegin(r, a)
                BY <4>2 DEF ResetBegin, Idle, TypeOK
            <4> QED
                BY <2>4, <4>1, <4>2
        <3>2. RequestStamp(r)'
            BY <3>1 DEF RequestStamp, Revoking
        <3> QED
            BY <2>1, <2>2, <3>2, StampOrderKept
    <2> QED
        BY <1>1, <2>3, <2>4
<1>2. ASSUME NEW k \in Pair, RefreshRead(r, k) PROVE StampOrder'
    <2>1. owner[k] \in Account
        BY <1>2 DEF RefreshRead, RefreshAdmitted, Issued, TypeOK
    <2>2. ReadFrom(changedAt[owner[k]], epoch[owner[k]], owner[k])
        BY <2>1 DEF ReadFrom, TypeOK, Time
    <2>3. RequestStamp(r)'
        BY <1>2, <2>2 DEF RefreshRead, rows, history, ReadFrom, Idle, RequestStamp, Revoking, TypeOK
    <2> QED
        BY <1>2, <2>3, StampOrderKept DEF RefreshRead, rows, history, TypeOK
<1>3. ASSUME NEW k \in Pair, NEW w \in BOOLEAN, LogoutRead(r, k, w)
      PROVE StampOrder'
    <2>1. RequestStamp(r)'
        BY <1>3 DEF LogoutRead, Idle, RequestStamp, Revoking, TypeOK
    <2> QED
        BY <1>3, <2>1, StampOrderKept DEF LogoutRead, rows, history, TypeOK
<1>4. ASSUME LoginLock(r) PROVE StampOrder'
    <2>1. RequestStamp(r)'
        BY <1>0, <1>4 DEF LoginLock, rows, history, ReadFrom, RequestStamp, Revoking, TypeOK, RequestState
    <2> QED
        BY <1>4, <2>1, StampOrderKept DEF LoginLock, rows, history, TypeOK
<1>5. ASSUME RefreshLock(r) PROVE StampOrder'
    <2>1. CASE RowActive(req[r].pair)
        <3>1. RequestStamp(r)'
            BY <1>0, <1>5, <2>1
            DEF RefreshLock, rows, history, ReadFrom, RequestStamp, Revoking, TypeOK, RequestState
        <3> QED
            BY <1>5, <2>1, <3>1, StampOrderKept DEF RefreshLock, rows, history, TypeOK
    <2>2. CASE ~RowActive(req[r].pair)
        BY <1>5, <2>2, StampOrderKept, IdleStamp DEF RefreshLock, rows, history, TypeOK
    <2> QED
        BY <2>1, <2>2
<1>6. ASSUME RefreshBlacklist(r) PROVE StampOrder'
    <2>1. RequestStamp(r)'
        BY <1>0, <1>6 DEF RefreshBlacklist, rows, history, ReadFrom, RequestStamp, Revoking, TypeOK, RequestState
    <2> QED
        BY <1>6, <2>1, StampOrderKept DEF RefreshBlacklist, rows, history, TypeOK
<1>7. ASSUME LogoutLock(r) PROVE StampOrder'
    <2>1. RequestStamp(r)'
        BY <1>0, <1>7 DEF LogoutLock, rows, history, ReadFrom, RequestStamp, Revoking, TypeOK, RequestState
    <2> QED
        BY <1>7, <2>1, StampOrderKept DEF LogoutLock, rows, history, TypeOK
<1>8. ASSUME LogoutBlacklist(r) PROVE StampOrder'
    <2>1. RequestStamp(r)'
        BY <1>0, <1>8 DEF LogoutBlacklist, rows, history, ReadFrom, RequestStamp, Revoking, TypeOK, RequestState
    <2> QED
        BY <1>8, <2>1, StampOrderKept DEF LogoutBlacklist, rows, history, TypeOK
<1>9. ASSUME NEW k \in Pair, LoginCommit(r, k) \/ RefreshCommit(r, k)
      PROVE StampOrder'
    <2>1. /\ req[r].account \in Account
          /\ ReadFrom(req[r].stamp, req[r].epoch, req[r].account)
        BY <1>0, <1>9 DEF LoginCommit, RefreshCommit, RequestShape, RequestStamp
    <2>2. /\ UNCHANGED <<now, changedAt, epoch, tied>>
          /\ owner' = [owner EXCEPT ![k] = req[r].account]
          /\ stamp' = [stamp EXCEPT ![k] = req[r].stamp]
          /\ readEpoch' = [readEpoch EXCEPT ![k] = req[r].epoch]
          /\ req' = [req EXCEPT ![r] = Idle]
        BY <1>9 DEF LoginCommit, RefreshCommit, Issue
    <2>3. ASSUME NEW p \in Pair, owner'[p] # None
          PROVE  ReadFrom(stamp'[p], readEpoch'[p], owner'[p])
        BY <2>1, <2>2, <2>3 DEF StampOrder, TypeOK
    <2>4. \A st, ep, a : ReadFrom(st, ep, a) => ReadFrom(st, ep, a)'
        BY <2>2 DEF ReadFrom
    <2>5. \A s \in Request \ {r} : RequestStamp(s)'
        BY <2>2, <2>4 DEF StampOrder, RequestStamp, Revoking, TypeOK
    <2>6. RequestStamp(r)'
        BY <2>2, IdleStamp DEF TypeOK
    <2> QED
        BY <2>2, <2>3, <2>4, <2>5, <2>6 DEF StampOrder, RequestStamp, ReadFrom
<1>10. ASSUME LogoutCommit(r) \/ Abort(r) PROVE StampOrder'
    <2>1. CASE LogoutCommit(r)
        BY <2>1, StampOrderKept, IdleStamp DEF LogoutCommit, TypeOK
    <2>2. CASE Abort(r)
        BY <2>2, StampOrderKept, IdleStamp DEF Abort, rows, history, TypeOK
    <2> QED
        BY <1>10, <2>1, <2>2
<1>11. ASSUME RevokeCredential(r) PROVE StampOrder'
    <2>1. req[r].account \in Account /\ changedAt[req[r].account] <= now
        BY <1>11 DEF RevokeCredential, RequestShape, StampOrder
    <2>2. now <= now
        BY DEF TypeOK, Time
    <2>3. RequestStamp(r)'
        BY <1>11, <2>1, <2>2
        DEF RevokeCredential, rows, history, ReadFrom, RequestStamp, Revoking, TypeOK, RequestState
    <2> QED
        BY <1>11, <2>3, StampOrderKept DEF RevokeCredential, rows, history, TypeOK
<1>12. ASSUME RevokeRows(r) PROVE StampOrder'
    <2>1. RequestStamp(r)'
        BY <1>0, <1>12 DEF RevokeRows, rows, history, ReadFrom, RequestStamp, Revoking, TypeOK, RequestState
    <2> QED
        BY <1>12, <2>1, StampOrderKept DEF RevokeRows, rows, history, TypeOK
<1>13. ASSUME RevokeCommit(r) PROVE StampOrder'
    <2> DEFINE a == req[r].account
    <2>1. /\ UNCHANGED <<now, owner, stamp, readEpoch>>
          /\ changedAt' = [changedAt EXCEPT ![a] = req[r].stamp]
          /\ epoch' = [epoch EXCEPT ![a] = @ + 1]
          /\ tied' = tied \cup {b \in {a} : req[r].stamp = changedAt[a]}
          /\ req' = [req EXCEPT ![r] = Idle]
        BY <1>13 DEF RevokeCommit
    <2>2. /\ a \in Account /\ HoldsAccount(r, a)
          /\ changedAt[a] <= req[r].stamp /\ req[r].stamp <= now
          /\ changedAt[a] \in Int /\ req[r].stamp \in Int
        BY <1>0, <1>13
        DEF RevokeCommit, RequestShape, RequestStamp, Revoking, HoldsAccount, TypeOK,
            RequestState, Time
    <2>3. \A b \in Account : changedAt'[b] <= now'
        BY <2>1, <2>2 DEF StampOrder, TypeOK
    <2>4. ASSUME NEW st \in Int, NEW ep \in Int, NEW b \in Account, ReadFrom(st, ep, b)
          PROVE  ReadFrom(st, ep, b)'
        <3>1. epoch[b] \in Int /\ changedAt[b] \in Int
            BY DEF TypeOK, Time
        <3>2. CASE b = a
            <4>1. epoch'[b] = epoch[b] + 1 /\ changedAt'[b] = req[r].stamp
                BY <2>1, <2>2, <3>2 DEF TypeOK
            <4>2. b \notin tied' => req[r].stamp # changedAt[b]
                BY <2>1, <3>2
            <4> QED
                BY <2>2, <2>4, <3>1, <3>2, <4>1, <4>2 DEF ReadFrom
        <3>3. CASE b # a
            BY <2>1, <2>4, <3>3 DEF ReadFrom, TypeOK
        <3> QED
            BY <3>2, <3>3
    <2>5. ASSUME NEW p \in Pair, owner'[p] # None
          PROVE  ReadFrom(stamp[p], readEpoch[p], owner[p])'
        <3>1. /\ owner[p] \in Account /\ stamp[p] \in Int /\ readEpoch[p] \in Int
              /\ ReadFrom(stamp[p], readEpoch[p], owner[p])
            BY <2>1, <2>5 DEF StampOrder, TypeOK, Time
        <3>2. ReadFrom(stamp[p], readEpoch[p], owner[p])
              => /\ stamp[p] <= changedAt'[owner[p]] /\ readEpoch[p] <= epoch'[owner[p]]
                 /\ readEpoch[p] < epoch'[owner[p]] /\ owner[p] \notin tied'
                    => stamp[p] < changedAt'[owner[p]]
            BY <2>4, <3>1 DEF ReadFrom
        <3> QED
            BY <2>1, <3>1, <3>2 DEF ReadFrom
    <2>6. ASSUME NEW s \in Request, s # r PROVE RequestStamp(s)'
        <3>1. req'[s] = req[s] /\ RequestStamp(s)
            BY <2>1, <2>6 DEF StampOrder, RequestStamp, TypeOK
        <3>2. CASE req[s].op \in {"login", "refresh"}
            <4>1. /\ req[s].account \in Account /\ req[s].stamp \in Int
                  /\ req[s].epoch \in Int
                BY <3>2 DEF RequestShape, TypeOK, RequestState, Time
            <4>2. ReadFrom(req[s].stamp, req[s].epoch, req[s].account)
                BY <3>1, <3>2 DEF RequestStamp
            <4>3. /\ req[s].stamp <= changedAt'[req[s].account]
                  /\ req[s].epoch <= epoch'[req[s].account]
                  /\ req[s].epoch < epoch'[req[s].account] /\ req[s].account \notin tied'
                     => req[s].stamp < changedAt'[req[s].account]
                BY <2>4, <4>1, <4>2 DEF ReadFrom
            <4> QED
                BY <3>1, <3>2, <4>3 DEF RequestStamp, Revoking, ReadFrom
        <3>3. CASE Revoking(s) /\ req[s].pc \in {"lockRows", "commit"}
            <4>1. req[s].account \in Account /\ HoldsAccount(s, req[s].account)
                BY <3>3 DEF Revoking, RequestShape, HoldsAccount
            <4>2. req[s].account # a
                BY <2>2, <2>6, <4>1 DEF AccountLock
            <4> QED
                BY <2>1, <3>1, <3>3, <4>1, <4>2 DEF RequestStamp, Revoking, TypeOK
        <3>4. CASE ~ \/ req[s].op \in {"login", "refresh"}
                     \/ Revoking(s) /\ req[s].pc \in {"lockRows", "commit"}
            BY <3>1, <3>4 DEF RequestStamp, Revoking
        <3> QED
            BY <3>2, <3>3, <3>4
    <2>7. RequestStamp(r)'
        BY <2>1, IdleStamp DEF TypeOK
    <2> QED
        BY <2>1, <2>3, <2>5, <2>6, <2>7 DEF StampOrder, RequestStamp
<1> QED
    BY <1>1, <1>2, <1>3, <1>4, <1>5, <1>6, <1>7, <1>8, <1>9, <1>10, <1>11, <1>12,
       <1>13 DEF LoginStep, RefreshStep, LogoutStep, RevokeStep, Deactivates

-----------------------------------------------------------------------------
(* The inductive invariant *)

LEMMA InitIInv == Init => IInv
<1> SUFFICES ASSUME Init PROVE IInv
    OBVIOUS
<1>1. TypeOK
    BY InitTypeOK
<1>2. RequestShape /\ LockedRows /\ AccountLock
    BY IdleFields DEF Init, RequestShape, LockedRows, AccountLock, HoldsAccount, Revoking
<1>3. ParentsRevoked /\ RotatedAtMostOnce
    BY DEF Init, ParentsRevoked, RotatedAtMostOnce
<1>4. StampOrder
    BY IdleFields DEF Init, StampOrder, Revoking
<1> QED
    BY <1>1, <1>2, <1>3, <1>4 DEF IInv

LEMMA RequestStepIInv ==
    ASSUME IInv, NEW r \in Request,
           \/ LoginStep(r) \/ RefreshStep(r) \/ LogoutStep(r) \/ RevokeStep(r)
           \/ Abort(r)
    PROVE  IInv'
<1> USE DEF IInv
<1>1. TypeOK'
    BY SessionTypeOK, RevokeTypeOK
<1>2. RequestShape'
    BY SessionShape, RevokeShape
<1>3. LockedRows' /\ AccountLock' /\ StampOrder'
    BY LockedRowsStep, AccountLockStep, StampOrderStep
<1>4. ParentsRevoked' /\ RotatedAtMostOnce'
    BY RotationStep
<1> QED
    BY <1>1, <1>2, <1>3, <1>4

\* The clock, Redis and a change of status touch no row that the invariant
\* relates to a request.
LEMMA EnvironmentIInv ==
    ASSUME IInv,
           \/ \E a \in Account, s \in AccountStatus : SetStatus(a, s)
           \/ Tick \/ RedisFails \/ RedisRecovers
    PROVE  IInv'
<1> USE DEF IInv
<1>1. TypeOK'
    BY EnvironmentTypeOK
<1>2. UNCHANGED <<changedAt, owner, stamp, revoked, req, parent, readEpoch, epoch,
                  tied>>
    BY DEF SetStatus, Tick, RedisFails, RedisRecovers, rows, history
<1>3. now \in Int /\ now' \in Int /\ now <= now'
    BY BoundsAssumption
    DEF SetStatus, Tick, RedisFails, RedisRecovers, rows, history, TypeOK, Time
<1>4. RequestShape' /\ LockedRows' /\ AccountLock' /\ ParentsRevoked' /\ RotatedAtMostOnce'
    BY <1>2 DEF RequestShape, LockedRows, AccountLock, HoldsAccount, ParentsRevoked,
                RotatedAtMostOnce, Revoking
<1>5. StampOrder'
    <2>1. \A a \in Account : changedAt[a] <= now'
        BY <1>3, BoundsAssumption DEF StampOrder, TypeOK, Time
    <2>2. \A r \in Request : req[r].stamp <= now => req[r].stamp <= now'
        BY <1>3, BoundsAssumption DEF TypeOK, RequestState, Time
    <2> QED
        BY <1>2, <2>1, <2>2 DEF StampOrder, Revoking, ReadFrom
<1> QED
    BY <1>1, <1>4, <1>5

LEMMA StutterIInv == IInv /\ UNCHANGED vars => IInv'
BY DEF IInv, vars, rows, history, TypeOK, RequestShape, LockedRows, AccountLock,
       HoldsAccount, ParentsRevoked, RotatedAtMostOnce, StampOrder, Revoking, ReadFrom

\* The inductive invariant holds in every reachable state.
THEOREM Invariance == Spec => []IInv
<1>1. Init => IInv
    BY InitIInv
<1>2. IInv /\ [Next]_vars => IInv'
    BY RequestStepIInv, EnvironmentIInv, StutterIInv DEF Next
<1> QED
    BY <1>1, <1>2, PTL DEF Spec

-----------------------------------------------------------------------------
(* Theorems *)

\* Every variable of the token session keeps its type.
THEOREM TypeCorrect == Spec => []TypeOK
<1>1. IInv => TypeOK
    BY DEF IInv
<1> QED
    BY <1>1, Invariance, PTL

\* However many workers exchange refresh tokens at once, no refresh token has
\* two successors (row lock and is_active test of refresh_token_pair).
THEOREM RotationSafe == Spec => []RotatedAtMostOnce
<1>1. IInv => RotatedAtMostOnce
    BY DEF IInv
<1> QED
    BY <1>1, Invariance, PTL

\* A refresh never exchanges a token whose revocation is committed, whichever
\* of logout, deactivation, password reset or another refresh revoked it.
THEOREM RevocationRespected == Spec => RevokedNeverRotated
<1> DEFINE Respects ==
        \A k, p \in Pair : parent[k] # p /\ parent'[k] = p => ~revoked[p]
<1>1. IInv /\ [Next]_vars => [Respects]_vars
    <2> SUFFICES ASSUME IInv, Next PROVE Respects
        OBVIOUS
    <2>1. ASSUME NEW r \in Request,
                 \/ LoginStep(r) \/ RefreshStep(r) \/ LogoutStep(r)
                 \/ RevokeStep(r) \/ Abort(r)
          PROVE  Respects
        BY <2>1, RotationStep DEF IInv
    <2>2. ASSUME \/ \E a \in Account, s \in AccountStatus : SetStatus(a, s)
                 \/ Tick \/ RedisFails \/ RedisRecovers
          PROVE  Respects
        BY <2>2 DEF SetStatus, Tick, RedisFails, RedisRecovers, history
    <2> QED
        BY <2>1, <2>2 DEF Next
<1> QED
    BY <1>1, Invariance, PTL DEF Spec, RevokedNeverRotated

\* No pair issued from a credential read before a revocation passes the checks
\* of authenticate_access_token or refresh_token_pair after it, for any number
\* of revocations, unless two password changes carry one millisecond.
THEOREM RevocationSafe == Spec => []RevocationCutsOffOldCredentials
<1>1. IInv => RevocationCutsOffOldCredentials
    <2> SUFFICES ASSUME IInv, NEW k \in Pair, Issued(k),
                        readEpoch[k] < epoch[owner[k]], owner[k] \notin tied
                 PROVE  ~PasswordCurrent(k)
        BY DEF RevocationCutsOffOldCredentials, AccessAccepted, RefreshAdmitted
    <2>1. owner[k] \in Account /\ stamp[k] < changedAt[owner[k]]
        BY DEF IInv, StampOrder, ReadFrom, TypeOK, Issued
    <2>2. stamp[k] \in Int /\ changedAt[owner[k]] \in Int
        BY <2>1, BoundsAssumption DEF IInv, TypeOK, Time
    <2> QED
        BY <2>1, <2>2 DEF PasswordCurrent
<1> QED
    BY <1>1, Invariance, PTL

-----------------------------------------------------------------------------
(* The order of the row locks *)

\* A request holds rows of refresh tokens only once it needs no lock but that of the
\* key of its account, and it is a revocation if it has that lock.
LockShape ==
    \A r \in Request :
        /\ req[r].locked # {} => req[r].pc \in {"blacklist", "commit"}
        /\ req[r].newKey => Revoking(r)
        /\ Revoking(r) => req[r].pc \in {"credential", "lockRows", "commit"}

\* How far a request is from the end of its row locks.
Rank(r) ==
    CASE req[r].pc = "lockAccount" -> 2
      [] req[r].pc \in {"lockToken", "lockRows"} -> 1
      [] OTHER -> 0

\* A request that waits for another has further to go, so that no set of requests waits
\* in a circle, but for the insert of a blacklist row, which waits for a revocation that
\* has locked the key of the account.
LockOrder ==
    \A r, s \in Request : WaitsFor(r, s) =>
        \/ Rank(s) < Rank(r)
        \/ req[r].pc = "blacklist" /\ BlocksKeyShare(s, req[r].account)

LEMMA LockShapeStep ==
    ASSUME TypeOK, LockShape, [Next]_vars
    PROVE  LockShape'
<1> DEFINE Fits(m) == /\ m.locked # {} => m.pc \in {"blacklist", "commit"}
                      /\ m.newKey => m.op \in {"deactivate", "reset"}
                      /\ m.op \in {"deactivate", "reset"}
                            => m.pc \in {"credential", "lockRows", "commit"}
<1>0. \A r \in Request : Fits(req[r])
    BY DEF LockShape, Revoking
<1>1. ASSUME UNCHANGED req PROVE LockShape'
    BY <1>1 DEF LockShape, Revoking
<1>2. ASSUME NEW r \in Request, \A s \in Request \ {r} : req'[s] = req[s], Fits(req'[r])
      PROVE LockShape'
    BY <1>0, <1>2 DEF LockShape, Revoking
<1>3. ASSUME NEW r \in Request, NEW a \in Account,
             \/ LoginRead(r, a) \/ ResetBegin(r, a)
             \/ Deactivates(r, a)
      PROVE LockShape'
    <2>1. CASE LoginRead(r, a)
        BY <1>2, <2>1 DEF LoginRead, Idle, TypeOK
    <2>2. CASE Deactivates(r, a)
        BY <1>2, <2>2 DEF Deactivates, DeactivateBegin, Idle, TypeOK
    <2>3. CASE ResetBegin(r, a)
        BY <1>2, <2>3 DEF ResetBegin, Idle, TypeOK
    <2> QED
        BY <1>3, <2>1, <2>2, <2>3
<1>4. ASSUME NEW r \in Request, NEW k \in Pair, RefreshRead(r, k) PROVE LockShape'
    BY <1>2, <1>4 DEF RefreshRead, Idle, TypeOK
<1>5. ASSUME NEW r \in Request, NEW k \in Pair, NEW w \in BOOLEAN, LogoutRead(r, k, w)
      PROVE LockShape'
    BY <1>2, <1>5 DEF LogoutRead, Idle, TypeOK
<1>6. ASSUME NEW r \in Request, req' = [req EXCEPT ![r] = Idle] PROVE LockShape'
    BY <1>2, <1>6 DEF TypeOK, Idle
<1>7. ASSUME NEW r \in Request, LoginLock(r) PROVE LockShape'
    BY <1>0, <1>2, <1>7 DEF LoginLock, TypeOK, RequestState
<1>8. ASSUME NEW r \in Request, RefreshLock(r) PROVE LockShape'
    <2>1. CASE RowActive(req[r].pair)
        <3>1. \A s \in Request \ {r} : req'[s] = req[s]
            BY <1>8, <2>1 DEF RefreshLock, TypeOK
        <3>2. /\ req'[r].op = req[r].op /\ req'[r].newKey = req[r].newKey
              /\ req'[r].pc = "blacklist"
            BY <1>8, <2>1 DEF RefreshLock, TypeOK, RequestState
        <3>3. Fits(req[r]) /\ req[r].op = "refresh"
            BY <1>0, <1>8 DEF RefreshLock
        <3> QED
            BY <1>2, <3>1, <3>2, <3>3
    <2>2. CASE ~RowActive(req[r].pair)
        BY <1>6, <1>8, <2>2 DEF RefreshLock
    <2> QED
        BY <2>1, <2>2
<1>9. ASSUME NEW r \in Request, RefreshBlacklist(r) \/ LogoutBlacklist(r) PROVE LockShape'
    <2>1. \A s \in Request \ {r} : req'[s] = req[s]
        BY <1>9 DEF RefreshBlacklist, LogoutBlacklist, TypeOK
    <2>2. CASE RefreshBlacklist(r)
        <3>1. /\ req'[r].op = req[r].op /\ req'[r].newKey = req[r].newKey
              /\ req'[r].pc = "commit"
            BY <2>2 DEF RefreshBlacklist, TypeOK, RequestState
        <3>2. Fits(req[r]) /\ req[r].op = "refresh"
            BY <1>0, <2>2 DEF RefreshBlacklist
        <3> QED
            BY <1>2, <2>1, <3>1, <3>2
    <2>3. CASE LogoutBlacklist(r)
        <3>1. /\ req'[r].op = req[r].op /\ req'[r].newKey = req[r].newKey
              /\ req'[r].pc = "commit"
            BY <2>3 DEF LogoutBlacklist, TypeOK, RequestState
        <3>2. Fits(req[r]) /\ req[r].op = "logout"
            BY <1>0, <2>3 DEF LogoutBlacklist
        <3> QED
            BY <1>2, <2>1, <3>1, <3>2
    <2> QED
        BY <1>9, <2>2, <2>3
<1>10. ASSUME NEW r \in Request, LogoutLock(r) PROVE LockShape'
    <2>1. \A s \in Request \ {r} : req'[s] = req[s]
        BY <1>10 DEF LogoutLock, TypeOK
    <2>2. /\ req'[r].op = req[r].op /\ req'[r].newKey = req[r].newKey
          /\ req'[r].pc = "blacklist"
        BY <1>10 DEF LogoutLock, TypeOK, RequestState
    <2>3. Fits(req[r]) /\ req[r].op = "logout"
        BY <1>0, <1>10 DEF LogoutLock
    <2> QED
        BY <1>2, <2>1, <2>2, <2>3
<1>11. ASSUME NEW r \in Request, RevokeCredential(r) PROVE LockShape'
    <2>1. \A s \in Request \ {r} : req'[s] = req[s]
        BY <1>11 DEF RevokeCredential, TypeOK
    <2>2. /\ req'[r].locked = req[r].locked /\ req'[r].op = req[r].op
          /\ req'[r].newKey = req[r].newKey /\ req'[r].pc = "lockRows"
        BY <1>11 DEF RevokeCredential, TypeOK, RequestState
    <2>3. Fits(req[r]) /\ req[r].pc = "credential"
        BY <1>0, <1>11 DEF RevokeCredential
    <2> QED
        BY <1>2, <2>1, <2>2, <2>3
<1>12. ASSUME NEW r \in Request, RevokeRows(r) PROVE LockShape'
    <2>1. \A s \in Request \ {r} : req'[s] = req[s]
        BY <1>12 DEF RevokeRows, TypeOK
    <2>2. /\ req'[r].op = req[r].op /\ req'[r].newKey = req[r].newKey
          /\ req'[r].pc = "commit"
        BY <1>12 DEF RevokeRows, TypeOK, RequestState
    <2> QED
        BY <1>0, <1>2, <2>1, <2>2
<1>13. ASSUME NEW r \in Request,
              \/ \E k \in Pair : LoginCommit(r, k) \/ RefreshCommit(r, k)
              \/ LogoutCommit(r) \/ RevokeCommit(r) \/ Abort(r)
       PROVE LockShape'
    BY <1>6, <1>13 DEF LoginCommit, RefreshCommit, LogoutCommit, RevokeCommit, Abort
<1>14. ASSUME \/ \E a \in Account, s \in AccountStatus : SetStatus(a, s)
              \/ Tick \/ RedisFails \/ RedisRecovers \/ UNCHANGED vars
       PROVE LockShape'
    BY <1>1, <1>14 DEF SetStatus, Tick, RedisFails, RedisRecovers, vars
<1> QED
    BY <1>3, <1>4, <1>5, <1>7, <1>8, <1>9, <1>10, <1>11, <1>12, <1>13, <1>14
    DEF Next, LoginStep, RefreshStep, LogoutStep, RevokeStep, Deactivates

LEMMA LockShapeInvariance == Spec => []LockShape
<1>1. Init => LockShape
    BY DEF Init, Idle, LockShape, Revoking
<1>2. TypeOK /\ LockShape /\ [Next]_vars => LockShape'
    BY LockShapeStep
<1> QED
    BY <1>1, <1>2, TypeCorrect, PTL DEF Spec

\* Requests wait for each other along an order of the steps of login, refresh, logout,
\* revoke_account_tokens and update_managed_account, however many there are: a circle of
\* any length has a revocation in it that locked the key of an account.
THEOREM LocksOrdered == Spec => []LockOrder
<1>1. LockShape => LockOrder
    <2> SUFFICES ASSUME LockShape, NEW r \in Request, NEW s \in Request, WaitsFor(r, s)
                 PROVE  \/ Rank(s) < Rank(r)
                        \/ req[r].pc = "blacklist" /\ BlocksKeyShare(s, req[r].account)
        BY DEF LockOrder
    <2>1. CASE req[r].pc = "lockAccount"
        BY <2>1 DEF WaitsFor, HoldsAccount, Rank
    <2>2. CASE req[r].pc \in {"lockToken", "lockRows"}
        BY <2>2 DEF WaitsFor, LockShape, Rank
    <2>3. CASE req[r].pc = "blacklist"
        BY <2>3 DEF WaitsFor
    <2> QED
        BY <2>1, <2>2, <2>3 DEF WaitsFor
<1> QED
    BY <1>1, LockShapeInvariance, PTL

\* Two requests wait for each other only if one is a deactivation that changes the email
\* or phone of its account, or a reset, and the other a refresh or logout about to insert
\* its blacklist row.
THEOREM DeadlocksNamed == Spec => []OnlyKeyLocksDeadlock
<1>1. ASSUME LockShape, LockOrder, NEW r \in Request, NEW s \in Request,
             WaitsFor(r, s), WaitsFor(s, r), req[r].pc = "blacklist"
      PROVE  KeyCircle(s, r)
    <2>1. BlocksKeyShare(s, req[r].account)
        BY <1>1 DEF WaitsFor
    <2>2. req[s].newKey /\ req[s].pc \in {"credential", "lockRows", "commit"}
        BY <1>1, <2>1 DEF BlocksKeyShare, LockShape
    <2>3. req[s].pc = "lockRows"
        BY <1>1, <2>2 DEF WaitsFor
    <2> QED
        BY <1>1, <2>2, <2>3 DEF KeyCircle
<1>2. ASSUME LockShape, LockOrder, NEW r \in Request, NEW s \in Request,
             WaitsFor(r, s), WaitsFor(s, r)
      PROVE  KeyCircle(r, s) \/ KeyCircle(s, r)
    <2>1. CASE req[r].pc = "blacklist" \/ req[s].pc = "blacklist"
        BY <1>1, <1>2, <2>1
    <2>2. CASE ~(req[r].pc = "blacklist" \/ req[s].pc = "blacklist")
        <3>1. Rank(s) < Rank(r) /\ Rank(r) < Rank(s)
            BY <1>2, <2>2 DEF LockOrder
        <3>2. Rank(r) \in Int /\ Rank(s) \in Int
            BY DEF Rank
        <3> QED
            BY <3>1, <3>2
    <2> QED
        BY <2>1, <2>2
<1>3. LockShape /\ LockOrder => OnlyKeyLocksDeadlock
    BY <1>2 DEF OnlyKeyLocksDeadlock
<1> QED
    BY <1>3, LockShapeInvariance, LocksOrdered, PTL

-----------------------------------------------------------------------------
(* Logout *)

\* The key of an access token outlasts the token, but for its last second: the time
\* that remains to the token is cut to whole seconds.
Covered(k) ==
    \/ Exp("access", k) < now + TicksPerSecond
    \/ redisUntil[<<"access", k>>] + TicksPerSecond > Exp("access", k)

\* A logout given the access token has written its key before it commits, if Redis
\* answered then.
LogoutCovered ==
    /\ \A k \in keyed : owner[k] # None /\ Covered(k)
    /\ \A r \in Request : req[r].op = "logout" =>
          /\ owner[req[r].pair] # None
          /\ req[r].pc = "commit" /\ req[r].withAccess /\ req[r].keyed
                => Covered(req[r].pair)

\* ... and its row, with which it commits, stays.
LogoutRecorded == \A k \in loggedOut : <<"access", k>> \in blacklist

\* Cutting to whole seconds loses less than one.
LEMMA WholeSecondsBounds ==
    ASSUME NEW t \in Int
    PROVE  WholeSeconds(t) <= t /\ t < WholeSeconds(t) + TicksPerSecond
<1>1. TicksPerSecond \in Nat \ {0}
    BY BoundsAssumption
<1>2. t % TicksPerSecond \in 0 .. TicksPerSecond - 1
    BY <1>1
<1> QED
    BY <1>1, <1>2 DEF WholeSeconds

\* Time passes and keys are written, which covers no token less.
LEMMA CoveredKept ==
    ASSUME TypeOK, NEW k \in Pair, Covered(k),
           issuedAt'[k] = issuedAt[k], now' \in Int, now <= now',
           redisUntil'[<<"access", k>>] = redisUntil[<<"access", k>>]
    PROVE  Covered(k)'
<1>1. Exp("access", k)' = Exp("access", k)
    BY DEF Exp, Lifetime, WholeSeconds
<1>2. /\ Exp("access", k) \in Int /\ now \in Int /\ TicksPerSecond \in Int
      /\ redisUntil[<<"access", k>>] \in Int
    BY ExpiryType, BoundsAssumption DEF TypeOK, Time, Jti
<1> QED
    BY <1>1, <1>2 DEF Covered

\* Redis answers: the key of a token that is logged out, or of any other, covers it.
LEMMA KeyCovers ==
    ASSUME TypeOK, redisUp, NEW k \in Pair, NEW J, <<"access", k>> \in J,
           UNCHANGED <<now, issuedAt>>,
           redisUntil' = BlacklistKeys([j \in Jti |-> Exp(j[1], j[2])], J)
    PROVE  Covered(k)'
<1> DEFINE e == Exp("access", k)
<1>1. e \in Int /\ now \in Int /\ TicksPerSecond \in Nat \ {0}
    BY ExpiryType, BoundsAssumption DEF TypeOK, Time, Jti
<1>2. Exp("access", k)' = e
    BY DEF Exp, Lifetime, WholeSeconds
<1>3. <<"access", k>> \in Jti
    BY DEF Jti
<1>4. redisUntil'[<<"access", k>>] =
        IF KeyUntil(e) > now THEN KeyUntil(e) ELSE redisUntil[<<"access", k>>]
    BY <1>3 DEF BlacklistKeys
<1>5. WholeSeconds(e - now) \in Int /\ e - now < WholeSeconds(e - now) + TicksPerSecond
    BY <1>1, WholeSecondsBounds, WholeSecondsType
<1> HIDE DEF e
<1>6. CASE e > now
    <2>1. KeyUntil(e) = now + WholeSeconds(e - now)
        BY <1>6 DEF KeyUntil
    <2>2. CASE KeyUntil(e) > now
        BY <1>1, <1>2, <1>4, <1>5, <2>1, <2>2 DEF Covered
    <2>3. CASE ~(KeyUntil(e) > now)
        BY <1>1, <1>2, <1>5, <2>1, <2>3 DEF Covered
    <2> QED
        BY <2>2, <2>3
<1>7. CASE ~(e > now)
    BY <1>1, <1>2, <1>7 DEF Covered
<1> QED
    BY <1>6, <1>7

\* Keys of refresh tokens leave those of access tokens alone.
LEMMA RefreshKeysOnly ==
    ASSUME NEW until, NEW J, NEW k \in Pair, <<"access", k>> \notin J
    PROVE  BlacklistKeys(until, J)[<<"access", k>>] = redisUntil[<<"access", k>>]
BY DEF BlacklistKeys, Jti

\* What LogoutCovered says of one request.
RequestCovered(r) ==
    req[r].op = "logout" =>
        /\ owner[req[r].pair] # None
        /\ req[r].pc = "commit" /\ req[r].withAccess /\ req[r].keyed
              => Covered(req[r].pair)

\* Steps that take no pair back, uncover none, log none out, and move one request.
LEMMA LogoutCoveredKept ==
    ASSUME TypeOK, RequestShape, LogoutCovered, keyed' = keyed,
           \A k \in Pair : owner[k] # None => owner'[k] # None,
           \A k \in Pair : owner[k] # None /\ Covered(k) => Covered(k)',
           NEW r \in Request, \A s \in Request \ {r} : req'[s] = req[s],
           RequestCovered(r)'
    PROVE  LogoutCovered'
<1>1. ASSUME NEW k \in keyed' PROVE owner'[k] # None /\ Covered(k)'
    BY <1>1 DEF LogoutCovered, TypeOK
<1>2. ASSUME NEW s \in Request \ {r} PROVE RequestCovered(s)'
    <2>1. req'[s] = req[s] /\ RequestCovered(s)
        BY DEF LogoutCovered, RequestCovered
    <2>2. req[s].op = "logout" => req[s].pair \in Pair
        BY DEF RequestShape
    <2>3. CASE req[s].op = "logout"
        <3> DEFINE k == req[s].pair
        <3>1. /\ k \in Pair /\ owner[k] # None /\ owner'[k] # None
              /\ req[s].pc = "commit" /\ req[s].withAccess /\ req[s].keyed => Covered(k)
            BY <2>1, <2>2, <2>3 DEF RequestCovered
        <3>2. Covered(k) => Covered(k)'
            BY <3>1
        <3>3. /\ req'[s].pair = k /\ req'[s].pc = req[s].pc /\ req'[s].withAccess = req[s].withAccess
              /\ req'[s].keyed = req[s].keyed
            BY <2>1
        <3>4. Covered(k)' => Covered(req[s].pair)'
            BY <2>1
        <3> QED
            BY <3>1, <3>2, <3>3, <3>4 DEF RequestCovered
    <2> QED
        BY <2>1, <2>3 DEF RequestCovered
<1> QED
    BY <1>1, <1>2 DEF LogoutCovered, RequestCovered

\* Requests take up and go on; the keys they write are of refresh tokens.
LEMMA LogoutCoveredStep ==
    ASSUME IInv, LogoutCovered, [Next]_vars
    PROVE  LogoutCovered'
<1> USE DEF IInv
<1>0. now \in Int /\ now <= now
    BY BoundsAssumption DEF TypeOK, Time
<1>1. ASSUME NEW r \in Request, UNCHANGED <<keyed, owner, issuedAt, now>>,
             \A k \in Pair : redisUntil'[<<"access", k>>] = redisUntil[<<"access", k>>],
             \A s \in Request \ {r} : req'[s] = req[s], RequestCovered(r)'
      PROVE  LogoutCovered'
    <2>1. \A k \in Pair : owner[k] # None /\ Covered(k) => Covered(k)'
        BY <1>0, <1>1, CoveredKept
    <2> QED
        BY <1>1, <2>1, LogoutCoveredKept DEF LogoutCovered
<1>2. ASSUME NEW r \in Request, UNCHANGED <<keyed, owner, issuedAt, now, redisUntil>>,
             \A s \in Request \ {r} : req'[s] = req[s], req'[r].op # "logout"
      PROVE  LogoutCovered'
    BY <1>1, <1>2 DEF RequestCovered
<1>3. ASSUME NEW r \in Request, NEW a \in Account,
             \/ LoginRead(r, a) \/ ResetBegin(r, a)
             \/ Deactivates(r, a)
      PROVE  LogoutCovered'
    <2>1. CASE LoginRead(r, a)
        BY <1>2, <2>1 DEF LoginRead, Idle, TypeOK, rows, history
    <2>2. CASE Deactivates(r, a)
        BY <1>2, <2>2 DEF Deactivates, DeactivateBegin, Idle, TypeOK, rows, history
    <2>3. CASE ResetBegin(r, a)
        BY <1>2, <2>3 DEF ResetBegin, Idle, TypeOK, rows, history
    <2> QED
        BY <1>3, <2>1, <2>2, <2>3
<1>4. ASSUME NEW r \in Request, NEW k \in Pair, RefreshRead(r, k) PROVE LogoutCovered'
    BY <1>2, <1>4 DEF RefreshRead, Idle, TypeOK, rows, history
<1>5. ASSUME NEW r \in Request, req' = [req EXCEPT ![r] = Idle],
             UNCHANGED <<keyed, owner, issuedAt, now, redisUntil>>
      PROVE  LogoutCovered'
    BY <1>2, <1>5, IdleFields DEF TypeOK
<1>6. ASSUME NEW r \in Request, LoginLock(r) \/ RevokeCredential(r) PROVE LogoutCovered'
    <2>1. CASE LoginLock(r)
        BY <1>2, <2>1 DEF LoginLock, TypeOK, RequestState, rows, history
    <2>2. CASE RevokeCredential(r)
        BY <1>2, <2>2 DEF RevokeCredential, TypeOK, RequestState, rows, history
    <2> QED
        BY <1>6, <2>1, <2>2
<1>7. ASSUME NEW r \in Request, RefreshLock(r) PROVE LogoutCovered'
    <2>1. CASE RowActive(req[r].pair)
        BY <1>2, <1>7, <2>1 DEF RefreshLock, TypeOK, RequestState, rows, history
    <2>2. CASE ~RowActive(req[r].pair)
        BY <1>5, <1>7, <2>2 DEF RefreshLock, rows, history
    <2> QED
        BY <2>1, <2>2
<1>8. ASSUME NEW r \in Request, RefreshBlacklist(r) \/ RevokeRows(r) PROVE LogoutCovered'
    <2>1. UNCHANGED <<keyed, owner, issuedAt, now>>
        BY <1>8 DEF RefreshBlacklist, RevokeRows, rows, history
    <2>2. /\ \A s \in Request \ {r} : req'[s] = req[s]
          /\ req'[r].op # "logout"
        BY <1>8 DEF RefreshBlacklist, RevokeRows, TypeOK, RequestState
    <2>3. PICK K : redisUntil' = BlacklistKeys([j \in Jti |-> ExpiresAt(j[2])],
                                               {<<"refresh", k>> : k \in K})
        <3>1. CASE RefreshBlacklist(r)
            <4>1. {<<"refresh", req[r].pair>>} = {<<"refresh", k>> : k \in {req[r].pair}}
                OBVIOUS
            <4> QED
                BY <3>1, <4>1 DEF RefreshBlacklist
        <3>2. CASE RevokeRows(r)
            BY <3>2 DEF RevokeRows
        <3> QED
            BY <1>8, <3>1, <3>2
    <2>4. \A k \in Pair : redisUntil'[<<"access", k>>] = redisUntil[<<"access", k>>]
        <3>1. \A k \in Pair : <<"access", k>> \notin {<<"refresh", p>> : p \in K}
            OBVIOUS
        <3> QED
            BY <2>3, <3>1, RefreshKeysOnly
    <2> QED
        BY <1>1, <2>1, <2>2, <2>4 DEF RequestCovered
<1>9. ASSUME NEW r \in Request, NEW k \in Pair, NEW w \in BOOLEAN, LogoutRead(r, k, w)
      PROVE  LogoutCovered'
    <2>1. /\ \A s \in Request \ {r} : req'[s] = req[s]
          /\ req'[r].pair = k /\ req'[r].pc = "lockToken"
        BY <1>9 DEF LogoutRead, Idle, TypeOK
    <2>2. UNCHANGED <<keyed, owner, issuedAt, now, redisUntil>> /\ owner[k] # None
        BY <1>9 DEF LogoutRead, Issued, rows, history
    <2> QED
        BY <1>1, <2>1, <2>2 DEF RequestCovered
<1>10. ASSUME NEW r \in Request, LogoutLock(r) PROVE LogoutCovered'
    <2>1. /\ \A s \in Request \ {r} : req'[s] = req[s]
          /\ req'[r].pair = req[r].pair /\ req'[r].pc = "blacklist"
        BY <1>10 DEF LogoutLock, TypeOK, RequestState
    <2>2. UNCHANGED <<keyed, owner, issuedAt, now, redisUntil>>
        BY <1>10 DEF LogoutLock, rows, history
    <2>3. owner[req[r].pair] # None
        BY <1>10 DEF LogoutLock, LogoutCovered
    <2> QED
        BY <1>1, <2>1, <2>2, <2>3 DEF RequestCovered
<1>11. ASSUME NEW r \in Request, LogoutBlacklist(r) PROVE LogoutCovered'
    <2> DEFINE p == req[r].pair
    <2>1. /\ \A s \in Request \ {r} : req'[s] = req[s]
          /\ req'[r].pair = p /\ req'[r].withAccess = req[r].withAccess
          /\ req'[r].keyed = redisUp
        BY <1>11 DEF LogoutBlacklist, TypeOK, RequestState
    <2>2. UNCHANGED <<keyed, owner, issuedAt, now>>
        BY <1>11 DEF LogoutBlacklist, rows, history
    <2>3. p \in Pair /\ owner[p] # None
        BY <1>11 DEF LogoutBlacklist, LogoutCovered, RequestShape
    <2>4. redisUntil' = BlacklistKeys([j \in Jti |-> Exp(j[1], j[2])], LogoutJtis(r))
        BY <1>11 DEF LogoutBlacklist
    <2>5. ASSUME NEW k \in Pair, <<"access", k>> \in LogoutJtis(r), redisUp PROVE Covered(k)'
        BY <2>2, <2>4, <2>5, KeyCovers DEF LogoutCovered
    <2>6. ASSUME NEW k \in Pair, <<"access", k>> \notin LogoutJtis(r) \/ ~redisUp,
                 Covered(k)
          PROVE  Covered(k)'
        <3>1. redisUntil'[<<"access", k>>] = redisUntil[<<"access", k>>]
            <4>1. <<"access", k>> \in Jti
                BY DEF Jti
            <4>2. CASE <<"access", k>> \notin LogoutJtis(r)
                BY <2>4, <4>2, RefreshKeysOnly
            <4>3. CASE ~redisUp
                BY <2>4, <4>1, <4>3 DEF BlacklistKeys
            <4> QED
                BY <2>6, <4>2, <4>3
        <3> QED
            BY <1>0, <2>2, <2>6, <3>1, CoveredKept
    <2>7. req[r].withAccess => <<"access", p>> \in LogoutJtis(r)
        BY DEF LogoutJtis
    <2>8. req[r].withAccess /\ redisUp => Covered(p)'
        <3> SUFFICES ASSUME NEW k \in Pair, k = p, req[r].withAccess, redisUp
                     PROVE  Covered(k)'
            BY <2>3, <2>1 DEF Covered, Exp, Lifetime, WholeSeconds
        <3> QED
            BY <2>5, <2>7
    <2>9. Covered(p)' => Covered(req[r].pair)'
        BY <2>1
    <2>10. RequestCovered(r)'
        BY <2>1, <2>2, <2>3, <2>8, <2>9 DEF RequestCovered
    <2> QED
        BY <2>1, <2>2, <2>5, <2>6, <2>10, LogoutCoveredKept DEF LogoutCovered
<1>12. ASSUME NEW r \in Request, NEW k \in Pair, LoginCommit(r, k) \/ RefreshCommit(r, k)
       PROVE  LogoutCovered'
    <2>1. /\ UNCHANGED <<keyed, now, redisUntil>>
          /\ owner[k] = None
          /\ owner' = [owner EXCEPT ![k] = req[r].account]
          /\ issuedAt' = [issuedAt EXCEPT ![k] = now]
          /\ req' = [req EXCEPT ![r] = Idle]
        BY <1>12 DEF LoginCommit, RefreshCommit, Issue
    <2>2. \A p \in Pair : owner[p] # None => owner'[p] = owner[p] /\ issuedAt'[p] = issuedAt[p]
        BY <2>1 DEF TypeOK
    <2>3. \A p \in Pair : owner[p] # None /\ Covered(p) => Covered(p)'
        BY <1>0, <2>1, <2>2, CoveredKept
    <2>4. RequestCovered(r)' /\ \A s \in Request \ {r} : req'[s] = req[s]
        BY <2>1, IdleFields DEF TypeOK, RequestCovered
    <2> QED
        BY <2>1, <2>2, <2>3, <2>4, LogoutCoveredKept DEF LogoutCovered
<1>13. ASSUME NEW r \in Request, LogoutCommit(r) PROVE LogoutCovered'
    <2>1. /\ UNCHANGED <<now, redisUntil, owner, issuedAt>>
          /\ keyed' = keyed \cup {k \in {req[r].pair} : req[r].withAccess /\ req[r].keyed}
          /\ req' = [req EXCEPT ![r] = Idle]
          /\ req[r].op = "logout" /\ req[r].pc = "commit"
        BY <1>13 DEF LogoutCommit
    <2>2. /\ \A k \in Pair : Covered(k) => Covered(k)'
          /\ req[r].pair \in Pair /\ owner[req[r].pair] # None
          /\ req[r].withAccess /\ req[r].keyed => Covered(req[r].pair)
        BY <1>0, <2>1, CoveredKept DEF LogoutCovered, RequestShape
    <2>3. \A k \in keyed' : k \in Pair /\ owner[k] # None /\ Covered(k)
        BY <2>1, <2>2 DEF LogoutCovered, TypeOK
    <2>4. ASSUME NEW s \in Request PROVE RequestCovered(s)'
        <3>1. CASE s = r
            BY <2>1, <3>1, IdleFields DEF TypeOK, RequestCovered
        <3>2. CASE s # r /\ req[s].op = "logout"
            <4>1. req'[s] = req[s] /\ req[s].pair \in Pair
                BY <2>1, <3>2 DEF TypeOK, RequestShape
            <4>2. Covered(req[s].pair) => Covered(req[s].pair)'
                BY <2>1, <4>1 DEF Covered, Exp, Lifetime, WholeSeconds
            <4> QED
                BY <2>1, <3>2, <4>1, <4>2 DEF LogoutCovered, RequestCovered
        <3>3. CASE s # r /\ req[s].op # "logout"
            BY <2>1, <3>3 DEF TypeOK, RequestCovered
        <3> QED
            BY <3>1, <3>2, <3>3
    <2> QED
        BY <2>1, <2>2, <2>3, <2>4 DEF LogoutCovered, RequestCovered
<1>14. ASSUME NEW r \in Request, RevokeCommit(r) \/ Abort(r) PROVE LogoutCovered'
    BY <1>5, <1>14 DEF RevokeCommit, Abort, rows, history
<1>15. ASSUME UNCHANGED <<keyed, owner, issuedAt, redisUntil, req>>,
              now' \in Int, now <= now'
       PROVE  LogoutCovered'
    <2>1. \A k \in Pair : Covered(k) => Covered(k)'
        BY <1>15, CoveredKept
    <2>2. \A r \in Request : RequestCovered(r)'
        <3> SUFFICES ASSUME NEW r \in Request, req[r].op = "logout"
                     PROVE  /\ owner[req[r].pair] # None
                            /\ req[r].pc = "commit" /\ req[r].withAccess /\ req[r].keyed
                                  => Covered(req[r].pair)'
            BY <1>15 DEF RequestCovered
        <3>1. req[r].pair \in Pair
            BY DEF RequestShape
        <3>2. Covered(req[r].pair) => Covered(req[r].pair)'
            BY <1>15, <2>1, <3>1
        <3> QED
            BY <3>1, <3>2 DEF LogoutCovered
    <2> QED
        BY <1>15, <2>1, <2>2 DEF LogoutCovered, RequestCovered, TypeOK
<1>16. ASSUME \/ \E a \in Account, s \in AccountStatus : SetStatus(a, s)
              \/ Tick \/ RedisFails \/ RedisRecovers \/ UNCHANGED vars
       PROVE  LogoutCovered'
    <2>1. UNCHANGED <<keyed, owner, issuedAt, redisUntil, req>>
        BY <1>16 DEF SetStatus, Tick, RedisFails, RedisRecovers, rows, history, vars
    <2>2. now' \in Int /\ now <= now'
        BY <1>0, <1>16 DEF SetStatus, Tick, RedisFails, RedisRecovers, vars
    <2> QED
        BY <1>15, <2>1, <2>2
<1> QED
    BY <1>3, <1>4, <1>6, <1>7, <1>8, <1>9, <1>10, <1>11, <1>12, <1>13, <1>14, <1>16
    DEF Next, LoginStep, RefreshStep, LogoutStep, RevokeStep, Deactivates

\* Rows of token_blacklist are only ever added, and a logout adds that of the access
\* token it was given.
LEMMA LogoutRecordedStep ==
    ASSUME LogoutRecorded, [Next]_vars
    PROVE  LogoutRecorded'
<1>1. ASSUME UNCHANGED <<loggedOut, blacklist>> PROVE LogoutRecorded'
    BY <1>1 DEF LogoutRecorded
<1>2. ASSUME loggedOut' = loggedOut, blacklist \subseteq blacklist' PROVE LogoutRecorded'
    BY <1>2 DEF LogoutRecorded
<1>3. ASSUME NEW r \in Request, LoginStep(r) PROVE LogoutRecorded'
    BY <1>1, <1>3 DEF LoginStep, LoginRead, LoginLock, LoginCommit, rows, history
<1>4. ASSUME NEW r \in Request, RefreshStep(r) PROVE LogoutRecorded'
    BY <1>2, <1>4 DEF RefreshStep, RefreshRead, RefreshLock, RefreshBlacklist,
                      RefreshCommit, rows, history
<1>5. ASSUME NEW r \in Request, LogoutStep(r) PROVE LogoutRecorded'
    <2>1. CASE LogoutCommit(r)
        <3>1. /\ loggedOut' = loggedOut \cup {k \in {req[r].pair} : req[r].withAccess}
              /\ blacklist' = blacklist \cup LogoutJtis(r)
            BY <2>1 DEF LogoutCommit
        <3>2. req[r].withAccess => <<"access", req[r].pair>> \in LogoutJtis(r)
            BY DEF LogoutJtis
        <3> QED
            BY <3>1, <3>2 DEF LogoutRecorded
    <2>2. CASE ~LogoutCommit(r)
        BY <1>1, <1>5, <2>2 DEF LogoutStep, LogoutRead, LogoutLock, LogoutBlacklist,
                                rows, history
    <2> QED
        BY <2>1, <2>2
<1>6. ASSUME NEW r \in Request, RevokeStep(r) \/ Abort(r) PROVE LogoutRecorded'
    BY <1>2, <1>6 DEF RevokeStep, Deactivates, DeactivateBegin, ResetBegin, RevokeCredential,
                      RevokeRows, RevokeCommit, Abort, rows, history
<1>7. ASSUME \/ \E a \in Account, s \in AccountStatus : SetStatus(a, s)
             \/ Tick \/ RedisFails \/ RedisRecovers \/ UNCHANGED vars
      PROVE  LogoutRecorded'
    BY <1>1, <1>7 DEF SetStatus, Tick, RedisFails, RedisRecovers, rows, history, vars
<1> QED
    BY <1>3, <1>4, <1>5, <1>6, <1>7 DEF Next

\* The access token of a logout that succeeded is refused, whether Redis answers or not,
\* by the key or by the row that it has left; only if its key never reached Redis, or in
\* the last second of the token, and while Redis answers, it is not: logout_tokens,
\* blacklist_token_jti and is_token_blacklisted.
THEOREM LogoutRejects == Spec => []LoggedOutAccessRejected
<1>1. Init => LogoutCovered /\ LogoutRecorded
    BY IdleFields DEF Init, LogoutCovered, LogoutRecorded
<1>2. IInv /\ LogoutCovered /\ [Next]_vars => LogoutCovered'
    BY LogoutCoveredStep
<1>3. LogoutRecorded /\ [Next]_vars => LogoutRecorded'
    BY LogoutRecordedStep
<1>4. IInv /\ LogoutCovered /\ LogoutRecorded => LoggedOutAccessRejected
    <2> SUFFICES ASSUME IInv, LogoutCovered, LogoutRecorded, NEW k \in loggedOut,
                        AccessAccepted(k)
                 PROVE  redisUp /\ (k \notin keyed \/ now + TicksPerSecond > Exp("access", k))
        BY DEF LoggedOutAccessRejected
    <2>1. k \in Pair /\ <<"access", k>> \in Jti
        BY DEF IInv, TypeOK, Jti
    <2>2. /\ Exp("access", k) \in Int /\ now \in Int /\ TicksPerSecond \in Int
          /\ redisUntil[<<"access", k>>] \in Int
        BY <2>1, ExpiryType, BoundsAssumption DEF IInv, TypeOK, Time
    <2>3. redisUp
        BY DEF AccessAccepted, Blacklisted, LogoutRecorded
    <2>4. ~(redisUntil[<<"access", k>>] > now)
        BY <2>3 DEF AccessAccepted, Blacklisted
    <2>5. k \in keyed => now + TicksPerSecond > Exp("access", k)
        BY <2>2, <2>4 DEF LogoutCovered, Covered
    <2> QED
        BY <2>3, <2>5
<1> QED
    BY <1>1, <1>2, <1>3, <1>4, Invariance, PTL DEF Spec

=============================================================================
