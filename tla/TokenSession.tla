---------------------------- MODULE TokenSession ----------------------------
(***************************************************************************)
(* Token sessions of auth-service: login, refresh rotation, logout,        *)
(* administrative deactivation and password change, over the PostgreSQL    *)
(* rows accounts, credentials, refresh_tokens, token_blacklist and the     *)
(* Redis blacklist keys.                                                   *)
(*                                                                         *)
(* Requests run concurrently.  A request is one database transaction: its  *)
(* reads see committed rows, its writes stay in the request record and     *)
(* become visible in its commit step, and the row locks it holds are read  *)
(* off the request records.  Redis writes are visible at once, whatever    *)
(* becomes of the transaction.  A token pair is one access and one refresh *)
(* token issued together; time is a global clock of ticks.                 *)
(***************************************************************************)
EXTENDS Naturals

CONSTANTS
    Account,          \* the accounts
    Pair,             \* identifiers for the token pairs that may be issued
    Request,          \* requests in progress at the same time
    None,             \* no account, no pair
    MaxTime,          \* bound on the clock
    MaxRevocations,   \* bound on the revocations of one account
    AccessLifetime,   \* AUTH_ACCESS_TOKEN_LIFETIME_SECONDS, in ticks
    RefreshLifetime,  \* AUTH_REFRESH_TOKEN_LIFETIME_SECONDS, in ticks
    TicksPerSecond,   \* ticks in the second that exp and TTLs are cut to
    RedisCanFail,     \* whether Redis may become unreachable
    Operations        \* the operations the environment calls

ASSUME BoundsAssumption ==
    /\ MaxTime \in Nat
    /\ MaxRevocations \in Nat
    /\ AccessLifetime \in Nat
    /\ RefreshLifetime \in Nat
    /\ TicksPerSecond \in Nat \ {0}
    /\ RedisCanFail \in BOOLEAN
    /\ Operations \subseteq
         {"login", "refresh", "logout", "deactivate", "reset", "status"}

ASSUME NoneAssumption == None \notin Account /\ None \notin Pair

VARIABLES
    now,           \* timezone.now()
    redisUp,       \* whether Redis answers
    status,        \* accounts.status
    deleted,       \* accounts.deleted_at IS NOT NULL
    changedAt,     \* credentials.password_changed_at
    owner,         \* account a pair was issued to, None while not issued
    stamp,         \* pwd_changed_at claim of both tokens of the pair
    issuedAt,      \* when the pair was issued
    revoked,       \* refresh_tokens.revoked_at IS NOT NULL
    blacklist,     \* token_blacklist rows, as a set of token identifiers
    redisUntil,    \* time the Redis blacklist key of a token expires, 0: none
    req,           \* the request each worker is executing
    parent,        \* history: the pair whose refresh token was exchanged for it
    epoch,         \* history: revocations of the account committed so far
    readEpoch,     \* history: epoch of the account when the pair's
                   \*          credential was read
    loggedOut,     \* history: pairs whose access token a logout blacklisted
    keyed,         \* history: those of them for which Redis took a key
    ended,         \* history: pairs logged out by a request that began while
                   \*          the refresh token was still active
    tied           \* history: accounts of which two revocations read one time

rows == <<status, deleted, changedAt, owner, stamp, issuedAt, revoked, blacklist>>
history == <<parent, epoch, readEpoch, loggedOut, keyed, ended, tied>>
vars == <<now, redisUp, rows, redisUntil, req, history>>

\* "disabled" stands for every status that is neither active nor deactivated
\* (pending, locked, disabled): the code treats them alike.
AccountStatus == {"active", "disabled", "deactivated"}
Time == 0 .. MaxTime

\* A token identifier (jti) is the kind of the token and its pair.
Jti == {"access", "refresh"} \X Pair

\* What a worker remembers between the steps of a request.
RequestState ==
    [op : {"none", "login", "refresh", "logout", "deactivate", "reset"},
     pc : {"idle", "lockAccount", "lockToken", "credential", "lockRows",
           "blacklist", "commit"},
     account : Account \cup {None},
     pair : Pair \cup {None},
     stamp : Time,              \* password_changed_at it read, or will write
     epoch : Nat,               \* history: epoch of the account at that read
     seen : SUBSET Pair,        \* rows its locking query found
     locked : SUBSET Pair,      \* refresh rows it locked and will revoke
     newKey : BOOLEAN,          \* it locks the unique columns of the account too
     withAccess : BOOLEAN,      \* logout was given the access token too
     keyed : BOOLEAN,           \* history: Redis answered when it wrote its keys
     live : BOOLEAN]            \* history: refresh token active at its start

Idle == [op |-> "none", pc |-> "idle", account |-> None, pair |-> None,
         stamp |-> 0, epoch |-> 0, seen |-> {}, locked |-> {},
         newKey |-> FALSE, withAccess |-> FALSE, keyed |-> FALSE, live |-> FALSE]

TypeOK ==
    /\ now \in Time
    /\ redisUp \in BOOLEAN
    /\ status \in [Account -> AccountStatus]
    /\ deleted \in [Account -> BOOLEAN]
    /\ changedAt \in [Account -> Time]
    /\ owner \in [Pair -> Account \cup {None}]
    /\ stamp \in [Pair -> Time]
    /\ issuedAt \in [Pair -> Time]
    /\ revoked \in [Pair -> BOOLEAN]
    /\ blacklist \subseteq Jti
    /\ redisUntil \in [Jti -> Nat]
    /\ req \in [Request -> RequestState]
    /\ parent \in [Pair -> Pair \cup {None}]
    /\ epoch \in [Account -> Nat]
    /\ readEpoch \in [Pair -> Nat]
    /\ loggedOut \subseteq Pair
    /\ keyed \subseteq Pair
    /\ ended \subseteq Pair
    /\ tied \subseteq Account

Init ==
    /\ now = 0
    /\ redisUp = TRUE
    /\ status = [a \in Account |-> "active"]
    /\ deleted = [a \in Account |-> FALSE]
    /\ changedAt = [a \in Account |-> 0]
    /\ owner = [k \in Pair |-> None]
    /\ stamp = [k \in Pair |-> 0]
    /\ issuedAt = [k \in Pair |-> 0]
    /\ revoked = [k \in Pair |-> FALSE]
    /\ blacklist = {}
    /\ redisUntil = [j \in Jti |-> 0]
    /\ req = [r \in Request |-> Idle]
    /\ parent = [k \in Pair |-> None]
    /\ epoch = [a \in Account |-> 0]
    /\ readEpoch = [k \in Pair |-> 0]
    /\ loggedOut = {}
    /\ keyed = {}
    /\ ended = {}
    /\ tied = {}

-----------------------------------------------------------------------------
(* Time, expiry and the blacklist *)

\* int(...) on a timestamp or on a duration in seconds.
WholeSeconds(t) == t - (t % TicksPerSecond)

Issued(k) == owner[k] # None
Active(a) == status[a] = "active" /\ ~deleted[a]

Lifetime(kind) == IF kind = "access" THEN AccessLifetime ELSE RefreshLifetime

\* expires_at of the refresh_tokens row.
ExpiresAt(k) == issuedAt[k] + RefreshLifetime

\* The exp claim of a token, and decode_token's test of it.
Exp(kind, k) == WholeSeconds(issuedAt[k] + Lifetime(kind))
Unexpired(kind, k) == now < Exp(kind, k)

\* The row's expires_at is never before the token's exp, so for a token that
\* decodes the database test is the presence of the row.
Blacklisted(kind, k) ==
    IF redisUp THEN redisUntil[<<kind, k>>] > now
               ELSE <<kind, k>> \in blacklist

\* The claim passes unless it is older than the credential.
PasswordCurrent(k) == stamp[k] >= changedAt[owner[k]]

\* Mutation of RowActive: an is_active that forgets revoked_at.
ExpiryOnlyRowActive(k) == ExpiresAt(k) > now

\* RefreshToken.is_active.
RowActive(k) == ~revoked[k] /\ ExpiresAt(k) > now

\* setex of the blacklist key with the whole seconds that remain to `until`.
KeyUntil(until) == IF until > now THEN now + WholeSeconds(until - now) ELSE now

\* blacklist_token_jti for a set of refresh tokens, Redis part.
BlacklistKeys(until, J) ==
    [j \in Jti |-> IF redisUp /\ j \in J /\ KeyUntil(until[j]) > now
                   THEN KeyUntil(until[j]) ELSE redisUntil[j]]

AccessAccepted(k) ==
    /\ Issued(k)
    /\ Unexpired("access", k)
    /\ ~Blacklisted("access", k)
    /\ Active(owner[k])
    /\ PasswordCurrent(k)

\* The checks of refresh_token_pair before it locks the row.
RefreshAdmitted(k) ==
    /\ Issued(k)
    /\ Unexpired("refresh", k)
    /\ ~Blacklisted("refresh", k)
    /\ Active(owner[k])
    /\ PasswordCurrent(k)

-----------------------------------------------------------------------------
(* Row locks, read off the requests that hold them *)

\* Row lock of an account: UPDATE accounts (login, deactivation) or the
\* SELECT ... FOR UPDATE of a password reset, held until the transaction ends.
HoldsAccount(r, a) ==
    /\ req[r].account = a
    /\ \/ req[r].op = "login" /\ req[r].pc = "commit"
       \/ /\ req[r].op \in {"deactivate", "reset"}
          /\ req[r].pc \in {"credential", "lockRows", "commit"}

\* Mutation of AccountFree: account updates that take no row lock.
UnlockedAccountFree(a) == a \in Account

AccountFree(a) == \A r \in Request : ~HoldsAccount(r, a)

\* Mutation of BlocksKeyShare: the account's key is locked by every update.
KeyUpdateBlocksKeyShare(r, a) == HoldsAccount(r, a)

\* Inserting a row with a foreign key to the account waits for SELECT ... FOR
\* UPDATE, and for an UPDATE that changes a unique column: email or phone.
BlocksKeyShare(r, a) == HoldsAccount(r, a) /\ req[r].newKey

KeyShareFree(a) == \A r \in Request : ~BlocksKeyShare(r, a)

\* ... and both wait for transactions that inserted such a row.
NoKeyShare(a) ==
    \A r \in Request : ~(/\ req[r].op \in {"refresh", "logout"}
                         /\ req[r].pc = "commit"
                         /\ req[r].account = a)

\* Mutation of RowFree: refresh_tokens read without select_for_update.
UnlockedRowFree(k) == k \in Pair

RowFree(k) == \A r \in Request : k \notin req[r].locked

-----------------------------------------------------------------------------
(* Login *)

\* The credentials match the account as read here; the pair will carry the
\* password_changed_at read here.
LoginRead(r, a) ==
    /\ "login" \in Operations /\ req[r] = Idle
    /\ Active(a)
    /\ req' = [req EXCEPT ![r] = [Idle EXCEPT
                  !.op = "login", !.pc = "lockAccount", !.account = a,
                  !.stamp = changedAt[a], !.epoch = epoch[a]]]
    /\ UNCHANGED <<now, redisUp, rows, redisUntil, history>>

\* UPDATE accounts SET last_login_at waits for the row lock.
LoginLock(r) ==
    /\ req[r].op = "login" /\ req[r].pc = "lockAccount"
    /\ AccountFree(req[r].account)
    /\ req' = [req EXCEPT ![r].pc = "commit"]
    /\ UNCHANGED <<now, redisUp, rows, redisUntil, history>>

\* Mutation of Issue: the claim in other units than the credential.
MilliIssue(r, k) ==
    /\ owner[k] = None
    /\ owner' = [owner EXCEPT ![k] = req[r].account]
    /\ stamp' = [stamp EXCEPT ![k] = 1000 * req[r].stamp]
    /\ issuedAt' = [issuedAt EXCEPT ![k] = now]
    /\ parent' = [parent EXCEPT ![k] = req[r].pair]
    /\ readEpoch' = [readEpoch EXCEPT ![k] = req[r].epoch]

\* issue_token_pair: a fresh pair with the stamp of the credential object.
Issue(r, k) ==
    /\ owner[k] = None
    /\ owner' = [owner EXCEPT ![k] = req[r].account]
    /\ stamp' = [stamp EXCEPT ![k] = req[r].stamp]
    /\ issuedAt' = [issuedAt EXCEPT ![k] = now]
    /\ parent' = [parent EXCEPT ![k] = req[r].pair]
    /\ readEpoch' = [readEpoch EXCEPT ![k] = req[r].epoch]

LoginCommit(r, k) ==
    /\ req[r].op = "login" /\ req[r].pc = "commit"
    /\ Issue(r, k)
    /\ req' = [req EXCEPT ![r] = Idle]
    /\ UNCHANGED <<now, redisUp, status, deleted, changedAt, revoked, blacklist,
                   redisUntil, epoch, loggedOut, keyed, ended, tied>>

-----------------------------------------------------------------------------
(* Refresh rotation *)

RefreshRead(r, k) ==
    /\ "refresh" \in Operations /\ req[r] = Idle
    /\ RefreshAdmitted(k)
    /\ req' = [req EXCEPT ![r] = [Idle EXCEPT
                  !.op = "refresh", !.pc = "lockToken", !.account = owner[k],
                  !.pair = k, !.stamp = changedAt[owner[k]],
                  !.epoch = epoch[owner[k]]]]
    /\ UNCHANGED <<now, redisUp, rows, redisUntil, history>>

\* select_for_update of the row, then is_active on the row as locked.
RefreshLock(r) ==
    /\ req[r].op = "refresh" /\ req[r].pc = "lockToken"
    /\ RowFree(req[r].pair)
    /\ req' = IF RowActive(req[r].pair)
              THEN [req EXCEPT ![r].pc = "blacklist",
                               ![r].locked = {req[r].pair}]
              ELSE [req EXCEPT ![r] = Idle]
    /\ UNCHANGED <<now, redisUp, rows, redisUntil, history>>

\* The token_blacklist insert, then the Redis key.
RefreshBlacklist(r) ==
    /\ req[r].op = "refresh" /\ req[r].pc = "blacklist"
    /\ KeyShareFree(req[r].account)
    /\ redisUntil' = BlacklistKeys([j \in Jti |-> ExpiresAt(j[2])],
                                   {<<"refresh", req[r].pair>>})
    /\ req' = [req EXCEPT ![r].pc = "commit"]
    /\ UNCHANGED <<now, redisUp, rows, history>>

RefreshCommit(r, k) ==
    /\ req[r].op = "refresh" /\ req[r].pc = "commit"
    /\ Issue(r, k)
    /\ revoked' = [p \in Pair |-> revoked[p] \/ p \in req[r].locked]
    /\ blacklist' = blacklist \cup {<<"refresh", req[r].pair>>}
    /\ req' = [req EXCEPT ![r] = Idle]
    /\ UNCHANGED <<now, redisUp, status, deleted, changedAt, redisUntil, epoch,
                   loggedOut, keyed, ended, tied>>

-----------------------------------------------------------------------------
(* Logout, of a refresh token and optionally of its access token *)

\* decode_token without expiry, then the account must be active.
LogoutRead(r, k, withAccess) ==
    /\ "logout" \in Operations /\ req[r] = Idle
    /\ Issued(k)
    /\ Active(owner[k])
    /\ req' = [req EXCEPT ![r] = [Idle EXCEPT
                  !.op = "logout", !.pc = "lockToken", !.account = owner[k],
                  !.pair = k, !.withAccess = withAccess, !.live = RowActive(k)]]
    /\ UNCHANGED <<now, redisUp, rows, redisUntil, history>>

\* UPDATE ... WHERE revoked_at IS NULL: it waits for the row and then matches
\* nothing if the row has been revoked meanwhile.
LogoutLock(r) ==
    /\ req[r].op = "logout" /\ req[r].pc = "lockToken"
    /\ RowFree(req[r].pair)
    /\ req' = [req EXCEPT ![r].pc = "blacklist",
                          ![r].locked = {k \in {req[r].pair} : ~revoked[k]}]
    /\ UNCHANGED <<now, redisUp, rows, redisUntil, history>>

\* Mutation of LogoutJtis: a logout that ignores the access token.
RefreshOnlyLogoutJtis(r) == {<<"refresh", req[r].pair>>}

\* The identifiers a logout blacklists, until their exp claims.
LogoutJtis(r) ==
    {<<"refresh", req[r].pair>>} \cup
    (IF req[r].withAccess THEN {<<"access", req[r].pair>>} ELSE {})

LogoutBlacklist(r) ==
    /\ req[r].op = "logout" /\ req[r].pc = "blacklist"
    /\ KeyShareFree(req[r].account)
    /\ redisUntil' = BlacklistKeys([j \in Jti |-> Exp(j[1], j[2])], LogoutJtis(r))
    /\ req' = [req EXCEPT ![r].pc = "commit", ![r].keyed = redisUp]
    /\ UNCHANGED <<now, redisUp, rows, history>>

LogoutCommit(r) ==
    /\ req[r].op = "logout" /\ req[r].pc = "commit"
    /\ revoked' = [p \in Pair |-> revoked[p] \/ p \in req[r].locked]
    /\ blacklist' = blacklist \cup LogoutJtis(r)
    /\ loggedOut' = loggedOut \cup {k \in {req[r].pair} : req[r].withAccess}
    /\ keyed' = keyed \cup {k \in {req[r].pair} : req[r].withAccess /\ req[r].keyed}
    /\ ended' = ended \cup {k \in {req[r].pair} : req[r].live}
    /\ req' = [req EXCEPT ![r] = Idle]
    /\ UNCHANGED <<now, redisUp, status, deleted, changedAt, owner, stamp,
                   issuedAt, redisUntil, parent, epoch, readEpoch, tied>>

-----------------------------------------------------------------------------
(* Deactivation and password change: revoke_account_tokens *)

\* account.save() takes the row lock of the account, the stronger one if
\* update_managed_account was also given a new email or phone.
DeactivateBegin(r, a, newKey) ==
    /\ "deactivate" \in Operations /\ req[r] = Idle
    /\ epoch[a] < MaxRevocations
    /\ AccountFree(a) /\ (newKey => NoKeyShare(a))
    /\ req' = [req EXCEPT ![r] = [Idle EXCEPT
                  !.op = "deactivate", !.pc = "credential", !.account = a,
                  !.newKey = newKey]]
    /\ UNCHANGED <<now, redisUp, rows, redisUntil, history>>

\* The holder of a pending reset token; its row, the account and the
\* credential are locked FOR UPDATE together.
ResetBegin(r, a) ==
    /\ "reset" \in Operations /\ req[r] = Idle
    /\ epoch[a] < MaxRevocations
    /\ AccountFree(a) /\ NoKeyShare(a)
    /\ req' = [req EXCEPT ![r] = [Idle EXCEPT
                  !.op = "reset", !.pc = "credential", !.account = a,
                  !.newKey = TRUE]]
    /\ UNCHANGED <<now, redisUp, rows, redisUntil, history>>

\* The clock is read, the credential updated, and the statement that selects
\* the account's active refresh tokens starts: it sees the rows committed now.
RevokeCredential(r) ==
    /\ req[r].op \in {"deactivate", "reset"} /\ req[r].pc = "credential"
    /\ req' = [req EXCEPT
                  ![r].pc = "lockRows",
                  ![r].stamp = now,
                  ![r].seen = {k \in Pair : owner[k] = req[r].account /\ RowActive(k)}]
    /\ UNCHANGED <<now, redisUp, rows, redisUntil, history>>

\* It waits for those rows and keeps the ones that are still not revoked;
\* rows committed meanwhile are missed.  Then it blacklists each.
RevokeRows(r) ==
    LET hit == {k \in req[r].seen : ~revoked[k]} IN
    /\ req[r].op \in {"deactivate", "reset"} /\ req[r].pc = "lockRows"
    /\ \A k \in req[r].seen : RowFree(k)
    /\ redisUntil' = BlacklistKeys([j \in Jti |-> ExpiresAt(j[2])],
                                   {<<"refresh", k>> : k \in hit})
    /\ req' = [req EXCEPT ![r].pc = "commit", ![r].locked = hit]
    /\ UNCHANGED <<now, redisUp, rows, history>>

RevokeCommit(r) ==
    LET a == req[r].account IN
    /\ req[r].op \in {"deactivate", "reset"} /\ req[r].pc = "commit"
    /\ IF req[r].op = "deactivate"
       THEN /\ status' = [status EXCEPT ![a] = "deactivated"]
            /\ deleted' = [deleted EXCEPT ![a] = TRUE]
       ELSE UNCHANGED <<status, deleted>>
    /\ changedAt' = [changedAt EXCEPT ![a] = req[r].stamp]
    /\ revoked' = [p \in Pair |-> revoked[p] \/ p \in req[r].locked]
    /\ blacklist' = blacklist \cup {<<"refresh", k>> : k \in req[r].locked}
    /\ epoch' = [epoch EXCEPT ![a] = @ + 1]
    /\ tied' = tied \cup {b \in {a} : req[r].stamp = changedAt[a]}
    /\ req' = [req EXCEPT ![r] = Idle]
    /\ UNCHANGED <<now, redisUp, owner, stamp, issuedAt, redisUntil, parent,
                   readEpoch, loggedOut, keyed, ended>>

\* update_managed_account with any other status: deleted_at stays as it is and
\* no token is revoked.  Its one statement waits for nothing else once it has the
\* row, whatever columns it changes.
SetStatus(a, s) ==
    /\ "status" \in Operations
    /\ s # "deactivated" /\ s # status[a]
    /\ AccountFree(a)
    /\ status' = [status EXCEPT ![a] = s]
    /\ UNCHANGED <<now, redisUp, deleted, changedAt, owner, stamp, issuedAt,
                   revoked, blacklist, redisUntil, req, history>>

-----------------------------------------------------------------------------
(* Environment *)

\* The worker dies, the statement fails, or PostgreSQL picks the transaction as
\* the victim of a deadlock: the transaction is rolled back, Redis is not.
Abort(r) ==
    /\ req[r] # Idle
    /\ req' = [req EXCEPT ![r] = Idle]
    /\ UNCHANGED <<now, redisUp, rows, redisUntil, history>>

Tick ==
    /\ now < MaxTime
    /\ now' = now + 1
    /\ UNCHANGED <<redisUp, rows, redisUntil, req, history>>

RedisFails ==
    /\ RedisCanFail /\ redisUp
    /\ redisUp' = FALSE
    /\ UNCHANGED <<now, rows, redisUntil, req, history>>

RedisRecovers ==
    /\ ~redisUp
    /\ redisUp' = TRUE
    /\ UNCHANGED <<now, rows, redisUntil, req, history>>

LoginStep(r) ==
    \/ \E a \in Account : LoginRead(r, a)
    \/ LoginLock(r)
    \/ \E k \in Pair : LoginCommit(r, k)

RefreshStep(r) ==
    \/ \E k \in Pair : RefreshRead(r, k)
    \/ RefreshLock(r)
    \/ RefreshBlacklist(r)
    \/ \E k \in Pair : RefreshCommit(r, k)

LogoutStep(r) ==
    \/ \E k \in Pair, withAccess \in BOOLEAN : LogoutRead(r, k, withAccess)
    \/ LogoutLock(r)
    \/ LogoutBlacklist(r)
    \/ LogoutCommit(r)

RevokeStep(r) ==
    \/ \E a \in Account, newKey \in BOOLEAN : DeactivateBegin(r, a, newKey)
    \/ \E a \in Account : ResetBegin(r, a)
    \/ RevokeCredential(r)
    \/ RevokeRows(r)
    \/ RevokeCommit(r)

Next ==
    \/ \E r \in Request :
          LoginStep(r) \/ RefreshStep(r) \/ LogoutStep(r) \/ RevokeStep(r) \/ Abort(r)
    \/ \E a \in Account, s \in AccountStatus : SetStatus(a, s)
    \/ Tick
    \/ RedisFails
    \/ RedisRecovers

Spec == Init /\ [][Next]_vars

-----------------------------------------------------------------------------
(* Properties *)

\* Two concurrent refreshes of one refresh token never both succeed: no refresh
\* token has two successors (row lock and is_active test of refresh_token_pair).
RotatedAtMostOnce ==
    \A k1, k2 \in Pair : parent[k1] # None /\ parent[k1] = parent[k2] => k1 = k2

\* Once the revocation of a refresh token is committed, by whatever request, no
\* refresh that was already under way can still exchange it.
RevokedNeverRotated ==
    [][\A k, p \in Pair : parent[k] # p /\ parent'[k] = p => ~revoked[p]]_vars

\* A pair issued from a credential that was read before a deactivation or a
\* password change of the account committed is refused by every check that
\* follows, even if its row was missed by the revocation, unless two password
\* changes of the account carry the same millisecond.
RevocationCutsOffOldCredentials ==
    \A k \in Pair :
        /\ Issued(k)
        /\ readEpoch[k] < epoch[owner[k]]
        /\ owner[k] \notin tied
        => ~AccessAccepted(k) /\ ~RefreshAdmitted(k)

\* r cannot take its next step before s ends.
WaitsFor(r, s) ==
    LET a == req[r].account IN
    \/ req[r].pc = "lockAccount" /\ HoldsAccount(s, a)
    \/ req[r].pc = "lockToken" /\ req[r].pair \in req[s].locked
    \/ req[r].pc = "blacklist" /\ BlocksKeyShare(s, a)
    \/ req[r].pc = "lockRows" /\ req[r].seen \cap req[s].locked # {}

\* r has locked the key of its account and waits for a row of s, which waits to insert
\* its blacklist row, whose foreign key is that account.
KeyCircle(r, s) == req[r].newKey /\ req[r].pc = "lockRows" /\ req[s].pc = "blacklist"

\* The requests take their row locks in an order that leaves one circle: that of a
\* deactivation with a new email or phone, or of a reset, with a refresh or a logout.
\* PostgreSQL rolls one of the two back.  No other two requests ever wait for each
\* other, deactivations that leave the unique columns alone included.
OnlyKeyLocksDeadlock ==
    \A r, s \in Request :
        WaitsFor(r, s) /\ WaitsFor(s, r) => KeyCircle(r, s) \/ KeyCircle(s, r)

\* An access token handed to a logout that returned success is not accepted:
\* while Redis is away the row of the logout refuses it, whether the key reached
\* Redis or not, and while Redis answers its key does, up to the last second of the
\* token.  A logout that found Redis away leaves nothing that refuses the token once
\* Redis answers again.
LoggedOutAccessRejected ==
    \A k \in loggedOut :
        AccessAccepted(k) =>
            redisUp /\ (k \notin keyed \/ now + TicksPerSecond > Exp("access", k))

\* A logout that was started with an active refresh token and succeeded leaves
\* no usable successor of that token.  The code does not meet it: a logout that waits
\* behind a refresh of the same token finds no row to revoke and succeeds.
LogoutEndsSession ==
    \A k \in ended, s \in Pair :
        parent[s] = k => ~AccessAccepted(s) /\ ~RefreshAdmitted(s)

=============================================================================
