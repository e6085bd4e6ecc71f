--------------------------- MODULE AccountSecrets ---------------------------
(***************************************************************************)
(* Password resets and OIDC logins of auth-service, and the rate limit     *)
(* before resets and logins.                                               *)
(*                                                                         *)
(* A reset token is a row in the database and a key in Redis, the state of *)
(* an OIDC login only a key.  Either is a secret to be used once.  The     *)
(* requests read it, check it and use it in separate steps, Redis may fail *)
(* or lose a key at any time, and a request may stop at any step.  What a  *)
(* reset does to the sessions of the account is in TokenSession.           *)
(***************************************************************************)
EXTENDS Naturals

CONSTANTS
    Secret,        \* reset tokens and OIDC states
    User,          \* the accounts that secrets are for
    Asker,         \* requests in progress
    Nobody,
    Limit,         \* requests admitted in one window of the rate limit
    MaxAsked       \* bound on the requests begun

ASSUME SecretsAssumption ==
    Nobody \notin User \cup Secret /\ Limit \in Nat \ {0} /\ MaxAsked \in Nat

\* What a request is limited by.  Both are of one e-mail address.
Window == {"login", "password-reset"}

VARIABLES
    kind,          \* what each secret is
    row,           \* rows of password_reset_tokens
    key,           \* secrets whose key is in Redis
    late,          \* secrets whose time has come
    mail,          \* the account that has the e-mail address, which may change hands
    active,        \* accounts that may be used
    identity,      \* the account of the external identity
    count, ttl,    \* the counter of each window in Redis, and whether it expires
    asker,         \* what each request is doing
    asked,         \* the requests begun
    issued,        \* history: secrets that were made known
    uses,          \* history: how often each was used
    admitted,      \* history: requests admitted in the present window
    cut,           \* history: windows whose first request stopped before it set the expiry
    contested      \* history: two callbacks created the identity, either having found none

redis == <<key, count, ttl>>
tables == <<row, mail, active, identity>>
history == <<issued, uses, admitted, cut, contested>>
secretsVars == <<kind, redis, tables, history, late, asker, asked>>

Kind == {"reset", "oidc"}

\* revoked is only written by a transaction that is rolled back.
PasswordResetStatus == {"pending", "used", "expired"}

PasswordResetToken == [status : PasswordResetStatus, account : User]

\* Nobody stands for a row that does not exist as well.
ASSUME RowAssumption == Nobody \notin PasswordResetToken

\* One identity of the provider; the issuer and the subject are unique.
ExternalIdentity == User \cup {Nobody}

AtRest == [op |-> "resting"]

AskerState ==
    {AtRest}
    \cup [op : {"limit"}, window : Window, step : {"incr", "expire"}, secret : Secret \cup {Nobody}]
    \cup [op : {"request"}, step : {"setex", "commit"}, secret : Secret, account : User]
    \cup [op : {"confirm"}, step : {"key", "expire", "lock", "delete"}, secret : Secret]
    \cup [op : {"callback"}, step : {"pop", "exchange", "validate", "lookup"}, secret : Secret]
    \cup [op : {"link"}, account : User, found : BOOLEAN]

SecretsTypeOK ==
    /\ kind \in [Secret -> Kind]
    /\ row \in [Secret -> PasswordResetToken \cup {Nobody}]
    /\ key \subseteq Secret /\ late \subseteq Secret
    /\ mail \in User \cup {Nobody} /\ active \subseteq User
    /\ identity \in ExternalIdentity
    /\ count \in [Window -> Nat] /\ ttl \in [Window -> BOOLEAN]
    /\ asker \in [Asker -> AskerState]
    /\ \A w \in Asker : asker[w].op = "confirm" => row[asker[w].secret] # Nobody
    /\ asked \in 0 .. MaxAsked
    /\ issued \subseteq Secret /\ uses \in [Secret -> Nat]
    /\ admitted \in [Window -> Nat] /\ cut \subseteq Window /\ contested \in BOOLEAN

SecretsInit ==
    /\ kind \in [Secret -> Kind]
    /\ row = [s \in Secret |-> Nobody]
    /\ key = {} /\ late = {}
    /\ mail \in User \cup {Nobody} /\ active = User
    /\ identity \in ExternalIdentity
    /\ count = [n \in Window |-> 0] /\ ttl = [n \in Window |-> FALSE]
    /\ asker = [w \in Asker |-> AtRest]
    /\ asked = 0
    /\ issued = {} /\ uses = [s \in Secret |-> 0]
    /\ admitted = [n \in Window |-> 0] /\ cut = {} /\ contested = FALSE

Continues(w, state) == asker' = [asker EXCEPT ![w] = state]
Turns(w, step) == asker' = [asker EXCEPT ![w].step = step]
Leaves(w) == Continues(w, AtRest)
Doing(w, op, step) == asker[w].op = op /\ asker[w].step = step

Begins(w, state) ==
    /\ asker[w] = AtRest /\ Continues(w, state)
    /\ asked < MaxAsked /\ asked' = asked + 1

-----------------------------------------------------------------------------
(* fixed_window_rate_limit *)

BeginLogin(w) ==
    /\ Begins(w, [op |-> "limit", window |-> "login", step |-> "incr", secret |-> Nobody])
    /\ UNCHANGED <<kind, redis, tables, history, late>>

BeginReset(w, s) ==
    /\ kind[s] = "reset" /\ row[s] = Nobody
    /\ Begins(w, [op |-> "limit", window |-> "password-reset", step |-> "incr", secret |-> s])
    /\ UNCHANGED <<kind, redis, tables, history, late>>

Admits(n) == n <= Limit

\* _enforce_rate_limit lets the request on or ends it.  A login then looks up the
\* account and the password (see TokenSession); a reset goes on for an active account.
Limited(w, n) ==
    LET window == asker[w].window IN
    /\ admitted' = IF Admits(n) THEN [admitted EXCEPT ![window] = @ + 1] ELSE admitted
    /\ IF Admits(n) /\ window = "password-reset" /\ mail \in active
       THEN Continues(w, [op |-> "request", step |-> "setex",
                          secret |-> asker[w].secret, account |-> mail])
       ELSE Leaves(w)

First(n) == n = 1

\* INCR.  The request that counts 1 has the expiry to set.
Incr(w) ==
    LET window == asker[w].window
        n == count[window] + 1
    IN  /\ Doing(w, "limit", "incr")
        /\ count' = [count EXCEPT ![window] = n]
        /\ IF First(n) THEN Turns(w, "expire") /\ UNCHANGED admitted ELSE Limited(w, n)
        /\ UNCHANGED <<kind, key, ttl, tables, issued, uses, cut, contested, late, asked>>

\* EXPIRE.
SetExpiry(w) ==
    /\ Doing(w, "limit", "expire")
    /\ ttl' = [ttl EXCEPT ![asker[w].window] = TRUE]
    /\ Limited(w, 1)
    /\ UNCHANGED <<kind, key, count, tables, issued, uses, cut, contested, late, asked>>

\* The key of the counter expires, and with it the window.
WindowEnds(window) ==
    /\ ttl[window]
    /\ ttl' = [ttl EXCEPT ![window] = FALSE]
    /\ count' = [count EXCEPT ![window] = 0]
    /\ admitted' = [admitted EXCEPT ![window] = 0]
    /\ UNCHANGED <<kind, key, tables, issued, uses, cut, contested, late, asker, asked>>

-----------------------------------------------------------------------------
(* request_password_reset, confirm_password_reset *)

\* The key is written before the transaction commits, which a failure rolls back.
SetResetKey(w) ==
    /\ Doing(w, "request", "setex")
    /\ key' = key \cup {asker[w].secret}
    /\ Turns(w, "commit")
    /\ UNCHANGED <<kind, count, ttl, tables, history, late, asked>>

\* The row may be taken by another request for the same token in this model only.
CommitReset(w) ==
    LET s == asker[w].secret IN
    /\ Doing(w, "request", "commit") /\ row[s] = Nobody
    /\ row' = [row EXCEPT ![s] = [status |-> "pending", account |-> asker[w].account]]
    /\ issued' = issued \cup {s}
    /\ Leaves(w)
    /\ UNCHANGED <<kind, redis, mail, active, identity, uses, admitted, cut, contested, late, asked>>

\* Mutation of Pending: a token without a row is not refused.
PendingOrMissing(s) == row[s] # Nobody => row[s].status = "pending"

Pending(s) == row[s] # Nobody /\ row[s].status = "pending"

\* The pending row of the token is read without a lock.
ReadReset(w, s) ==
    /\ Pending(s)
    /\ Begins(w, [op |-> "confirm", step |-> IF s \in late THEN "expire" ELSE "key",
                  secret |-> s])
    /\ UNCHANGED <<kind, redis, tables, history, late>>

CheckKey(w) ==
    /\ Doing(w, "confirm", "key")
    /\ Turns(w, IF asker[w].secret \in key THEN "lock" ELSE "expire")
    /\ UNCHANGED <<kind, redis, tables, history, late, asked>>

\* The update does not ask for the status that was read.
MarkExpired(w) ==
    /\ Doing(w, "confirm", "expire")
    /\ row' = [row EXCEPT ![asker[w].secret].status = "expired"]
    /\ Leaves(w)
    /\ UNCHANGED <<kind, redis, mail, active, identity, history, late, asked>>

\* Mutation of LockReset: what was read before the lock is good enough.
LockUnchecked(w) ==
    LET s == asker[w].secret IN
    /\ Doing(w, "confirm", "lock")
    /\ row' = [row EXCEPT ![s].status = "used"]
    /\ uses' = [uses EXCEPT ![s] = @ + 1]
    /\ Turns(w, "delete")
    /\ UNCHANGED <<kind, redis, mail, active, identity, issued, admitted, cut, contested, late, asked>>

\* The row is locked and must be pending still; the password and the status change together.
LockReset(w) ==
    LET s == asker[w].secret IN
    /\ Doing(w, "confirm", "lock") /\ Pending(s)
    /\ row' = [row EXCEPT ![s].status = "used"]
    /\ uses' = [uses EXCEPT ![s] = @ + 1]
    /\ Turns(w, "delete")
    /\ UNCHANGED <<kind, redis, mail, active, identity, issued, admitted, cut, contested, late, asked>>

\* After the commit; an error is ignored.
DeleteResetKey(w) ==
    /\ Doing(w, "confirm", "delete")
    /\ key' = key \ {asker[w].secret}
    /\ Leaves(w)
    /\ UNCHANGED <<kind, count, ttl, tables, history, late, asked>>

-----------------------------------------------------------------------------
(* start_oidc_authorization, complete_oidc_callback *)

StartOidcAuthorization(s) ==
    /\ kind[s] = "oidc" /\ s \notin issued
    /\ key' = key \cup {s} /\ issued' = issued \cup {s}
    /\ UNCHANGED <<kind, count, ttl, tables, uses, admitted, cut, contested, late, asker, asked>>

\* _pop_oidc_state gets the payload ...
GetState(w, s) ==
    /\ kind[s] = "oidc" /\ s \in key
    /\ Begins(w, [op |-> "callback", step |-> "pop", secret |-> s])
    /\ UNCHANGED <<kind, redis, tables, history, late>>

\* Mutation of PopState: the key stays until it expires.
KeepState(w) ==
    LET s == asker[w].secret IN
    /\ Doing(w, "callback", "pop") /\ s \notin late
    /\ uses' = [uses EXCEPT ![s] = @ + 1]
    /\ Turns(w, "exchange")
    /\ UNCHANGED <<kind, redis, tables, issued, admitted, cut, contested, late, asked>>

\* ... and deletes the key in a second call, and looks at the time in the payload.
PopState(w) ==
    LET s == asker[w].secret IN
    /\ Doing(w, "callback", "pop")
    /\ key' = key \ {s}
    /\ IF s \in late
       THEN Leaves(w) /\ UNCHANGED uses
       ELSE Turns(w, "exchange") /\ uses' = [uses EXCEPT ![s] = @ + 1]
    /\ UNCHANGED <<kind, count, ttl, tables, issued, admitted, cut, contested, late, asked>>

\* _exchange_oidc_code: the provider answers with an identity token.
Exchange(w) ==
    /\ Doing(w, "callback", "exchange") /\ Turns(w, "validate")
    /\ UNCHANGED <<kind, redis, tables, history, late, asked>>

\* _validate_oidc_id_token, with the provider's keys; the e-mail address is verified.
Validate(w) ==
    /\ Doing(w, "callback", "validate") /\ Turns(w, "lookup")
    /\ UNCHANGED <<kind, redis, tables, history, late, asked>>

\* The account of the identity, or else of the e-mail address.
Known == IF identity # Nobody THEN identity ELSE mail

LookUpAccount(w) ==
    /\ Doing(w, "callback", "lookup") /\ Known \in active
    /\ Continues(w, [op |-> "link", account |-> Known, found |-> identity # Nobody])
    /\ UNCHANGED <<kind, redis, tables, history, late, asked>>

\* update_or_create, whichever account the identity has by now; the tokens are issued.
Link(w) ==
    /\ asker[w].op = "link"
    /\ identity' = asker[w].account
    /\ contested' = (contested \/ (~asker[w].found /\ identity # Nobody))
    /\ Leaves(w)
    /\ UNCHANGED <<kind, redis, row, mail, active, issued, uses, admitted, cut, late, asked>>

-----------------------------------------------------------------------------
(* What else happens *)

\* An error of Redis, the provider or the database, a check that fails, or a crash.
Stop(w) ==
    /\ asker[w] # AtRest
    /\ cut' = IF Doing(w, "limit", "expire") THEN cut \cup {asker[w].window} ELSE cut
    /\ Leaves(w)
    /\ UNCHANGED <<kind, redis, tables, issued, uses, admitted, contested, late, asked>>

TimePasses(s) ==
    /\ s \in issued \ late /\ late' = late \cup {s}
    /\ UNCHANGED <<kind, redis, tables, history, asker, asked>>

\* The key expires, or Redis loses it.
LoseKey(s) ==
    /\ s \in key /\ key' = key \ {s}
    /\ UNCHANGED <<kind, count, ttl, tables, history, late, asker, asked>>

\* update_managed_account: an address is given up or taken, an account is (de)activated.
ChangeAccount ==
    /\ asked < MaxAsked /\ asked' = asked + 1
    /\ \/ mail' \in User \cup {Nobody} /\ UNCHANGED active
       \/ \E a \in User : UNCHANGED mail /\
             active' = IF a \in active THEN active \ {a} ELSE active \cup {a}
    /\ UNCHANGED <<kind, redis, row, identity, history, late, asker>>

ResetStep(w) == SetResetKey(w) \/ CommitReset(w) \/ CheckKey(w) \/ MarkExpired(w)
                \/ LockReset(w) \/ DeleteResetKey(w)

OidcStep(w) == PopState(w) \/ Exchange(w) \/ Validate(w) \/ LookUpAccount(w) \/ Link(w)

SecretsNext ==
    \/ \E w \in Asker :
          \/ BeginLogin(w) \/ Incr(w) \/ SetExpiry(w)
          \/ ResetStep(w) \/ OidcStep(w) \/ Stop(w)
          \/ \E s \in Secret : BeginReset(w, s) \/ ReadReset(w, s) \/ GetState(w, s)
    \/ \E s \in Secret : StartOidcAuthorization(s) \/ TimePasses(s) \/ LoseKey(s)
    \/ \E window \in Window : WindowEnds(window)
    \/ ChangeAccount

-----------------------------------------------------------------------------
(* Properties *)

\* A reset token changes a password at most once, although its row is read without a
\* lock and its key is deleted late ("cannot be reused",
\* docs/specs/001-authentication-lifecycle.md:25).
ResetUsedOnce == \A s \in Secret : kind[s] = "reset" => uses[s] <= 1

\* No window of the rate limit admits more requests than the limit, however many count
\* at once: fixed_window_rate_limit.
LimitHolds == \A window \in Window : admitted[window] <= Limit

\* A counter expires some day, unless the request that began it has yet to set the
\* expiry or stopped before it did: INCR and EXPIRE are two calls.
CounterExpires ==
    \A window \in Window : count[window] > 0 /\ ~ttl[window] =>
        \/ window \in cut
        \/ \E w \in Asker : Doing(w, "limit", "expire") /\ asker[w].window = window

\* An external identity stays with its account, whoever has the e-mail address by now,
\* unless two callbacks created it at once, each having found none:
\* complete_oidc_callback, which looks first and writes later.
IdentityStays ==
    [][identity # Nobody /\ identity' # identity => contested']_secretsVars

\* What the secrets promise.  A request holds one from the time it read it as usable.
Phase(s) ==
    CASE uses[s] > 0 -> "used"
      [] uses[s] = 0 /\ s \notin issued -> "unissued"
      [] uses[s] = 0 /\ s \in issued
            /\ (IF kind[s] = "reset" THEN Pending(s) /\ s \notin late ELSE s \in key) -> "open"
      [] OTHER -> "gone"

Holders(s) == {w \in Asker :
    \/ asker[w].op = "confirm" /\ asker[w].step \in {"key", "lock"} /\ asker[w].secret = s
    \/ Doing(w, "callback", "pop") /\ asker[w].secret = s}

Promise == INSTANCE OneTimeSecret WITH
    phase <- [s \in Secret |-> Phase(s)], holders <- [s \in Secret |-> Holders(s)], Worker <- Asker

\* Resets and OIDC logins implement secrets that are used by requests that read them
\* while they were open, and are never open again afterwards.
ImplementsOneTimeSecret == Promise!Spec

\* Recovery and external login let nobody in twice, too often or as somebody else:
\* confirm_password_reset, fixed_window_rate_limit and complete_oidc_callback.
LoginsGuarded ==
    /\ [](SecretsTypeOK /\ ResetUsedOnce /\ LimitHolds /\ CounterExpires)
    /\ IdentityStays

=============================================================================
