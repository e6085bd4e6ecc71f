---------------------------- MODULE Permissions -----------------------------
(***************************************************************************)
(* Accounts, roles and permissions in auth-service, and the cache of       *)
(* permission checks it keeps in Redis.                                    *)
(*                                                                         *)
(* A check that finds no entry in the cache reads the database and stores  *)
(* what it read, in separate steps.  A change of roles is saved first and  *)
(* then invalidates the entries of the accounts it concerns: it scans the  *)
(* keys and deletes the ones it found.  Nothing orders the two.  Every     *)
(* access to Redis may fail, and is then passed over.                      *)
(***************************************************************************)
EXTENDS Naturals, FiniteSets

CONSTANTS
    Account,         \* accounts, by their e-mail address
    Role,            \* the roles and permissions the instance follows, of the seeded
    Permission,
    Institution,
    Platform,        \* the scope that is no institution's
    Key,             \* the checks it follows: account, permission and scope
    Row,             \* rows of role_assignments
    Worker,          \* requests to auth-service in progress
    None,
    MaxRoleChanges   \* bound on changes of roles begun

Scope == Institution \cup {Platform}
Answer == {"allowed", "denied"}

(* The migration that seeds roles and permissions: a permission is a resource and *)
(* what may be done with it.                                                      *)

Viewed == {"profile", "course", "content", "enrollment", "progress", "assessment",
           "submission", "grade", "notification", "analytics"}

Codes(resources, action) == resources \X {action}

PermissionCode ==
    Codes(Viewed, "view")
    \cup Codes((Viewed \ {"analytics"}) \cup {"rbac", "institution"}, "manage")

Learning == Viewed \ {"analytics"}

RolePermissionMap ==
    [super_admin |-> PermissionCode,
     institution_admin |-> PermissionCode \ Codes({"rbac"}, "manage"),
     instructor |-> Codes(Viewed, "view") \cup Codes({"course", "content", "progress",
        "assessment", "submission", "grade"}, "manage"),
     teaching_assistant |-> Codes(Learning, "view") \cup Codes({"submission"}, "manage"),
     student |-> Codes(Learning, "view") \cup Codes({"progress", "submission"}, "manage"),
     parent_guardian |-> Codes({"profile", "progress", "grade", "notification"}, "view")]

ASSUME PermissionAssumption ==
    /\ Role \subseteq DOMAIN RolePermissionMap /\ Permission \subseteq PermissionCode
    /\ Platform \notin Institution
    /\ Key \subseteq Account \X Permission \X Scope
    /\ None \notin Answer /\ MaxRoleChanges \in Nat

VARIABLES
    account,       \* status of each account, and whether deleted_at is set
    assignment,    \* rows of role_assignments, None before they exist
    granted,       \* role_permissions
    cache,         \* the answer stored for a key, None without one
    worker,        \* what each request is doing
    overlapped,    \* history: keys checked while a change concerned them, or whose
                   \* invalidation failed, since they were last out of the cache
    roleChanges

permissionVars == <<account, assignment, granted, cache, worker, overlapped, roleChanges>>

\* A pending and a locked account are as good as a disabled one.
Status == {"absent", "active", "disabled", "deactivated"}
AccountRow == [status : Status, deleted : BOOLEAN]
Absent == [status |-> "absent", deleted |-> FALSE]

Assignment == [account : Account, role : Role, scope : Scope, revoked : BOOLEAN]

\* None stands for a row that does not exist.
ASSUME AssignmentAssumption == None \notin Assignment

\* A row of role_permissions.
RolePermission == Role \X Permission

Idle == [op |-> "idle"]

WorkerState ==
    {Idle}
    \cup [op : {"check"}, key : Key, answer : Answer \cup {None}]
    \cup [op : {"revoke"}, row : Row]
    \cup [op : {"invalidate"}, concerns : SUBSET Key]
    \cup [op : {"delete"}, keys : SUBSET Key]

PermissionTypeOK ==
    /\ account \in [Account -> AccountRow]
    /\ assignment \in [Row -> Assignment \cup {None}]
    /\ granted \subseteq RolePermission
    /\ cache \in [Key -> Answer \cup {None}]
    /\ worker \in [Worker -> WorkerState]
    /\ overlapped \subseteq Key
    /\ roleChanges \in 0 .. MaxRoleChanges

\* The migration has run, and some accounts exist, whose roles are yet to be assigned.
PermissionInit(existing) ==
    /\ account = [a \in Account |->
          IF a \in existing THEN [status |-> "active", deleted |-> FALSE] ELSE Absent]
    /\ assignment = [r \in Row |-> None]
    /\ granted = {g \in RolePermission : g[2] \in RolePermissionMap[g[1]]}
    /\ cache = [k \in Key |-> None]
    /\ worker = [w \in Worker |-> Idle]
    /\ overlapped = {}
    /\ roleChanges = 0

-----------------------------------------------------------------------------
(* What the database says *)

\* Account.is_active
IsActive(a) == account[a].status = "active" /\ ~account[a].deleted

ActiveRows(a) == {r \in Row :
    assignment[r] # None /\ assignment[r].account = a /\ ~assignment[r].revoked}

\* _has_permission_from_database: a super admin of any scope, or a role with the
\* permission on the platform or in exactly that scope.
Permitted(k) ==
    LET a == k[1]
        p == k[2]
        s == k[3]
    IN  /\ IsActive(a)
        /\ \E r \in ActiveRows(a) :
             \/ assignment[r].role = "super_admin"
             \/ assignment[r].scope \in {Platform, s} /\ <<assignment[r].role, p>> \in granted

Truth(k) == IF Permitted(k) THEN "allowed" ELSE "denied"

-----------------------------------------------------------------------------
(* has_permission *)

Checking(w, k) == worker[w].op = "check" /\ worker[w].key = k

\* The caller of a check, authenticated by its access token, finds no entry.  A hit
\* answers at once and changes nothing, and so does a check while Redis is away.
CheckMiss(w, k) ==
    /\ worker[w] = Idle /\ IsActive(k[1])
    /\ cache[k] = None
    /\ worker' = [worker EXCEPT ![w] = [op |-> "check", key |-> k, answer |-> None]]
    /\ UNCHANGED <<account, assignment, granted, cache, overlapped, roleChanges>>

CheckRead(w) ==
    /\ worker[w].op = "check" /\ worker[w].answer = None
    /\ worker' = [worker EXCEPT ![w].answer = Truth(worker[w].key)]
    /\ UNCHANGED <<account, assignment, granted, cache, overlapped, roleChanges>>

\* The answer is stored, unless Redis fails.
CheckStore(w) ==
    /\ worker[w].op = "check" /\ worker[w].answer # None
    /\ \/ cache' = [cache EXCEPT ![worker[w].key] = worker[w].answer]
       \/ UNCHANGED cache
    /\ worker' = [worker EXCEPT ![w] = Idle]
    /\ UNCHANGED <<account, assignment, granted, overlapped, roleChanges>>

\* An entry reaches the end of AUTH_PERMISSION_CACHE_TTL_SECONDS.
Expire(k) ==
    /\ cache[k] # None
    /\ cache' = [cache EXCEPT ![k] = None]
    /\ overlapped' = IF \E w \in Worker : Checking(w, k) THEN overlapped ELSE overlapped \ {k}
    /\ UNCHANGED <<account, assignment, granted, worker, roleChanges>>

-----------------------------------------------------------------------------
(* Changing roles *)

KeysOf(a) == {k \in Key : k[1] = a}

\* The keys of a change that a check is working on.
InFlight(keys) == {k \in keys : \E w \in Worker : Checking(w, k)}

BeginChange ==
    /\ roleChanges < MaxRoleChanges
    /\ roleChanges' = roleChanges + 1

\* The row is saved and its entries are to be invalidated; a check that has begun may
\* not see it.
Saved(w, keys) ==
    /\ worker' = [worker EXCEPT ![w] = [op |-> "invalidate", concerns |-> keys]]
    /\ overlapped' = overlapped \cup InFlight(keys)

\* The rows that assign this role to this account in this scope now: one at most, by
\* the unique constraints on active assignments.
Same(a, role, scope) == {r \in ActiveRows(a) :
    assignment[r].role = role /\ assignment[r].scope = scope}

\* A new row, or the one that is active already.
Upsert(a, role, scope) ==
    IF Same(a, role, scope) # {} THEN UNCHANGED assignment
    ELSE \E r \in Row :
           /\ assignment[r] = None
           /\ assignment' = [assignment EXCEPT ![r] =
                [account |-> a, role |-> role, scope |-> scope, revoked |-> FALSE]]

\* RoleAssignmentCreateSerializer: a scope that is not the platform has an identifier.
RoleAssignmentRequest == [account : Account, role : Role, scope : Scope]

\* What RoleAssignmentCreateView accepts: an account and a role that exist.
AssignmentRequest == {q \in RoleAssignmentRequest : account[q.account] # Absent}

\* assign_role: the row, its audit entry, and then the cache.
Assign(w, q) ==
    /\ worker[w] = Idle /\ BeginChange
    /\ Upsert(q.account, q.role, q.scope)
    /\ Saved(w, KeysOf(q.account))
    /\ UNCHANGED <<account, granted, cache>>

\* RoleAssignmentDeleteView loads the row, whether or not it is revoked.
LoadAssignment(w, r) ==
    /\ worker[w] = Idle /\ assignment[r] # None /\ BeginChange
    /\ worker' = [worker EXCEPT ![w] = [op |-> "revoke", row |-> r]]
    /\ UNCHANGED <<account, assignment, granted, cache, overlapped>>

\* revoke_role_assignment: revoking twice only renews revoked_at.
RevokeAssignment(w) ==
    LET r == worker[w].row IN
    /\ worker[w].op = "revoke"
    /\ assignment' = [assignment EXCEPT ![r].revoked = TRUE]
    /\ Saved(w, KeysOf(assignment[r].account))
    /\ UNCHANGED <<account, granted, cache, roleChanges>>

\* grant_role_permission, revoke_role_permission: they concern every account, and do
\* nothing if there is nothing to change.
GrantPermission(w, role, p) ==
    /\ worker[w] = Idle /\ <<role, p>> \notin granted /\ BeginChange
    /\ granted' = granted \cup {<<role, p>>}
    /\ Saved(w, Key)
    /\ UNCHANGED <<account, assignment, cache>>

WithdrawPermission(w, role, p) ==
    /\ worker[w] = Idle /\ <<role, p>> \in granted /\ BeginChange
    /\ granted' = granted \ {<<role, p>>}
    /\ Saved(w, Key)
    /\ UNCHANGED <<account, assignment, cache>>

\* Mutation of Scan: only entries that deny are looked for.
DeniedScan(w) ==
    /\ worker[w].op = "invalidate"
    /\ worker' = [worker EXCEPT ![w] =
          [op |-> "delete", keys |-> {k \in worker[w].concerns : cache[k] = "denied"}]]
    /\ UNCHANGED <<account, assignment, granted, cache, overlapped, roleChanges>>

\* invalidate_permission_cache finds the keys with the prefix.
Scan(w) ==
    /\ worker[w].op = "invalidate"
    /\ worker' = [worker EXCEPT ![w] =
          [op |-> "delete", keys |-> {k \in worker[w].concerns : cache[k] # None}]]
    /\ UNCHANGED <<account, assignment, granted, cache, overlapped, roleChanges>>

Delete(w) ==
    /\ worker[w].op = "delete"
    /\ cache' = [k \in Key |-> IF k \in worker[w].keys THEN None ELSE cache[k]]
    /\ worker' = [worker EXCEPT ![w] = Idle]
    /\ UNCHANGED <<account, assignment, granted, overlapped, roleChanges>>

\* Redis fails during either, and the request returns as if nothing had happened; or
\* the request ends before.
InvalidationFails(w) ==
    /\ worker[w].op \in {"invalidate", "delete"}
    /\ overlapped' = overlapped \cup
          (IF worker[w].op = "delete" THEN worker[w].keys ELSE worker[w].concerns)
    /\ worker' = [worker EXCEPT ![w] = Idle]
    /\ UNCHANGED <<account, assignment, granted, cache, roleChanges>>

-----------------------------------------------------------------------------
(* Accounts *)

\* AccountCreateSerializer: a role that exists, and its scope.
AccountRequest == [role : Role, scope : Scope]

\* create_managed_account: the account, its credential and its role are one
\* transaction.  Nothing is cached of an account that did not exist.
CreateAccount(a, q) ==
    /\ account[a] = Absent
    /\ account' = [account EXCEPT ![a] = [status |-> "active", deleted |-> FALSE]]
    /\ Upsert(a, q.role, q.scope)
    /\ UNCHANGED <<granted, cache, worker, overlapped, roleChanges>>

\* The status of an account and its deleted_at; no cached answer is invalidated.
SaveAccount(a, row) ==
    /\ account[a] # Absent
    /\ account' = [account EXCEPT ![a] = row]
    /\ overlapped' = overlapped \cup InFlight(KeysOf(a))
    /\ UNCHANGED <<assignment, granted, cache, worker, roleChanges>>

\* deactivate_managed_account
DeactivateAccount(a) == SaveAccount(a, [status |-> "deactivated", deleted |-> TRUE])

\* AccountUpdateSerializer: any status may be sent.
StatusRequest == Status \ {"absent"}

\* update_managed_account with a status: leaving deactivated keeps deleted_at.
UpdateStatus(a, status) ==
    /\ BeginChange
    /\ account[a] # Absent
    /\ account' = [account EXCEPT ![a] =
          [status |-> status, deleted |-> @.deleted \/ status = "deactivated"]]
    /\ overlapped' = overlapped \cup InFlight(KeysOf(a))
    /\ UNCHANGED <<assignment, granted, cache, worker>>

PermissionNext ==
    \/ \E w \in Worker :
        \/ \E k \in Key : CheckMiss(w, k)
        \/ CheckRead(w) \/ CheckStore(w)
        \/ \E q \in AssignmentRequest : Assign(w, q)
        \/ \E r \in Row : LoadAssignment(w, r)
        \/ RevokeAssignment(w)
        \/ \E role \in Role, p \in Permission :
             GrantPermission(w, role, p) \/ WithdrawPermission(w, role, p)
        \/ Scan(w) \/ Delete(w) \/ InvalidationFails(w)
    \/ \E k \in Key : Expire(k)

=============================================================================
