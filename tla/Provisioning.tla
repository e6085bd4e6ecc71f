---------------------------- MODULE Provisioning ----------------------------
(***************************************************************************)
(* Profiles in user-service, and the accounts it has auth-service create   *)
(* and deactivate for them.                                                *)
(*                                                                         *)
(* A profile and its account are in two databases.  Creating a profile     *)
(* first creates the account by a call, then stores the profile, and       *)
(* deactivates the account again when the profile cannot be stored.  Every *)
(* call is authorized by the operator's token when it is made, may be      *)
(* refused, and its answer may be lost.  The system is Permissions and     *)
(* user-service together.                                                  *)
(***************************************************************************)
EXTENDS Permissions

CONSTANTS
    Section,       \* departments and batches
    Home,          \* the institution of each
    Seeded,        \* institutions, departments and batches of the seed data
    Clerk,         \* requests to user-service in progress
    MaxStarted     \* bound on requests to user-service begun

ASSUME ProvisioningAssumption ==
    /\ Home \in [Section -> Institution] /\ MaxStarted \in Nat
    /\ Section \cap Institution = {} /\ None \notin Section
    /\ Seeded \subseteq Institution \cup Section

VARIABLES
    profile,       \* the profile of each account, None before it exists
    unit,          \* rows of institutions, departments and batches
    clerk,         \* what each request is doing
    authorized,    \* may the operator manage profiles and accounts in every scope now
    divided,       \* history: accounts of which one service was told of the creation or
                   \* the deactivation and the other perhaps was not
    replaced,      \* history: accounts whose profile was saved from an old copy
    started

provisioningVars == <<profile, unit, clerk, authorized, divided, replaced, started>>
vars == <<permissionVars, provisioningVars>>

\* An inactive profile is as good as an active one.
ProfileStatus == {"active", "deactivated"}

\* A profile and its role profile; the section is the department or the batch.
Profile == [status : ProfileStatus, deleted : BOOLEAN, institution : Scope,
            section : Section \cup {None}]

ASSUME ProfileAssumption == None \notin Profile

NewProfile(i, s) == [status |-> "active", deleted |-> FALSE, institution |-> i, section |-> s]

Unit == Institution \cup Section
UnitState == {"absent", "live", "archived"}

Resting == [op |-> "resting"]

ClerkState ==
    {Resting}
    \cup [op : {"create"}, step : {"call", "store", "undo"}, account : Account, new : Profile]
    \cup [op : {"deactivate"}, step : {"call", "save"}, account : Account]
    \cup [op : {"update"}, account : Account, copy : Profile]
    \cup [op : {"unit"}, unit : Unit]

TypeOK ==
    /\ PermissionTypeOK
    /\ profile \in [Account -> Profile \cup {None}]
    /\ unit \in [Unit -> UnitState]
    /\ clerk \in [Clerk -> ClerkState]
    /\ \A c \in Clerk : clerk[c].op \in {"deactivate", "update"} =>
          profile[clerk[c].account] # None
    /\ \A a \in Account : account[a] = Absent =>
          profile[a] = None /\ a \notin divided \cup replaced
    /\ authorized \in BOOLEAN
    /\ divided \subseteq Account /\ replaced \subseteq Account
    /\ started \in 0 .. MaxStarted

\* The units of the seed data, and some profiles with their accounts.
Init ==
    /\ \E existing \in SUBSET Account :
          /\ PermissionInit(existing)
          /\ profile = [a \in Account |->
                IF a \in existing THEN NewProfile(Platform, None) ELSE None]
    /\ unit = [u \in Unit |-> IF u \in Seeded THEN "live" ELSE "absent"]
    /\ clerk = [c \in Clerk |-> Resting]
    /\ authorized = TRUE
    /\ divided = {} /\ replaced = {}
    /\ started = 0

-----------------------------------------------------------------------------
(* Institutions, departments and batches *)

Live(u) == unit[u] = "live"

\* remote_authorization_check: what fails is a refusal.
Authorized == authorized

\* _require_account_scope_permission, in auth-service, for a call of user-service.
CallAuthorized == authorized

\* An authorized request begins.
Request ==
    /\ Authorized
    /\ started < MaxStarted
    /\ started' = started + 1

\* It is carried out in steps.
Starts(c) == clerk[c] = Resting /\ Request

Ends(c) == clerk' = [clerk EXCEPT ![c] = Resting]

\* What auth-service answers to the operator changes.
Reauthorize ==
    /\ authorized' = ~authorized
    /\ UNCHANGED <<profile, unit, clerk, divided, replaced, started>>

\* InstitutionCreateSerializer: nobody has the code, or had it before it was archived.
FreeCode(u) == unit[u] = "absent"

CreateInstitution(i) ==
    /\ Request /\ FreeCode(i)
    /\ unit' = [unit EXCEPT ![i] = "live"]
    /\ UNCHANGED <<profile, clerk, authorized, divided, replaced>>

\* DepartmentCreateSerializer: the institution is live as well.
SectionRequest == {s \in Section : Live(Home[s]) /\ FreeCode(s)}

\* create_department, create_batch
CreateSection(s) ==
    /\ Request
    /\ unit' = [unit EXCEPT ![s] = "live"]
    /\ UNCHANGED <<profile, clerk, authorized, divided, replaced>>

\* The row is loaded to be updated.
LoadUnit(c, u) ==
    /\ Starts(c) /\ Live(u)
    /\ clerk' = [clerk EXCEPT ![c] = [op |-> "unit", unit |-> u]]
    /\ UNCHANGED <<profile, unit, authorized, divided, replaced>>

\* update_institution, update_department, update_batch: save() writes every column, of
\* a row that was live when it was loaded.
UpdateUnit(c) ==
    /\ clerk[c].op = "unit"
    /\ unit' = [unit EXCEPT ![clerk[c].unit] = "live"]
    /\ Ends(c)
    /\ UNCHANGED <<profile, authorized, divided, replaced, started>>

\* archive_institution, archive_department, archive_batch, which write no other row.
ArchiveUnit(u) ==
    /\ Request /\ Live(u)
    /\ unit' = [unit EXCEPT ![u] = "archived"]
    /\ UNCHANGED <<profile, clerk, authorized, divided, replaced>>

-----------------------------------------------------------------------------
(* create_user_profile *)

\* _get_department, _get_batch: none is asked for, or a live one of the institution; a
\* profile of no institution may have any.
Found(s, i) == s # None => Live(s) /\ i \in {Platform, Home[s]}

\* What UserProfileCreateSerializer accepts: no institution, or one that is live.
CreateRequest == {NewProfile(i, s) :
    i \in {j \in Institution : Live(j)} \cup {Platform}, s \in Section \cup {None}}

BeginCreate(c, a, new) ==
    /\ Starts(c)
    /\ clerk' = [clerk EXCEPT ![c] =
          [op |-> "create", step |-> "call", account |-> a, new |-> new]]
    /\ UNCHANGED <<profile, unit, authorized, divided, replaced>>

At(c, op, step) == clerk[c].op = op /\ clerk[c].step = step
Enters(c, step) == clerk' = [clerk EXCEPT ![c].step = step]

\* AccountCreateView, in auth-service.
CreateCall(a, q) == CallAuthorized /\ CreateAccount(a, q)

\* The account is created, with the role of the profile in its scope.  If the answer
\* is lost the request ends, and nobody knows of the account.
CallCreate(c, q) ==
    LET a == clerk[c].account IN
    /\ At(c, "create", "call") /\ q.scope = clerk[c].new.institution
    /\ CreateCall(a, q)
    /\ \/ Enters(c, "store") /\ UNCHANGED divided
       \/ Ends(c) /\ divided' = divided \cup {a}
    /\ UNCHANGED <<profile, unit, authorized, replaced, started>>

\* The e-mail address is taken, the operator is not authorized any more, or
\* auth-service cannot be reached: the request ends with an error.
CallRefused(c) ==
    /\ clerk[c].op \in {"create", "deactivate"} /\ clerk[c].step = "call"
    /\ Ends(c)
    /\ UNCHANGED <<profile, unit, authorized, divided, replaced, started>>

\* _create_role_profile: what it refers to is found.
RoleProfileFound(new) == Found(new.section, new.institution)

\* The transaction that stores the profile and its role profile.
Store(c) ==
    LET a == clerk[c].account IN
    /\ At(c, "create", "store")
    /\ profile[a] = None
    /\ RoleProfileFound(clerk[c].new)
    /\ profile' = [profile EXCEPT ![a] = clerk[c].new]
    /\ Ends(c)
    /\ UNCHANGED <<unit, authorized, divided, replaced, started>>

\* Mutation of StoreFails: the account is left as it is.
StoreAbandoned(c) ==
    /\ At(c, "create", "store")
    /\ Ends(c)
    /\ UNCHANGED <<profile, unit, authorized, divided, replaced, started>>

\* Or it fails: the section is not found, a number is taken.
StoreFails(c) ==
    /\ At(c, "create", "store")
    /\ Enters(c, "undo")
    /\ UNCHANGED <<profile, unit, authorized, divided, replaced, started>>

\* AccountDeactivateView, in auth-service.
DeactivateCall(a) == CallAuthorized /\ DeactivateAccount(a)

\* The account is deactivated again.  An error of this call is swallowed.
Undo(c) ==
    LET a == clerk[c].account IN
    /\ At(c, "create", "undo")
    /\ \/ DeactivateCall(a) /\ UNCHANGED divided
       \/ divided' = divided \cup {a} /\ UNCHANGED permissionVars
    /\ Ends(c)
    /\ UNCHANGED <<profile, unit, authorized, replaced, started>>

-----------------------------------------------------------------------------
(* update_user_profile, deactivate_user_profile *)

Present(a) == profile[a] # None /\ ~profile[a].deleted

\* The view loads the profile.  A change of e-mail or phone is then told auth-service,
\* which changes nothing here, or ends the request.
LoadProfile(c, a) ==
    /\ Starts(c) /\ Present(a)
    /\ clerk' = [clerk EXCEPT ![c] = [op |-> "update", account |-> a, copy |-> profile[a]]]
    /\ UNCHANGED <<profile, unit, authorized, divided, replaced>>

\* _update_role_profile: the role profile is written if it was sent, with its section
\* or without.
UpdatedSection(a, copy) ==
    {profile[a].section, copy.section} \cup
    {s \in Section \cup {None} : Found(s, copy.institution)}

\* UserProfileUpdateSerializer: every member may be sent, but the institution.
Sent(copy, status, s) == [copy EXCEPT !.status = status, !.section = s]

Updated(a, copy) == {Sent(copy, status, s) :
    status \in ProfileStatus, s \in UpdatedSection(a, copy)}

\* The columns of the profile are all written, from the copy but for those sent.
SaveProfile(c) ==
    LET a == clerk[c].account
        copy == clerk[c].copy
    IN  /\ clerk[c].op = "update"
        /\ \E new \in Updated(a, copy) : profile' = [profile EXCEPT ![a] = new]
        /\ replaced' = IF profile[a] = copy THEN replaced ELSE replaced \cup {a}
        /\ Ends(c)
        /\ UNCHANGED <<unit, authorized, divided, started>>

BeginDeactivate(c, a) ==
    /\ Starts(c) /\ Present(a)
    /\ clerk' = [clerk EXCEPT ![c] = [op |-> "deactivate", step |-> "call", account |-> a]]
    /\ UNCHANGED <<profile, unit, authorized, divided, replaced>>

\* The account is deactivated first; the request ends if the answer is lost.
CallDeactivate(c) ==
    LET a == clerk[c].account IN
    /\ At(c, "deactivate", "call")
    /\ DeactivateCall(a)
    /\ \/ Enters(c, "save") /\ UNCHANGED divided
       \/ Ends(c) /\ divided' = divided \cup {a}
    /\ UNCHANGED <<profile, unit, authorized, replaced, started>>

SaveDeactivated(c) ==
    /\ At(c, "deactivate", "save")
    /\ profile' = [profile EXCEPT ![clerk[c].account].status = "deactivated",
                                  ![clerk[c].account].deleted = TRUE]
    /\ Ends(c)
    /\ UNCHANGED <<unit, authorized, divided, replaced, started>>

\* The process stops between two steps.
Crash(c) ==
    /\ clerk[c] # Resting
    /\ divided' = IF At(c, "create", "store") \/ At(c, "create", "undo")
                     \/ At(c, "deactivate", "save")
                  THEN divided \cup {clerk[c].account} ELSE divided
    /\ Ends(c)
    /\ UNCHANGED <<profile, unit, authorized, replaced, started>>

-----------------------------------------------------------------------------
(* user-service and auth-service together *)

\* AccountDetailView: auth-service changes the status of an account by itself.
SetStatus(a, status) ==
    /\ CallAuthorized
    /\ UpdateStatus(a, status)
    /\ divided' = IF status = "deactivated" THEN divided \cup {a} ELSE divided
    /\ UNCHANGED <<profile, unit, clerk, authorized, replaced, started>>

Alone ==
    \/ Reauthorize
    \/ \E i \in Institution : CreateInstitution(i)
    \/ \E s \in SectionRequest : CreateSection(s)
    \/ \E u \in Unit : ArchiveUnit(u)
    \/ \E c \in Clerk :
        \/ \E u \in Unit : LoadUnit(c, u)
        \/ UpdateUnit(c)
        \/ \E a \in Account :
            \/ \E new \in CreateRequest : BeginCreate(c, a, new)
            \/ LoadProfile(c, a) \/ BeginDeactivate(c, a)
        \/ CallRefused(c) \/ Store(c) \/ StoreFails(c)
        \/ SaveProfile(c) \/ SaveDeactivated(c) \/ Crash(c)

Together ==
    \/ \E c \in Clerk :
        \/ \E q \in AccountRequest : CallCreate(c, q)
        \/ Undo(c) \/ CallDeactivate(c)
    \/ \E a \in Account, status \in StatusRequest : SetStatus(a, status)

Next ==
    \/ PermissionNext /\ UNCHANGED provisioningVars
    \/ Alone /\ UNCHANGED permissionVars
    \/ Together

Spec == Init /\ [][Next]_vars

-----------------------------------------------------------------------------
(* Properties *)

\* Every cached answer of a permission check is what the database says, unless the
\* account is not active, a change of its roles has yet to invalidate the answer, or
\* the check ran while such a change did: has_permission against assign_role,
\* revoke_role_assignment and the rest.
CacheAgrees ==
    \A k \in Key : cache[k] \notin {None, Truth(k)} =>
        \/ ~IsActive(k[1])
        \/ k \in overlapped
        \/ \E w \in Worker :
              \/ worker[w].op = "invalidate" /\ k \in worker[w].concerns
              \/ worker[w].op = "delete" /\ k \in worker[w].keys

\* An account that can be used has a profile, unless the request that creates it is
\* still working on it, or was cut short: whatever fails in create_user_profile.
NoOrphanAccount ==
    \A a \in Account : IsActive(a) /\ profile[a] = None =>
        \/ a \in divided
        \/ \E c \in Clerk : clerk[c].op = "create" /\ clerk[c].account = a

\* Once a profile is deactivated its account can never be used again: neither by
\* requests that overlap nor by a new status set in auth-service.
DeactivatedEverywhere ==
    \A a \in Account : profile[a] # None /\ profile[a].deleted => ~IsActive(a)

\* The two services agree which accounts are deactivated, but for requests in
\* progress, requests cut short, and profiles saved from an old copy.
ServicesAgree ==
    \A a \in Account \ (divided \cup replaced) :
        /\ profile[a] # None
        /\ \A c \in Clerk : clerk[c].op = "deactivate" => clerk[c].account # a
        => (profile[a].deleted <=> account[a].deleted)

\* A profile is in a section of its own institution, whatever is updated meanwhile.
MembershipConsistent ==
    \A a \in Account : profile[a] # None /\ profile[a].section # None =>
        profile[a].institution \in {Platform, Home[profile[a].section]}

\* auth-service and user-service tell the same of every account and profile, whichever
\* of their calls fails, is refused or overlaps another.
AccountsAgree ==
    TypeOK /\ NoOrphanAccount /\ DeactivatedEverywhere /\ ServicesAgree /\ MembershipConsistent

=============================================================================
