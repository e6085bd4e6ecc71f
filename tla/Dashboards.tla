----------------------------- MODULE Dashboards -----------------------------
(***************************************************************************)
(* The dashboards of analytics-service: aggregates in PostgreSQL, written  *)
(* by administrators, and the payloads made of them, which Redis keeps for *)
(* ANALYTICS_DASHBOARD_CACHE_TTL_SECONDS.                                  *)
(*                                                                         *)
(* A write of an aggregate deletes the cached payloads of its scope before *)
(* its transaction commits.  The aggregates of a scope are of days; the    *)
(* metrics of an aggregate are abstracted to a number, 0 for none.         *)
(***************************************************************************)
EXTENDS Integers, FiniteSets, FiniteSetsExt

CONSTANTS
    Viewer,          \* profiles that look at dashboards
    Viewing,         \* requests for a dashboard
    Writing,         \* requests that write an aggregate
    LastDay,         \* the last of the dates of aggregates: dates have a greatest value
    MaxMetrics,      \* bound on the writes
    MaxRedisFaults   \* bound on the failures of Redis

ASSUME DashboardsAssumption ==
    {LastDay, MaxMetrics} \subseteq Nat \ {0} /\ MaxRedisFaults \in Nat

Day == 1 .. LastDay

VARIABLES
    aggregate,     \* the metrics of each scope and day
    cached,        \* the entries in Redis
    viewing,       \* what each request for a dashboard is doing
    writing,       \* what each write is doing
    written,       \* number of the writes
    redisFaults

dashboardVars == <<aggregate, cached, viewing, writing, written, redisFaults>>

\* A student's dashboard, and the platform's, which stands for an institution's too.
DashboardScope == {"student", "platform"}

\* Only aggregates of institutions and of the platform can be written.
ManagedScope == {"platform"}

\* The profile is part of the key: nobody's if user-service has not answered.
Key ==
    {[scope |-> "platform", for |-> p] : p \in Viewer \cup {"nobody"}}
    \cup {[scope |-> "student", for |-> p] : p \in Viewer}

\* What a payload shows of an aggregate: its day and its metrics.
Shown == [day : Day \cup {0}, metrics : 0 .. MaxMetrics]

\* An entry says whether a write of its scope had overtaken it when it was stored:
\* history.
Entry == [shown : Shown, overtaken : BOOLEAN]
NoEntry == [absent |-> TRUE]

\* The defaults of the portal, without an aggregate.
NothingShown == [day |-> 0, metrics |-> 0]

Waiting == [pc |-> "idle"]

ViewingState ==
    {Waiting}
    \cup [pc : {"missed"}, key : Key]
    \cup [pc : {"read"}, key : Key, shown : Shown, overtaken : BOOLEAN]

WritingState ==
    {Waiting} \cup [pc : {"stored", "invalidated"}, scope : ManagedScope, day : Day,
                   metrics : 1 .. MaxMetrics]

DashboardsTypeOK ==
    /\ aggregate \in [DashboardScope \X Day -> 0 .. MaxMetrics]
    /\ cached \in [Key -> Entry \cup {NoEntry}]
    /\ viewing \in [Viewing -> ViewingState]
    /\ writing \in [Writing -> WritingState]
    /\ written \in 0 .. MaxMetrics
    /\ redisFaults \in 0 .. MaxRedisFaults

\* The seed data has an aggregate of today for the student.
DashboardsInit ==
    /\ \E seeded \in {0, 1} :
          aggregate = [sd \in DashboardScope \X Day |->
              IF sd[1] = "student" /\ sd[2] = 1 THEN seeded ELSE 0]
    /\ cached = [k \in Key |-> NoEntry]
    /\ viewing = [v \in Viewing |-> Waiting]
    /\ writing = [w \in Writing |-> Waiting]
    /\ written = 0 /\ redisFaults = 0

-----------------------------------------------------------------------------
(* cached_dashboard_payload *)

\* latest_dashboard_aggregate, and the defaults if there is none.
Latest(s) ==
    LET days == {d \in Day : aggregate[<<s, d>>] # 0} IN
    IF days = {} THEN NothingShown
    ELSE [day |-> Max(days), metrics |-> aggregate[<<s, Max(days)>>]]

\* The writes of a scope that have deleted its entries and not committed.
Overtaking(s) == {w \in Writing : writing[w].pc = "invalidated" /\ writing[w].scope = s}

\* The view authorises the request, asks user-service for the profile and finds
\* nothing in the cache.  An entry it finds is the answer.  While Redis fails,
\* nothing is found.
AskDashboard(v, k) ==
    /\ viewing[v] = Waiting
    /\ \/ cached[k] = NoEntry /\ UNCHANGED redisFaults
       \/ redisFaults < MaxRedisFaults /\ redisFaults' = redisFaults + 1
    /\ viewing' = [viewing EXCEPT ![v] = [pc |-> "missed", key |-> k]]
    /\ UNCHANGED <<aggregate, cached, writing, written>>

\* dashboard_payload
ReadDashboard(v) ==
    LET q == viewing[v] IN
    /\ q.pc = "missed"
    /\ viewing' = [viewing EXCEPT ![v] =
          [pc |-> "read", key |-> q.key, shown |-> Latest(q.key.scope), overtaken |-> FALSE]]
    /\ UNCHANGED <<aggregate, cached, writing, written, redisFaults>>

\* set_json_cache, and the answer.
StoreDashboard(v) ==
    LET q == viewing[v] IN
    /\ q.pc = "read"
    /\ cached' = [cached EXCEPT ![q.key] =
          [shown |-> q.shown, overtaken |-> q.overtaken \/ Overtaking(q.key.scope) # {}]]
    /\ viewing' = [viewing EXCEPT ![v] = Waiting]
    /\ UNCHANGED <<aggregate, writing, written, redisFaults>>

\* The entry reaches its time to live, or Redis evicts it.
ExpireDashboard(k) ==
    /\ cached[k] # NoEntry
    /\ cached' = [cached EXCEPT ![k] = NoEntry]
    /\ UNCHANGED <<aggregate, viewing, writing, written, redisFaults>>

-----------------------------------------------------------------------------
(* upsert_dashboard_aggregate *)

\* update_or_create.  The row, or its place in the unique index, stays locked for
\* another write of it until the commit.
StoreAggregate(w, s, d) ==
    /\ writing[w] = Waiting
    /\ s \in ManagedScope
    /\ \A x \in Writing : writing[x] # Waiting => <<writing[x].scope, writing[x].day>> # <<s, d>>
    /\ written < MaxMetrics
    /\ written' = written + 1
    /\ writing' = [writing EXCEPT ![w] =
          [pc |-> "stored", scope |-> s, day |-> d, metrics |-> written + 1]]
    /\ UNCHANGED <<aggregate, cached, viewing, redisFaults>>

\* Mutation of Dropped: only the dashboard of the administrator who writes.
DroppedOne(s) == [cached EXCEPT ![[scope |-> s, for |-> "nobody"]] = NoEntry]

\* Every key that begins with the scope.
Dropped(s) == [k \in Key |-> IF k.scope = s THEN NoEntry ELSE cached[k]]

\* invalidate_dashboard_cache, while the transaction is open.
InvalidateDashboards(w) ==
    /\ writing[w].pc = "stored"
    /\ cached' = Dropped(writing[w].scope)
    /\ writing' = [writing EXCEPT ![w].pc = "invalidated"]
    /\ UNCHANGED <<aggregate, viewing, written, redisFaults>>

\* The entries of s that a write has overtaken.
Overtake(s) ==
    [k \in Key |-> IF k.scope = s /\ cached[k] # NoEntry
                   THEN [cached[k] EXCEPT !.overtaken = TRUE] ELSE cached[k]]

\* Redis fails: the entries stay, and the write goes on.
FailInvalidation(w) ==
    /\ redisFaults < MaxRedisFaults
    /\ redisFaults' = redisFaults + 1
    /\ writing[w].pc = "stored"
    /\ cached' = Overtake(writing[w].scope)
    /\ writing' = [writing EXCEPT ![w].pc = "invalidated"]
    /\ UNCHANGED <<aggregate, viewing, written>>

\* The commit, which overtakes the requests that have read the scope before it.
CommitAggregate(w) ==
    LET x == writing[w] IN
    /\ x.pc = "invalidated"
    /\ aggregate' = [aggregate EXCEPT ![<<x.scope, x.day>>] = x.metrics]
    /\ writing' = [writing EXCEPT ![w] = Waiting]
    /\ viewing' = [v \in Viewing |->
          IF viewing[v].pc = "read" /\ viewing[v].key.scope = x.scope
          THEN [viewing[v] EXCEPT !.overtaken = TRUE] ELSE viewing[v]]
    /\ UNCHANGED <<cached, written, redisFaults>>

\* A request ends before its commit, or before it stored an entry.
StopDashboard ==
    \/ /\ \E w \in Writing : writing[w] # Waiting /\ writing' = [writing EXCEPT ![w] = Waiting]
       /\ UNCHANGED <<aggregate, cached, viewing, written, redisFaults>>
    \/ /\ \E v \in Viewing : viewing[v] # Waiting /\ viewing' = [viewing EXCEPT ![v] = Waiting]
       /\ UNCHANGED <<aggregate, cached, writing, written, redisFaults>>

DashboardsNext ==
    \/ \E v \in Viewing :
        (\E k \in Key : AskDashboard(v, k)) \/ ReadDashboard(v) \/ StoreDashboard(v)
    \/ \E k \in Key : ExpireDashboard(k)
    \/ \E w \in Writing :
        \/ \E s \in DashboardScope, d \in Day : StoreAggregate(w, s, d)
        \/ InvalidateDashboards(w) \/ FailInvalidation(w) \/ CommitAggregate(w)
    \/ StopDashboard

-----------------------------------------------------------------------------
(* Properties *)

\* A cached dashboard shows the latest aggregate of its scope, whoever it is kept
\* for, unless a write overtook the request that stored it: it had read before
\* the commit, or stored while the write was between deleting the entries and
\* its commit, or Redis failed to delete them.
DashboardCurrent ==
    \A k \in Key :
        cached[k] # NoEntry /\ ~cached[k].overtaken => cached[k].shown = Latest(k.scope)

\* The tables and the cache of dashboards are well formed and tell the same.
DashboardsAgree == DashboardsTypeOK /\ DashboardCurrent

=============================================================================
