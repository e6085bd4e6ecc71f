--------------------------- MODULE CourseStructure ---------------------------
(***************************************************************************)
(* The ordered structure of a course in course-service: modules of a       *)
(* course, lessons of a module, topics of a lesson.  The three kinds share *)
(* their code for positions; they differ in what a removal does (a module  *)
(* or lesson is archived and keeps its row, a topic is deleted) and in     *)
(* that lessons can be published again and moved.                          *)
(*                                                                         *)
(* A row belongs to a scope, the parent it is ordered under, and the       *)
(* database keeps <<scope, position>> unique, archived rows included.  A   *)
(* request is a sequence of queries with no transaction around them;       *)
(* reordering alone has one, and takes a Redis lock that other requests do *)
(* not look at.                                                            *)
(***************************************************************************)
EXTENDS Naturals, FiniteSets, Sequences

CONSTANTS
    Row,           \* identities of modules, lessons or topics
    Scope,         \* identities of their parents, of one course
    Worker,        \* requests in progress
    NoWorker,
    Kinds,         \* the kinds of row that are considered
    MaxPosition    \* bound on positions

ASSUME KindsAssumption ==
    /\ Kinds \subseteq {"module", "lesson", "topic"}
    /\ NoWorker \notin Worker
    /\ MaxPosition \in Nat

\* A reordered scope fits below the bound.
ASSUME RowAssumption == IsFiniteSet(Row) /\ Cardinality(Row) <= MaxPosition

VARIABLES
    kind,     \* what the rows are
    row,      \* the table
    lock,     \* the Redis lock of each scope
    worker    \* what each request is doing

vars == <<kind, row, lock, worker>>

Position == 1 .. MaxPosition
Record == [state : {"active", "archived"}, scope : Scope, position : Position]

\* Rows that are not in the table: still to be created, or deleted.
Unused == [state |-> "unused"]
Deleted == [state |-> "deleted"]

Orders == UNION {[1 .. n -> Row] : n \in 1 .. Cardinality(Row)}

WorkerState ==
    [op : {"idle"}]
    \cup [op : {"update", "archive", "publish", "delete"}, step : {"loaded", "edited"},
          row : Row, copy : Record]
    \cup [op : {"create"}, copy : Record]
    \cup [op : {"reorder"}, step : {"read", "assigned"}, scope : Scope,
          order : Orders, leased : BOOLEAN]

\* The rows of a scope that are in the table.
RowsIn(table, s) ==
    {r \in Row : table[r] \notin {Unused, Deleted} /\ table[r].scope = s}

Active(s) == {r \in RowsIn(row, s) : row[r].state = "active"}

\* The constraints uq_course_modules_course_position and its like.
UniquePositions(table) ==
    \A s \in Scope : \A q, r \in RowsIn(table, s) :
        table[q].position = table[r].position => q = r

TypeOK ==
    /\ kind \in Kinds
    /\ row \in [Row -> Record \cup {Unused, Deleted}]
    /\ UniquePositions(row)
    /\ lock \in [Scope -> Worker \cup {NoWorker}]
    /\ worker \in [Worker -> WorkerState]

Idle == [op |-> "idle"]

Init ==
    /\ kind \in Kinds
    /\ row = [r \in Row |-> Unused]
    /\ lock = [s \in Scope |-> NoWorker]
    /\ worker = [w \in Worker |-> Idle]

-----------------------------------------------------------------------------
(* Positions *)

\* _max_position, or _next_position_excluding less one, of some rows.
MaxOf(rows) ==
    IF rows = {} THEN 0
    ELSE CHOOSE p \in {row[r].position : r \in rows} :
            \A r \in rows : row[r].position <= p

\* _ensure_position_available
Available(s, p, except) == \A r \in RowsIn(row, s) \ except : row[r].position # p

\* Mutation of TempBase: archived rows are left out.
ActiveTempBase(s) == MaxOf(Active(s))

TempBase(s) == MaxOf(RowsIn(row, s))

\* The table after the first k saves of _assign_ordered_positions, which moves
\* all rows above the base first and to their final positions then.
Assigned(order, base, k) ==
    [r \in Row |->
        IF \E i \in DOMAIN order : order[i] = r
        THEN LET n == Len(order)
                 i == CHOOSE j \in DOMAIN order : order[j] = r
             IN [row[r] EXCEPT !.position =
                    IF i + n <= k THEN i ELSE IF i <= k THEN base + i ELSE @]
        ELSE row[r]]

\* Every save finds its row and meets the unique constraint.
Fits(order, base) ==
    /\ \A i \in DOMAIN order : row[order[i]] \notin {Unused, Deleted}
    /\ \A k \in 1 .. 2 * Len(order) : UniquePositions(Assigned(order, base, k))

\* The payloads _ordered_by_ids accepts: every active row of the scope, once.
Payloads(s) ==
    {o \in [1 .. Cardinality(Active(s)) -> Active(s)] :
        \A i, j \in DOMAIN o : o[i] = o[j] => i = j}

-----------------------------------------------------------------------------
(* Single-row requests *)

Holds(w, op, step) == worker[w].op = op /\ worker[w].step = step

Allowed(op) ==
    CASE op = "update"  -> TRUE
      [] op = "archive" -> kind # "topic"
      [] op = "publish" -> kind = "lesson"
      [] op = "delete"  -> kind = "topic"

\* The view gets a row that is not removed.
Load(w, r, op) ==
    /\ worker[w] = Idle /\ Allowed(op)
    /\ row[r].state = "active"
    /\ worker' = [worker EXCEPT ![w] = [op |-> op, row |-> r, copy |-> row[r],
          step |-> IF op \in {"update", "archive"} THEN "loaded" ELSE "edited"]]
    /\ UNCHANGED <<kind, row, lock>>

Edited(w, copy) ==
    worker' = [worker EXCEPT ![w] = [@ EXCEPT !.step = "edited", !.copy = copy]]

\* update_module, update_lesson, update_topic: with a position (given, or the
\* next one where a lesson moves) that is free, or with none.
EditUpdate(w, s, p) ==
    LET r == worker[w].row
        old == worker[w].copy
    IN  /\ Holds(w, "update", "loaded")
        /\ s = old.scope \/ kind = "lesson"
        /\ Available(s, p, {r}) \/ (s = old.scope /\ p = old.position)
        /\ Edited(w, [old EXCEPT !.scope = s, !.position = p])
        /\ UNCHANGED <<kind, row, lock>>

\* archive_module, archive_lesson: behind all other rows of the scope.
EditArchive(w) ==
    LET old == worker[w].copy
        next == MaxOf(RowsIn(row, old.scope) \ {worker[w].row}) + 1
    IN  /\ Holds(w, "archive", "loaded")
        /\ next <= MaxPosition
        /\ Edited(w, [old EXCEPT !.position = next])
        /\ UNCHANGED <<kind, row, lock>>

\* create_module, create_lesson, create_topic: a free position, given or the
\* next one.
BeginCreate(w, s, p) ==
    /\ worker[w] = Idle
    /\ Available(s, p, {})
    /\ worker' = [worker EXCEPT ![w] = [op |-> "create",
          copy |-> [state |-> "active", scope |-> s, position |-> p]]]
    /\ UNCHANGED <<kind, row, lock>>

\* What the query of the request makes of the row.  An update writes every
\* column from its copy, and inserts a row that is gone.
Written(w) ==
    LET r == worker[w].row
        copy == worker[w].copy
    IN  CASE worker[w].op = "update"  -> copy
          [] worker[w].op = "archive" ->
                [row[r] EXCEPT !.state = "archived", !.position = copy.position]
          [] worker[w].op = "publish" -> [row[r] EXCEPT !.state = "active"]
          [] worker[w].op = "delete"  -> Deleted

\* Mutation of Write: the table has no unique constraint.
UnconstrainedWrite(r, record) == row' = [row EXCEPT ![r] = record]

\* The table accepts the row, or the request fails with an IntegrityError.
Write(r, record) ==
    LET table == [row EXCEPT ![r] = record] IN
    row' = IF UniquePositions(table) THEN table ELSE row

Save(w) ==
    /\ worker[w].op \in {"update", "archive", "publish", "delete"}
    /\ worker[w].step = "edited"
    /\ Write(worker[w].row, Written(w))
    /\ worker' = [worker EXCEPT ![w] = Idle]
    /\ UNCHANGED <<kind, lock>>

Insert(w, r) ==
    /\ worker[w].op = "create" /\ row[r] = Unused
    /\ Write(r, worker[w].copy)
    /\ worker' = [worker EXCEPT ![w] = Idle]
    /\ UNCHANGED <<kind, lock>>

-----------------------------------------------------------------------------
(* Reordering: reorder_modules, reorder_lessons, reorder_topics *)

\* The lock is set with NX and a time to live; then the active rows are read.
EnterReorder(w, s, order) ==
    /\ worker[w] = Idle
    /\ lock[s] = NoWorker
    /\ order # <<>>
    /\ lock' = [lock EXCEPT ![s] = w]
    /\ worker' = [worker EXCEPT ![w] = [op |-> "reorder", step |-> "read",
          scope |-> s, order |-> order, leased |-> TRUE]]
    /\ UNCHANGED <<kind, row>>

\* The transaction, which a failing save rolls back.
AssignPositions(w) ==
    LET order == worker[w].order
        base == TempBase(worker[w].scope)
    IN  /\ Holds(w, "reorder", "read")
        /\ row' = IF Fits(order, base) THEN Assigned(order, base, 2 * Len(order)) ELSE row
        /\ worker' = [worker EXCEPT ![w].step = "assigned"]
        /\ UNCHANGED <<kind, lock>>

\* Mutation of Released: the key is deleted whoever holds it.
UncheckedReleased(w, s) == [lock EXCEPT ![s] = NoWorker]

\* The release script deletes the key only if it holds the token of the request.
Released(w, s) == IF lock[s] = w THEN [lock EXCEPT ![s] = NoWorker] ELSE lock

\* The release may fail too, which is ignored.
LeaveReorder(w) ==
    /\ Holds(w, "reorder", "assigned")
    /\ lock' \in {Released(w, worker[w].scope), lock}
    /\ worker' = [worker EXCEPT ![w] = Idle]
    /\ UNCHANGED <<kind, row>>

\* REDIS_LOCK_TTL_SECONDS have passed.
Expire(s) ==
    /\ lock[s] # NoWorker
    /\ lock' = [lock EXCEPT ![s] = NoWorker]
    /\ worker' = [w \in Worker |->
          IF worker[w].op = "reorder" /\ worker[w].scope = s /\ lock[s] = w
          THEN [worker[w] EXCEPT !.leased = FALSE] ELSE worker[w]]
    /\ UNCHANGED <<kind, row>>

\* A process dies: what it committed stays, and its lock until it expires.
Crash(w) ==
    /\ worker[w] # Idle
    /\ worker' = [worker EXCEPT ![w] = Idle]
    /\ UNCHANGED <<kind, row, lock>>

-----------------------------------------------------------------------------

Next ==
    \/ \E w \in Worker :
        \/ \E r \in Row, op \in {"update", "archive", "publish", "delete"} : Load(w, r, op)
        \/ \E s \in Scope, p \in Position : EditUpdate(w, s, p) \/ BeginCreate(w, s, p)
        \/ EditArchive(w) \/ Save(w)
        \/ \E r \in Row : Insert(w, r)
        \/ \E s \in Scope : \E order \in Payloads(s) : EnterReorder(w, s, order)
        \/ AssignPositions(w) \/ LeaveReorder(w) \/ Crash(w)
    \/ \E s \in Scope : Expire(s)

Spec == Init /\ [][Next]_vars

-----------------------------------------------------------------------------
(* Properties *)

\* While the lease of a reorder has not expired the lock is its own: no request
\* that outlived its lease, failed or crashed gives the lock to another.
LeaseProtects ==
    \A w \in Worker :
        worker[w].op = "reorder" /\ worker[w].leased => lock[worker[w].scope] = w

\* Any order of the active rows can be saved, ...
ReorderAlwaysFits ==
    \A s \in Scope : \A order \in Payloads(s) : Fits(order, TempBase(s))

\* ... as long as no archived row sits on one of the positions it needs.
ReorderFitsBelowArchived ==
    \A s \in Scope :
        (\A r \in RowsIn(row, s) \ Active(s) : row[r].position > Cardinality(Active(s)))
        => \A order \in Payloads(s) : Fits(order, TempBase(s))

=============================================================================
