------------------------ MODULE CourseStructureProofs ------------------------
(***************************************************************************)
(* Proofs about CourseStructure, for any finite set of rows, any scopes    *)
(* and any requests.                                                       *)
(***************************************************************************)
EXTENDS CourseStructure, FunctionTheorems, FiniteSetTheorems, WellFoundedInduction, TLAPS

-----------------------------------------------------------------------------
(* The highest position *)

Below == {p \in Nat \X Nat : p[1] < p[2]}

LEMMA BelowWellFounded == IsWellFoundedOn(Below, Nat)
BY NatLessThanWellFounded DEF OpToRel, Below

\* A non-empty set of numbers up to a bound has a greatest one.
LEMMA GreatestExists ==
    ASSUME NEW bound \in Nat, NEW S \in SUBSET (1 .. bound), S # {}
    PROVE  \E m \in S : \A x \in S : x <= m
<1> DEFINE Distances == {bound - x : x \in S}
<1>1. Distances \subseteq Nat OBVIOUS
<1>2. Distances # {} OBVIOUS
<1> HIDE DEF Distances
<1>3. PICK d \in Distances : \A e \in Distances : <<e, d>> \notin Below
  BY <1>1, <1>2, BelowWellFounded, WFMin
<1>4. PICK m \in S : d = bound - m BY DEF Distances
<1>5. ASSUME NEW x \in S PROVE x <= m
  <2>1. bound - x \in Distances /\ bound - x \in Nat BY DEF Distances
  <2>2. ~ (bound - x < d) BY <2>1, <1>1, <1>3 DEF Below
  <2> QED BY <2>2, <1>4
<1> QED BY <1>5

\* The rows of a scope have records of that scope.
LEMMA RowsInType ==
    ASSUME TypeOK, NEW s, NEW r \in RowsIn(row, s)
    PROVE  /\ r \in Row /\ row[r] \in Record /\ row[r].scope = s
           /\ row[r].position \in Position
BY DEF TypeOK, RowsIn, Record

\* MaxOf bounds the positions of the rows it is given.
LEMMA MaxOfBounds ==
    ASSUME TypeOK, NEW rows \in SUBSET Row, \A r \in rows : row[r] \in Record
    PROVE  /\ MaxOf(rows) \in Nat
           /\ \A r \in rows : row[r].position <= MaxOf(rows)
<1>1. CASE rows = {} BY <1>1 DEF MaxOf
<1>2. CASE rows # {}
  <2> DEFINE S == {row[r].position : r \in rows}
  <2>1. MaxPosition \in Nat BY KindsAssumption
  <2>2. S \in SUBSET (1 .. MaxPosition) BY DEF Record, Position
  <2>3. S # {} BY <1>2
  <2>4. \E m \in S : \A x \in S : x <= m BY <2>1, <2>2, <2>3, GreatestExists
  <2>5. \E m \in S : \A r \in rows : row[r].position <= m BY <2>4
  <2>6. MaxOf(rows) = CHOOSE m \in S : \A r \in rows : row[r].position <= m
    BY <1>2 DEF MaxOf
  <2> HIDE DEF S
  <2>7. MaxOf(rows) \in S /\ \A r \in rows : row[r].position <= MaxOf(rows)
    BY <2>5, <2>6
  <2>8. MaxOf(rows) \in 1 .. MaxPosition BY <2>2, <2>7
  <2>9. MaxOf(rows) \in Nat BY <2>1, <2>8
  <2> QED BY <2>7, <2>9
<1> QED BY <1>1, <1>2

LEMMA TempBaseBounds ==
    ASSUME TypeOK, NEW s \in Scope
    PROVE  /\ TempBase(s) \in Nat
           /\ \A r \in RowsIn(row, s) : row[r].position <= TempBase(s)
<1>1. RowsIn(row, s) \in SUBSET Row BY DEF RowsIn
<1>2. \A r \in RowsIn(row, s) : row[r] \in Record BY RowsInType
<1> QED BY <1>1, <1>2, MaxOfBounds DEF TempBase

-----------------------------------------------------------------------------
(* Reordering *)

\* A payload names every active row of its scope, at one index.
LEMMA PayloadIsOrder ==
    ASSUME TypeOK, NEW s \in Scope, NEW order \in Payloads(s)
    PROVE  /\ Cardinality(Active(s)) \in Nat
           /\ Cardinality(Active(s)) <= Cardinality(Row)
           /\ order \in [1 .. Cardinality(Active(s)) -> Active(s)]
           /\ Len(order) = Cardinality(Active(s))
           /\ \A i, j \in DOMAIN order : order[i] = order[j] => i = j
           /\ \A r \in Active(s) : \E i \in DOMAIN order : order[i] = r
<1> DEFINE n == Cardinality(Active(s))
<1>1. Active(s) \in SUBSET Row BY DEF Active, RowsIn
<1>2. IsFiniteSet(Active(s)) /\ n <= Cardinality(Row)
  BY <1>1, RowAssumption, FS_Subset
<1>3. n \in Nat BY <1>2, FS_CardinalityType
<1>4. /\ order \in [1 .. n -> Active(s)]
      /\ \A i, j \in DOMAIN order : order[i] = order[j] => i = j
  BY DEF Payloads
<1> HIDE DEF n
<1>5. DOMAIN order = 1 .. n BY <1>4
<1>6. order \in Injection(1 .. n, Active(s)) BY <1>4, <1>5, Fun_IsInj
<1>7. Cardinality(1 .. n) = n BY <1>3, FS_Interval
<1>8. order \in Surjection(1 .. n, Active(s))
  BY <1>2, <1>6, <1>7, FS_Injection DEF n
<1>9. \A r \in Active(s) : \E i \in 1 .. n : order[i] = r
  BY <1>8 DEF Surjection
<1>10. Len(order) = n BY <1>3, <1>4
<1> QED BY <1>2, <1>3, <1>4, <1>5, <1>9, <1>10 DEF n

\* Where _assign_ordered_positions has put the i-th of n rows after k saves.
PositionAfter(i, n, base, k, old) ==
    IF i + n <= k THEN i ELSE IF i <= k THEN base + i ELSE old

\* The saves move the rows of the order and no others.
LEMMA AssignedRows ==
    ASSUME TypeOK, NEW s \in Scope, NEW order \in Payloads(s), NEW base, NEW k
    PROVE  /\ \A i \in DOMAIN order : Assigned(order, base, k)[order[i]] =
                 [row[order[i]] EXCEPT !.position =
                    PositionAfter(i, Cardinality(Active(s)), base, k, @)]
           /\ \A r \in Row \ Active(s) : Assigned(order, base, k)[r] = row[r]
<1> DEFINE n == Cardinality(Active(s))
<1>1. /\ order \in [1 .. n -> Active(s)]
      /\ Len(order) = n
      /\ \A i, j \in DOMAIN order : order[i] = order[j] => i = j
  BY PayloadIsOrder
<1>2. Active(s) \subseteq Row BY DEF Active, RowsIn
<1>3. ASSUME NEW i \in DOMAIN order
      PROVE  Assigned(order, base, k)[order[i]] =
                [row[order[i]] EXCEPT !.position = PositionAfter(i, n, base, k, @)]
  <2>1. order[i] \in Row BY <1>1, <1>2
  <2>2. \E j \in DOMAIN order : order[j] = order[i] OBVIOUS
  <2>3. (CHOOSE j \in DOMAIN order : order[j] = order[i]) = i BY <1>1
  <2> HIDE DEF n
  <2> QED BY <1>1, <2>1, <2>2, <2>3 DEF Assigned, PositionAfter
<1>4. ASSUME NEW r \in Row \ Active(s) PROVE Assigned(order, base, k)[r] = row[r]
  <2>1. ~ \E i \in DOMAIN order : order[i] = r BY <1>1
  <2> QED BY <2>1 DEF Assigned
<1> QED BY <1>3, <1>4

\* No intermediate table of a reorder holds a position twice, provided that the
\* rows outside of the order are above the positions it ends with.
LEMMA AssignedUnique ==
    ASSUME TypeOK, NEW s \in Scope, NEW order \in Payloads(s),
           \A r \in RowsIn(row, s) \ Active(s) :
                row[r].position > Cardinality(Active(s)),
           NEW k \in Nat
    PROVE  UniquePositions(Assigned(order, TempBase(s), k))
<1> DEFINE n == Cardinality(Active(s))
           base == TempBase(s)
           table == Assigned(order, base, k)
<1>1. /\ n \in Nat
      /\ DOMAIN order = 1 .. n
      /\ \A i \in 1 .. n : order[i] \in Active(s)
      /\ \A r \in Active(s) : \E i \in 1 .. n : order[i] = r
  BY PayloadIsOrder
<1>2. base \in Nat /\ \A r \in RowsIn(row, s) : row[r].position <= base
  BY TempBaseBounds
<1>3. /\ \A i \in 1 .. n : table[order[i]] =
            [row[order[i]] EXCEPT !.position = PositionAfter(i, n, base, k, @)]
      /\ \A r \in Row \ Active(s) : table[r] = row[r]
  BY <1>1, AssignedRows
<1>4. \A t \in Scope : \A q, r \in RowsIn(row, t) :
            row[q].position = row[r].position => q = r
  BY DEF TypeOK, UniquePositions
<1>5. \A r \in RowsIn(row, s) \ Active(s) : row[r].position > n OBVIOUS
<1> HIDE DEF n, base, table
\* A save keeps a row in its scope.
<1>6. ASSUME NEW r \in Active(s), NEW i \in 1 .. n, order[i] = r
      PROVE  /\ table[r].scope = s
             /\ table[r].position = PositionAfter(i, n, base, k, row[r].position)
  <2>1. r \in RowsIn(row, s) BY DEF Active
  <2>2. row[r] \in Record /\ row[r].scope = s BY <2>1, RowsInType
  <2>3. table[r] = [row[r] EXCEPT !.position = PositionAfter(i, n, base, k, @)]
    BY <1>3, <1>6
  <2> QED BY <2>2, <2>3 DEF Record
<1>7. \A t \in Scope : RowsIn(table, t) \subseteq RowsIn(row, t)
  <2> SUFFICES ASSUME NEW t \in Scope, NEW r \in RowsIn(table, t)
               PROVE  r \in RowsIn(row, t)
    OBVIOUS
  <2>1. r \in Row /\ table[r].scope = t BY DEF RowsIn
  <2>2. CASE r \in Active(s) BY <1>1, <1>6, <2>1, <2>2 DEF Active
  <2>3. CASE r \notin Active(s) BY <1>3, <2>1, <2>3 DEF RowsIn
  <2> QED BY <2>2, <2>3
\* Rows of the order end, or wait, at different positions, ...
<1>8. ASSUME NEW q \in Active(s), NEW r \in Active(s),
             table[q].position = table[r].position
      PROVE  q = r
  <2>1. PICK i \in 1 .. n : order[i] = q BY <1>1
  <2>2. PICK j \in 1 .. n : order[j] = r BY <1>1
  <2>3. PositionAfter(i, n, base, k, row[q].position)
            = PositionAfter(j, n, base, k, row[r].position)
    BY <1>6, <1>8, <2>1, <2>2
  <2>4. q \in RowsIn(row, s) /\ r \in RowsIn(row, s) BY DEF Active
  <2>5. /\ row[q].position \in Nat \ {0} /\ row[q].position <= base
        /\ row[r].position \in Nat \ {0} /\ row[r].position <= base
    BY <1>2, <2>4, RowsInType, KindsAssumption DEF Position
  <2>6. i = j \/ row[q].position = row[r].position
    BY <1>1, <1>2, <2>3, <2>5 DEF PositionAfter
  <2> QED BY <1>4, <2>1, <2>2, <2>4, <2>6
\* ... and never at that of a row outside of it.
<1>9. ASSUME NEW q \in Active(s), NEW r \in RowsIn(row, s) \ Active(s)
      PROVE  table[q].position # table[r].position
  <2>1. PICK i \in 1 .. n : order[i] = q BY <1>1
  <2>2. r \in Row /\ table[r] = row[r] BY <1>3 DEF RowsIn
  <2>3. table[q].position = PositionAfter(i, n, base, k, row[q].position)
    BY <1>6, <2>1
  <2>4. row[r].position \in Nat /\ row[r].position <= base /\ row[r].position > n
    BY <1>2, <1>5, RowsInType, KindsAssumption DEF Position
  <2>5. q \in RowsIn(row, s) /\ q # r BY DEF Active
  <2>6. row[q].position # row[r].position BY <1>4, <2>5
  <2> QED BY <1>1, <1>2, <2>2, <2>3, <2>4, <2>6 DEF PositionAfter
<1>10. SUFFICES ASSUME NEW t \in Scope,
                       NEW q \in RowsIn(table, t), NEW r \in RowsIn(table, t),
                       table[q].position = table[r].position
                PROVE  q = r
  BY DEF UniquePositions, table, base
<1>11. q \in RowsIn(row, t) /\ r \in RowsIn(row, t) BY <1>7
<1>12. q \in Row /\ r \in Row BY DEF RowsIn
<1>13. CASE q \in Active(s) /\ r \in Active(s) BY <1>8, <1>10, <1>13
<1>14. CASE q \notin Active(s) /\ r \notin Active(s)
  <2>1. table[q] = row[q] /\ table[r] = row[r] BY <1>3, <1>12, <1>14
  <2> QED BY <1>4, <1>10, <1>11, <2>1
<1>15. ASSUME NEW x \in Active(s), x \in RowsIn(row, t) PROVE t = s
  BY <1>15 DEF Active, RowsIn
<1> QED BY <1>9, <1>10, <1>11, <1>13, <1>14, <1>15

\* A reorder is blocked by nothing but an archived row on a position it needs:
\* in every state of the right type, whatever rows there are.
THEOREM ReorderFits == TypeOK => ReorderFitsBelowArchived
<1> SUFFICES ASSUME TypeOK, NEW s \in Scope,
                    \A r \in RowsIn(row, s) \ Active(s) :
                        row[r].position > Cardinality(Active(s)),
                    NEW order \in Payloads(s)
             PROVE  Fits(order, TempBase(s))
  BY DEF ReorderFitsBelowArchived
<1>1. \A i \in DOMAIN order : order[i] \in Active(s) BY PayloadIsOrder
<1>2. \A i \in DOMAIN order : row[order[i]] \notin {Unused, Deleted}
  BY <1>1 DEF Active, RowsIn
<1>3. Len(order) \in Nat BY PayloadIsOrder
<1>4. \A k \in 1 .. 2 * Len(order) : k \in Nat BY <1>3
<1>5. \A k \in 1 .. 2 * Len(order) : UniquePositions(Assigned(order, TempBase(s), k))
  BY <1>4, AssignedUnique
<1> QED BY <1>2, <1>5 DEF Fits

-----------------------------------------------------------------------------
(* Invariance *)

RowOps == {"update", "archive", "publish", "delete"}

\* A request at one row was allowed for its kind, and its row was in the table.
RequestsAllowed ==
    \A w \in Worker : worker[w].op \in RowOps =>
        Allowed(worker[w].op) /\ row[worker[w].row] # Unused

\* Only topics are deleted.
DeletedTopics == \A r \in Row : row[r] = Deleted => kind = "topic"

IInv == TypeOK /\ RequestsAllowed /\ DeletedTopics /\ LeaseProtects

LEMMA InitIInv == Init => IInv
<1> SUFFICES ASSUME Init PROVE IInv OBVIOUS
<1>1. \A r \in Row : row[r] = Unused /\ row[r] # Deleted BY DEF Init, Unused, Deleted
<1>2. \A w \in Worker : worker[w] = Idle /\ worker[w].op = "idle" BY DEF Init, Idle
<1>3. UniquePositions(row) BY <1>1 DEF UniquePositions, RowsIn
<1>4. TypeOK BY <1>3 DEF Init, TypeOK, WorkerState, Idle
<1> QED BY <1>1, <1>2, <1>4 DEF IInv, RequestsAllowed, DeletedTopics, LeaseProtects, RowOps

\* The fields of a request at a row, and of a reorder.
LEMMA RequestFields ==
    ASSUME TypeOK, NEW w \in Worker
    PROVE  /\ worker[w].op \in {"idle", "create", "reorder"} \cup RowOps
           /\ worker[w].op \in RowOps => worker[w] \in
                [op : RowOps, step : {"loaded", "edited"}, row : Row, copy : Record]
           /\ worker[w].op = "create" => worker[w] \in [op : {"create"}, copy : Record]
           /\ worker[w].op = "reorder" => worker[w] \in
                [op : {"reorder"}, step : {"read", "assigned"}, scope : Scope,
                 order : Orders, leased : BOOLEAN]
BY DEF TypeOK, WorkerState, RowOps

\* A step that keeps the table and puts w at a row, or in no reorder, keeps the
\* invariant if the new request is of the right type.
LEMMA WorkerStep ==
    ASSUME IInv, NEW w \in Worker, NEW new \in WorkerState,
           worker' = [worker EXCEPT ![w] = new],
           new.op \in RowOps => Allowed(new.op) /\ row[new.row] # Unused,
           new.op # "reorder",
           UNCHANGED <<kind, row, lock>>
    PROVE  IInv'
<1>1. TypeOK'
  BY DEF IInv, TypeOK, UniquePositions, RowsIn
<1>2. RequestsAllowed'
  BY DEF IInv, TypeOK, RequestsAllowed, Allowed
<1>3. DeletedTopics' BY DEF IInv, DeletedTopics
<1>4. LeaseProtects' BY DEF IInv, TypeOK, LeaseProtects
<1> QED BY <1>1, <1>2, <1>3, <1>4 DEF IInv

LEMMA LoadStep ==
    ASSUME IInv, NEW w \in Worker, NEW r \in Row, NEW op \in RowOps, Load(w, r, op)
    PROVE  IInv'
<1> DEFINE new == [op |-> op, row |-> r, copy |-> row[r],
            step |-> IF op \in {"update", "archive"} THEN "loaded" ELSE "edited"]
<1>1. row[r] \in Record /\ row[r] # Unused
  BY DEF IInv, TypeOK, Load, Unused, Deleted
<1>2. new \in WorkerState BY <1>1 DEF WorkerState, RowOps
<1>3. new.op \in RowOps => Allowed(new.op) /\ row[new.row] # Unused
  BY <1>1 DEF Load
<1>4. new.op # "reorder" BY DEF RowOps
<1> QED BY <1>2, <1>3, <1>4, WorkerStep DEF Load

\* An edit keeps what the request is and where.
LEMMA EditedStep ==
    ASSUME IInv, NEW w \in Worker, NEW copy \in Record, Edited(w, copy),
           worker[w].op \in {"update", "archive"},
           UNCHANGED <<kind, row, lock>>
    PROVE  IInv'
<1> DEFINE new == [worker[w] EXCEPT !.step = "edited", !.copy = copy]
<1>1. worker[w].op \in RowOps BY DEF RowOps
<1>2. worker[w] \in [op : RowOps, step : {"loaded", "edited"}, row : Row, copy : Record]
  BY <1>1, RequestFields DEF IInv
<1>3. /\ new \in [op : RowOps, step : {"loaded", "edited"}, row : Row, copy : Record]
      /\ new.op = worker[w].op /\ new.row = worker[w].row
  BY <1>2
<1>4. worker' = [worker EXCEPT ![w] = new] BY DEF Edited
<1> HIDE DEF new
<1>5. new \in WorkerState BY <1>3 DEF WorkerState, RowOps
<1>6. Allowed(new.op) /\ row[new.row] # Unused
  BY <1>1, <1>3 DEF IInv, RequestsAllowed
<1> QED BY <1>3, <1>4, <1>5, <1>6, WorkerStep

LEMMA EditUpdateStep ==
    ASSUME IInv, NEW w \in Worker, NEW s \in Scope, NEW p \in Position, EditUpdate(w, s, p)
    PROVE  IInv'
<1>1. worker[w].op = "update" BY DEF EditUpdate, Holds
<1>2. worker[w].copy \in Record BY <1>1, RequestFields DEF IInv, RowOps
<1>3. [worker[w].copy EXCEPT !.scope = s, !.position = p] \in Record BY <1>2 DEF Record
<1> QED BY <1>1, <1>3, EditedStep DEF EditUpdate

LEMMA EditArchiveStep ==
    ASSUME IInv, NEW w \in Worker, EditArchive(w)
    PROVE  IInv'
<1> DEFINE rows == RowsIn(row, worker[w].copy.scope) \ {worker[w].row}
           next == MaxOf(rows) + 1
<1>1. worker[w].op = "archive" BY DEF EditArchive, Holds
<1>2. worker[w].copy \in Record BY <1>1, RequestFields DEF IInv, RowOps
<1>3. next <= MaxPosition /\ Edited(w, [worker[w].copy EXCEPT !.position = next])
  BY DEF EditArchive
<1>4. rows \in SUBSET Row /\ \A r \in rows : row[r] \in Record
  BY RowsInType DEF IInv, RowsIn
<1> HIDE DEF rows
<1>5. MaxOf(rows) \in Nat BY <1>4, MaxOfBounds DEF IInv
<1>6. next \in Position BY <1>3, <1>5, KindsAssumption DEF Position
<1> HIDE DEF next
<1>7. [worker[w].copy EXCEPT !.position = next] \in Record BY <1>2, <1>6 DEF Record
<1> QED BY <1>1, <1>3, <1>7, EditedStep DEF EditArchive

LEMMA BeginCreateStep ==
    ASSUME IInv, NEW w \in Worker, NEW s \in Scope, NEW p \in Position, BeginCreate(w, s, p)
    PROVE  IInv'
<1> DEFINE new == [op |-> "create",
                   copy |-> [state |-> "active", scope |-> s, position |-> p]]
<1>1. new \in WorkerState BY DEF WorkerState, Record
<1>2. new.op \notin RowOps /\ new.op # "reorder" BY DEF RowOps
<1> QED BY <1>1, <1>2, WorkerStep DEF BeginCreate

LEMMA CrashStep ==
    ASSUME IInv, NEW w \in Worker, Crash(w)
    PROVE  IInv'
<1>1. Idle \in WorkerState BY DEF WorkerState, Idle
<1>2. Idle.op \notin RowOps /\ Idle.op # "reorder" BY DEF RowOps, Idle
<1> QED BY <1>1, <1>2, WorkerStep DEF Crash

\* A request that writes one row and ends.
LEMMA WriteStep ==
    ASSUME IInv, NEW w \in Worker, NEW r \in Row,
           NEW record \in Record \cup {Deleted}, record = Deleted => kind = "topic",
           Write(r, record), worker' = [worker EXCEPT ![w] = Idle], UNCHANGED <<kind, lock>>
    PROVE  IInv'
<1> DEFINE table == [row EXCEPT ![r] = record]
<1>1. \/ row' = table /\ UniquePositions(table)
      \/ row' = row
  BY DEF Write
<1>2. record # Unused BY DEF Record, Unused, Deleted
<1>3. /\ row' \in [Row -> Record \cup {Unused, Deleted}]
      /\ UniquePositions(row)'
  BY <1>1 DEF IInv, TypeOK, UniquePositions, RowsIn
<1>4. \A q \in Row : /\ row[q] # Unused => row'[q] # Unused
                     /\ row'[q] = Deleted => kind = "topic"
  BY <1>1, <1>2 DEF IInv, TypeOK, DeletedTopics
<1>5. \A v \in Worker : worker'[v] = IF v = w THEN Idle ELSE worker[v]
  BY DEF IInv, TypeOK
<1>6. worker' \in [Worker -> WorkerState] BY DEF IInv, TypeOK, WorkerState, Idle
<1>7. TypeOK' BY <1>3, <1>6 DEF IInv, TypeOK
<1>8. RequestsAllowed'
  <2> SUFFICES ASSUME NEW v \in Worker, worker'[v].op \in RowOps
               PROVE  Allowed(worker[v].op)' /\ row'[worker'[v].row] # Unused
    BY DEF RequestsAllowed
  <2>1. v # w /\ worker'[v] = worker[v] BY <1>5 DEF Idle, RowOps
  <2>2. worker[v].row \in Row BY <2>1, RequestFields DEF IInv
  <2> QED BY <1>4, <2>1, <2>2 DEF IInv, RequestsAllowed, Allowed
<1>9. DeletedTopics' BY <1>4 DEF DeletedTopics
<1>10. LeaseProtects' BY <1>5 DEF IInv, LeaseProtects, Idle
<1> QED BY <1>7, <1>8, <1>9, <1>10 DEF IInv

LEMMA SaveStep ==
    ASSUME IInv, NEW w \in Worker, Save(w)
    PROVE  IInv'
<1> DEFINE r == worker[w].row
<1>1. worker[w].op \in RowOps BY DEF Save, RowOps
<1>2. r \in Row /\ worker[w].copy \in Record BY <1>1, RequestFields DEF IInv
<1>3. Allowed(worker[w].op) /\ row[r] # Unused BY <1>1 DEF IInv, RequestsAllowed
<1>4. row[r] \in Record \/ kind = "topic"
  BY <1>2, <1>3 DEF IInv, TypeOK, DeletedTopics
<1>5. /\ Written(w) \in Record \cup {Deleted}
      /\ Written(w) = Deleted => kind = "topic"
  <2>1. CASE worker[w].op = "update"
    <3>1. Written(w) = worker[w].copy BY <2>1 DEF Written
    <3> QED BY <1>2, <3>1 DEF Record, Deleted
  <2>2. CASE worker[w].op = "archive"
    <3>1. Written(w) = [row[r] EXCEPT !.state = "archived", !.position = worker[w].copy.position]
      BY <2>2 DEF Written
    <3>2. row[r] \in Record BY <1>3, <1>4, <2>2 DEF Allowed
    <3> QED BY <1>2, <3>1, <3>2 DEF Record, Deleted
  <2>3. CASE worker[w].op = "publish"
    <3>1. Written(w) = [row[r] EXCEPT !.state = "active"] BY <2>3 DEF Written
    <3>2. row[r] \in Record BY <1>3, <1>4, <2>3 DEF Allowed
    <3> QED BY <3>1, <3>2 DEF Record, Deleted
  <2>4. CASE worker[w].op = "delete"
    <3>1. Written(w) = Deleted BY <2>4 DEF Written
    <3> QED BY <1>3, <2>4, <3>1 DEF Allowed
  <2> QED BY <1>1, <2>1, <2>2, <2>3, <2>4 DEF RowOps
<1> QED BY <1>2, <1>5, WriteStep DEF Save

LEMMA InsertStep ==
    ASSUME IInv, NEW w \in Worker, NEW r \in Row, Insert(w, r)
    PROVE  IInv'
<1>1. worker[w].copy \in Record BY RequestFields DEF IInv, Insert
<1>2. worker[w].copy # Deleted BY <1>1 DEF Record, Deleted
<1> QED BY <1>1, <1>2, WriteStep DEF Insert

LEMMA EnterReorderStep ==
    ASSUME IInv, NEW w \in Worker, NEW s \in Scope, NEW order \in Payloads(s),
           EnterReorder(w, s, order)
    PROVE  IInv'
<1> DEFINE new == [op |-> "reorder", step |-> "read", scope |-> s, order |-> order,
                   leased |-> TRUE]
<1>1. order \in Orders
  <2> DEFINE n == Cardinality(Active(s))
  <2>1. n \in Nat /\ n <= Cardinality(Row) /\ order \in [1 .. n -> Active(s)]
    BY PayloadIsOrder DEF IInv
  <2>2. order \in [1 .. n -> Row] BY <2>1 DEF Active, RowsIn
  <2>3. n # 0 BY <2>1 DEF EnterReorder
  <2>4. Cardinality(Row) \in Nat BY RowAssumption, FS_CardinalityType
  <2> HIDE DEF n
  <2>5. n \in 1 .. Cardinality(Row) BY <2>1, <2>3, <2>4
  <2> QED BY <2>2, <2>5 DEF Orders
<1>2. new \in WorkerState BY <1>1 DEF WorkerState
<1>3. \A v \in Worker : worker'[v] = IF v = w THEN new ELSE worker[v]
  BY DEF EnterReorder, IInv, TypeOK
<1>4. \A t \in Scope : lock'[t] = IF t = s THEN w ELSE lock[t]
  BY DEF EnterReorder, IInv, TypeOK
<1>5. new.op = "reorder" /\ new.scope = s OBVIOUS
<1> HIDE DEF new
<1>6. TypeOK'
  <2>1. worker' \in [Worker -> WorkerState]
    BY <1>2 DEF EnterReorder, IInv, TypeOK, new
  <2>2. lock' \in [Scope -> Worker \cup {NoWorker}] BY DEF EnterReorder, IInv, TypeOK
  <2> QED BY <2>1, <2>2 DEF EnterReorder, IInv, TypeOK, UniquePositions, RowsIn
<1>7. RequestsAllowed'
  BY <1>3, <1>5 DEF EnterReorder, IInv, RequestsAllowed, Allowed, RowOps
<1>8. DeletedTopics' BY DEF EnterReorder, IInv, DeletedTopics
<1>9. LeaseProtects'
  <2> SUFFICES ASSUME NEW v \in Worker, worker'[v].op = "reorder", worker'[v].leased
               PROVE  lock'[worker'[v].scope] = v
    BY DEF LeaseProtects
  <2>1. CASE v = w BY <1>3, <1>4, <1>5, <2>1
  <2>2. CASE v # w
    <3>1. worker'[v] = worker[v] /\ lock[worker[v].scope] = v
      BY <1>3, <2>2 DEF IInv, LeaseProtects
    <3>2. worker[v].scope \in Scope BY <3>1, RequestFields DEF IInv
    <3>3. lock[s] # v BY KindsAssumption DEF EnterReorder
    <3> QED BY <1>4, <3>1, <3>2, <3>3
  <2> QED BY <2>1, <2>2
<1> QED BY <1>6, <1>7, <1>8, <1>9 DEF IInv

\* The finished reorder keeps the type of every row, and removes none.
LEMMA AssignedType ==
    ASSUME TypeOK, NEW order \in Orders, NEW base, Fits(order, base), NEW r \in Row
    PROVE  /\ Assigned(order, base, 2 * Len(order))[r] \in Record \cup {Unused, Deleted}
           /\ row[r] # Unused => Assigned(order, base, 2 * Len(order))[r] # Unused
           /\ Assigned(order, base, 2 * Len(order))[r] = Deleted => row[r] = Deleted
<1> DEFINE moved == Assigned(order, base, 2 * Len(order))[r]
<1>1. Cardinality(Row) \in Nat BY RowAssumption, FS_CardinalityType
<1>2. PICK n \in 1 .. Cardinality(Row) : order \in [1 .. n -> Row] BY DEF Orders
<1>3. n \in Nat /\ DOMAIN order = 1 .. n /\ Len(order) = n BY <1>1, <1>2
<1>4. CASE ~ \E i \in DOMAIN order : order[i] = r
  <2>1. moved = row[r] BY <1>4 DEF Assigned
  <2> QED BY <2>1 DEF TypeOK
<1>5. CASE \E i \in DOMAIN order : order[i] = r
  <2> DEFINE i == CHOOSE j \in DOMAIN order : order[j] = r
  <2>1. i \in 1 .. n /\ order[i] = r BY <1>3, <1>5
  <2>2. row[r] \in Record BY <1>3, <2>1 DEF TypeOK, Fits
  <2>3. moved = [row[r] EXCEPT !.position =
                    IF i + n <= 2 * n THEN i ELSE IF i <= 2 * n THEN base + i ELSE @]
    BY <1>3, <1>5 DEF Assigned
  <2> HIDE DEF i
  <2>4. i + n <= 2 * n BY <1>3, <2>1
  <2>5. moved = [row[r] EXCEPT !.position = i] BY <2>3, <2>4
  <2>6. i \in Position BY <1>1, <1>2, <2>1, RowAssumption, KindsAssumption DEF Position
  <2> HIDE DEF moved
  <2>7. moved \in Record BY <2>2, <2>5, <2>6 DEF Record
  <2>8. moved # Unused /\ moved # Deleted BY <2>7 DEF Record, Unused, Deleted
  <2> QED BY <2>7, <2>8 DEF moved
<1> QED BY <1>4, <1>5

LEMMA AssignPositionsStep ==
    ASSUME IInv, NEW w \in Worker, AssignPositions(w)
    PROVE  IInv'
<1> DEFINE order == worker[w].order
           base == TempBase(worker[w].scope)
           new == [worker[w] EXCEPT !.step = "assigned"]
<1>1. worker[w].op = "reorder" BY DEF AssignPositions, Holds
<1>2. worker[w] \in [op : {"reorder"}, step : {"read", "assigned"}, scope : Scope,
                     order : Orders, leased : BOOLEAN]
  BY <1>1, RequestFields DEF IInv
<1>3. /\ new \in [op : {"reorder"}, step : {"read", "assigned"}, scope : Scope,
                  order : Orders, leased : BOOLEAN]
      /\ new.scope = worker[w].scope /\ new.leased = worker[w].leased
  BY <1>2
<1>4. /\ worker' = [worker EXCEPT ![w] = new]
      /\ row' = IF Fits(order, base) THEN Assigned(order, base, 2 * Len(order)) ELSE row
      /\ UNCHANGED <<kind, lock>>
  BY DEF AssignPositions
<1>5. order \in Orders BY <1>2
<1> HIDE DEF new, order, base
<1>6. UniquePositions(row)'
  <2>1. CASE Fits(order, base)
    <3>1. 2 * Len(order) \in 1 .. 2 * Len(order)
      <4>1. Cardinality(Row) \in Nat BY RowAssumption, FS_CardinalityType
      <4>2. PICK n \in 1 .. Cardinality(Row) : order \in [1 .. n -> Row]
        BY <1>5 DEF Orders
      <4>3. n \in Nat \ {0} /\ Len(order) = n BY <4>1, <4>2
      <4> QED BY <4>3
    <3> QED BY <1>4, <2>1, <3>1 DEF Fits, UniquePositions, RowsIn
  <2>2. CASE ~Fits(order, base)
    BY <1>4, <2>2 DEF IInv, TypeOK, UniquePositions, RowsIn
  <2> QED BY <2>1, <2>2
<1>7. /\ row' \in [Row -> Record \cup {Unused, Deleted}]
      /\ \A r \in Row : /\ row[r] # Unused => row'[r] # Unused
                        /\ row'[r] = Deleted => row[r] = Deleted
  <2>1. CASE Fits(order, base)
    <3>1. row' = Assigned(order, base, 2 * Len(order)) BY <1>4, <2>1
    <3>2. row' = [r \in Row |-> row'[r]] BY <3>1 DEF Assigned
    <3> QED BY <1>5, <2>1, <3>1, <3>2, AssignedType DEF IInv
  <2>2. CASE ~Fits(order, base) BY <1>4, <2>2 DEF IInv, TypeOK
  <2> QED BY <2>1, <2>2
<1>8. \A v \in Worker : worker'[v] = IF v = w THEN new ELSE worker[v]
  BY <1>4 DEF IInv, TypeOK
<1>9. new.op = "reorder" /\ new \in WorkerState BY <1>3 DEF WorkerState
<1>10. TypeOK'
  <2>1. worker' \in [Worker -> WorkerState] BY <1>4, <1>9 DEF IInv, TypeOK
  <2> QED BY <1>4, <1>6, <1>7, <2>1 DEF IInv, TypeOK
<1>11. RequestsAllowed'
  <2> SUFFICES ASSUME NEW v \in Worker, worker'[v].op \in RowOps
               PROVE  Allowed(worker[v].op)' /\ row'[worker'[v].row] # Unused
    BY DEF RequestsAllowed
  <2>1. worker'[v] = worker[v] BY <1>8, <1>9 DEF RowOps
  <2>2. worker[v].row \in Row BY <2>1, RequestFields DEF IInv
  <2> QED BY <1>4, <1>7, <2>1, <2>2 DEF IInv, RequestsAllowed, Allowed
<1>12. DeletedTopics' BY <1>4, <1>7 DEF IInv, DeletedTopics
<1>13. LeaseProtects' BY <1>1, <1>3, <1>4, <1>8 DEF IInv, LeaseProtects
<1> QED BY <1>10, <1>11, <1>12, <1>13 DEF IInv

LEMMA LeaveReorderStep ==
    ASSUME IInv, NEW w \in Worker, LeaveReorder(w)
    PROVE  IInv'
<1> DEFINE s == worker[w].scope
<1>1. s \in Scope /\ worker[w].op = "reorder"
  BY RequestFields DEF IInv, LeaveReorder, Holds
<1>2. \A v \in Worker : worker'[v] = IF v = w THEN Idle ELSE worker[v]
  BY DEF LeaveReorder, IInv, TypeOK
\* The lock is released only if it is the lock of w.
<1>3. \A t \in Scope : lock'[t] = lock[t] \/ lock[t] = w
  BY <1>1 DEF LeaveReorder, Released, IInv, TypeOK
<1>4. TypeOK'
  <2>1. worker' \in [Worker -> WorkerState]
    BY DEF LeaveReorder, IInv, TypeOK, WorkerState, Idle
  <2>2. lock' \in [Scope -> Worker \cup {NoWorker}]
    BY <1>1 DEF LeaveReorder, Released, IInv, TypeOK
  <2> QED BY <2>1, <2>2 DEF LeaveReorder, IInv, TypeOK, UniquePositions, RowsIn
<1>5. RequestsAllowed'
  <2> SUFFICES ASSUME NEW v \in Worker, worker'[v].op \in RowOps
               PROVE  Allowed(worker[v].op)' /\ row'[worker'[v].row] # Unused
    BY DEF RequestsAllowed
  <2>1. worker'[v] = worker[v] BY <1>2 DEF Idle, RowOps
  <2> QED BY <2>1 DEF LeaveReorder, IInv, RequestsAllowed, Allowed
<1>6. DeletedTopics' BY DEF LeaveReorder, IInv, DeletedTopics
<1>7. LeaseProtects'
  <2> SUFFICES ASSUME NEW v \in Worker, worker'[v].op = "reorder", worker'[v].leased
               PROVE  lock'[worker'[v].scope] = v
    BY DEF LeaseProtects
  <2>1. v # w /\ worker'[v] = worker[v] BY <1>2 DEF Idle
  <2>2. lock[worker[v].scope] = v BY <2>1 DEF IInv, LeaseProtects
  <2>3. worker[v].scope \in Scope BY <2>1, RequestFields DEF IInv
  <2> QED BY <1>3, <2>1, <2>2, <2>3
<1> QED BY <1>4, <1>5, <1>6, <1>7 DEF IInv

LEMMA ExpireStep ==
    ASSUME IInv, NEW s \in Scope, Expire(s)
    PROVE  IInv'
<1> DEFINE Leasing(v) == worker[v].op = "reorder" /\ worker[v].scope = s /\ lock[s] = v
<1>1. \A v \in Worker : worker'[v] =
            IF Leasing(v) THEN [worker[v] EXCEPT !.leased = FALSE] ELSE worker[v]
  BY DEF Expire
<1>2. \A v \in Worker : Leasing(v) =>
            /\ worker'[v] \in [op : {"reorder"}, step : {"read", "assigned"}, scope : Scope,
                               order : Orders, leased : BOOLEAN]
            /\ ~worker'[v].leased
  <2> SUFFICES ASSUME NEW v \in Worker, Leasing(v)
               PROVE  /\ worker'[v] \in [op : {"reorder"}, step : {"read", "assigned"},
                                scope : Scope, order : Orders, leased : BOOLEAN]
                      /\ ~worker'[v].leased
    OBVIOUS
  <2>1. worker[v] \in [op : {"reorder"}, step : {"read", "assigned"}, scope : Scope,
                       order : Orders, leased : BOOLEAN]
    BY RequestFields DEF IInv
  <2>2. worker'[v] = [worker[v] EXCEPT !.leased = FALSE] BY <1>1
  <2> QED BY <2>1, <2>2
<1>3. \A t \in Scope : lock'[t] = IF t = s THEN NoWorker ELSE lock[t]
  BY DEF Expire, IInv, TypeOK
<1> HIDE DEF Leasing
<1>4. TypeOK'
  <2>1. worker' \in [Worker -> WorkerState]
    <3>1. \A v \in Worker : worker'[v] \in WorkerState
      BY <1>1, <1>2 DEF IInv, TypeOK, WorkerState
    <3>2. worker' = [v \in Worker |-> worker'[v]] BY DEF Expire
    <3> QED BY <3>1, <3>2
  <2>2. lock' \in [Scope -> Worker \cup {NoWorker}] BY DEF Expire, IInv, TypeOK
  <2> QED BY <2>1, <2>2 DEF Expire, IInv, TypeOK, UniquePositions, RowsIn
<1>5. RequestsAllowed'
  <2> SUFFICES ASSUME NEW v \in Worker, worker'[v].op \in RowOps
               PROVE  Allowed(worker[v].op)' /\ row'[worker'[v].row] # Unused
    BY DEF RequestsAllowed
  <2>1. worker'[v] = worker[v] BY <1>1, <1>2 DEF RowOps
  <2> QED BY <2>1 DEF Expire, IInv, RequestsAllowed, Allowed
<1>6. DeletedTopics' BY DEF Expire, IInv, DeletedTopics
<1>7. LeaseProtects'
  <2> SUFFICES ASSUME NEW v \in Worker, worker'[v].op = "reorder", worker'[v].leased
               PROVE  lock'[worker'[v].scope] = v
    BY DEF LeaseProtects
  <2>1. worker'[v] = worker[v] /\ ~Leasing(v) BY <1>1, <1>2
  <2>2. lock[worker[v].scope] = v /\ worker[v].scope \in Scope
    BY <2>1, RequestFields DEF IInv, LeaseProtects
  <2>3. worker[v].scope # s BY <2>1, <2>2 DEF Leasing
  <2> QED BY <1>3, <2>1, <2>2, <2>3
<1> QED BY <1>4, <1>5, <1>6, <1>7 DEF IInv

LEMMA NextIInv == IInv /\ [Next]_vars => IInv'
<1> SUFFICES ASSUME IInv, [Next]_vars PROVE IInv' OBVIOUS
<1>1. ASSUME NEW w \in Worker, NEW r \in Row, NEW op \in RowOps, Load(w, r, op)
      PROVE  IInv'
  BY <1>1, LoadStep
<1>2. ASSUME NEW w \in Worker, NEW s \in Scope, NEW p \in Position,
             EditUpdate(w, s, p) \/ BeginCreate(w, s, p)
      PROVE  IInv'
  BY <1>2, EditUpdateStep, BeginCreateStep
<1>3. ASSUME NEW w \in Worker, EditArchive(w) \/ Save(w) PROVE IInv'
  BY <1>3, EditArchiveStep, SaveStep
<1>4. ASSUME NEW w \in Worker, NEW r \in Row, Insert(w, r) PROVE IInv'
  BY <1>4, InsertStep
<1>5. ASSUME NEW w \in Worker, NEW s \in Scope, NEW order \in Payloads(s),
             EnterReorder(w, s, order)
      PROVE  IInv'
  BY <1>5, EnterReorderStep
<1>6. ASSUME NEW w \in Worker, AssignPositions(w) \/ LeaveReorder(w) \/ Crash(w)
      PROVE  IInv'
  BY <1>6, AssignPositionsStep, LeaveReorderStep, CrashStep
<1>7. ASSUME NEW s \in Scope, Expire(s) PROVE IInv' BY <1>7, ExpireStep
<1>8. CASE UNCHANGED vars
  BY <1>8 DEF vars, IInv, TypeOK, RequestsAllowed, DeletedTopics, LeaseProtects, UniquePositions,
     RowsIn, Allowed
<1> QED BY <1>1, <1>2, <1>3, <1>4, <1>5, <1>6, <1>7, <1>8 DEF Next, RowOps

THEOREM Invariance == Spec => []IInv
BY InitIInv, NextIInv, PTL DEF Spec

\* Positions are unique per scope and every row is well formed, always.
THEOREM TypeCorrect == Spec => []TypeOK
<1>1. IInv => TypeOK BY DEF IInv
<1> QED BY <1>1, Invariance, PTL

\* A reorder whose lease has not expired holds the lock of its scope: the release
\* of one request never frees the lock of another.
THEOREM LeaseSafe == Spec => []LeaseProtects
<1>1. IInv => LeaseProtects BY DEF IInv
<1> QED BY <1>1, Invariance, PTL

\* In every reachable state a reorder can be blocked only by an archived row.
THEOREM ReorderSafe == Spec => []ReorderFitsBelowArchived
BY ReorderFits, TypeCorrect, PTL
=============================================================================
