--------------------------- MODULE ProgressProofs ---------------------------
(***************************************************************************)
(* Proofs about Progress with its catalog, for any courses, terms, users,  *)
(* lessons, events and requests and any bounds: that cached catalogs are   *)
(* those of the database, that courses, terms and revisions stay in order, *)
(* that the row of a course counts what the student completed, and that    *)
(* only requests which another one overtook put anything back.             *)
(***************************************************************************)
EXTENDS Progress, FiniteSetTheorems, TLAPS

-----------------------------------------------------------------------------
(* The invariant of the catalog *)

IsRequest(m) == m \in ManagerState \cup RevisionState \cup StudyState \/ IsRead(m)

CatalogTypes ==
    /\ CachedTypeOK
    /\ DOMAIN worker = Worker /\ \A w \in Worker : IsRequest(worker[w])

\* What the query of the courses gave a read.
Fetched(k, data) ==
    /\ DOMAIN data \subseteq Course
    /\ \A c \in DOMAIN data : data[c] = [row |-> data[c].row, rest |-> data[c].rest]
    /\ k.view = "course-structure" => DOMAIN data = {k.course}
    /\ k.view # "course-structure" =>
          \A c \in DOMAIN data : data[c].row.status = "published" /\ ~data[c].row.deleted

\* What a read stores.
Whole(k, data) ==
    /\ Fetched(k, data)
    /\ k.view = "course-structure" => data[k.course].rest.outline \in 0 .. MaxLessons

\* A read that no commit overtook has what the database has.
HonestRead(m, late) ==
    m.op = "read" =>
        /\ m.step = "rows" => m.key.view # "course-detail"
        /\ m.step = "rest" => Fetched(m.key, m.data) /\ (late \/ m.data = Rows(m.key))
        /\ m.step = "store" => Whole(m.key, m.data) /\ (late \/ m.data = Answer(m.key))
        /\ m.key.view = "course-structure" => late \/ Published(m.key.course)

\* So has the creation of a revision; its number is taken or the next.
HonestRevision(m, late) ==
    m.op = "revise" =>
        /\ late \/ m.row = course[m.course]
        /\ m.version # None => m.version \in 1 .. Cardinality(revision[m.course]) + 1
        /\ m.outline # None => m.version # None /\ (late \/ m.outline = outline[m.course])

\* So has a change of a course, a category or a tag.
HonestWrite(m, late) ==
    /\ m.op \in {"update", "publish", "archive", "delete"} => course[m.course] # None
    /\ m.op = "update" =>
          \/ late
          \/ /\ m.row.released = course[m.course].released
             /\ m.row.deleted = course[m.course].deleted
    /\ m.op \in {"publish", "archive", "delete"} => late \/ ~course[m.course].deleted
    /\ m.op = "term" => late \/ Exists(term, m.term)

Honest(m, late) == HonestRead(m, late) /\ HonestRevision(m, late) /\ HonestWrite(m, late)

Requests == \A w \in Worker : Honest(worker[w], w \in overtaken)

\* An entry that no write overtook, and none is about to delete, is of a published course.
Entries ==
    \A k \in Asked : entry[k] # None =>
        /\ Whole(k, entry[k])
        /\ k \in raced \/ Pending(k) \/
              /\ entry[k] = Answer(k)
              /\ k.view = "course-structure" => Published(k.course)

Revisions ==
    \A c \in Course :
        /\ IsFiniteSet(revision[c])
        /\ {r.version : r \in revision[c]} = 1 .. Cardinality(revision[c])

\* Courses are linked to terms, and require courses, once they exist.
Linked ==
    /\ \A c \in Course :
          /\ course[c] = None => links[c] = NoLinks
          /\ \A p \in links[c].prerequisites : course[p] # None
    /\ \A c \in Course \ moved :
          /\ \A t \in links[c].terms : term[t].scope \in {None, course[c].institution}
          /\ \A p \in links[c].prerequisites \ moved :
                 p # c /\ course[p].institution = course[c].institution

\* A term has one scope for all time, also in the copies of requests, which may put back
\* a term that was deleted, and so have the parents of a category.
ScopedBy(scope) ==
    /\ \A t \in Term : Exists(term, t) =>
          /\ term[t].scope = scope[t]
          /\ \A p \in term[t].parent : Exists(term, p) /\ scope[p] = scope[t]
    /\ \A w \in Worker : worker[w].op = "term" =>
          /\ term[worker[w].term] # None
          /\ worker[w].row.scope = scope[worker[w].term]
          /\ \A p \in worker[w].row.parent : term[p] # None /\ scope[p] = worker[w].row.scope

Scoped == \E scope \in [Term -> Scope] : ScopedBy(scope)

CatalogInv == CatalogTypes /\ Requests /\ Entries /\ Revisions /\ Linked /\ Scoped

-----------------------------------------------------------------------------
(* The invariant of the progress of the student *)

StudyTypes ==
    /\ lesson \in [Lesson -> LessonProgress \cup {None}]
    /\ video \in VideoProgress \cup {None}
    /\ assessment \in [Assessment -> AssessmentProgress \cup {None}]
    /\ summary \in CourseProgress \cup {None}
    /\ logged \subseteq Event /\ outrun \subseteq Worker
    /\ seen \in Total

\* The copy of a request goes on from the row, if no other request outran it.
SoundCopy(m, late) ==
    /\ m.op = "lesson" =>
          \/ late
          \/ /\ lesson[m.lesson] # None /\ m.row.views > lesson[m.lesson].views
             /\ lesson[m.lesson].dated => m.row.dated
    /\ m.op = "video" =>
          \/ late
          \/ /\ video # None /\ m.row.position >= video.position
             /\ video.dated => m.row.dated
    /\ m.op = "assessment" =>
          \/ late
          \/ assessment[m.assessment] # None /\ m.row.attempts > assessment[m.assessment].attempts

\* What it counted is right then, too.
SoundCount(m, late) ==
    /\ m.op \in {"assessments", "summary"} =>
          /\ m.lessons \in 0 .. Cardinality(Lesson)
          /\ late \/ m.lessons = Cardinality(CompletedLessons)
    /\ m.op = "summary" =>
          /\ m.assessments \in 0 .. Cardinality(Assessment)
          /\ late \/ m.assessments = Cardinality(CompletedAssessments)
    /\ m.op = "save" =>
          /\ summary # None
          /\ late \/ /\ m.row.lessons = Cardinality(CompletedLessons)
                     /\ m.row.assessments = Cardinality(CompletedAssessments)
          /\ m.row.status = "completed" /\ m.total # None => m.row.lessons >= m.total

Sound(m, late) == SoundCopy(m, late) /\ SoundCount(m, late)

Students == \A w \in Worker : Sound(worker[w], w \in outrun)

Seen == current => seen = outline[Studied]

\* The row of the course is trusted once it was saved.
Trusted == trusted => summary # None

StudyInv ==
    /\ StudyTypes /\ Students /\ Seen /\ Trusted
    /\ SummaryAddsUp /\ CompletionAnnounced /\ CompletedIsWhole

IInv == CatalogInv /\ StudyInv
-----------------------------------------------------------------------------
(* What requests are doing *)

CatalogOp == {"resting", "update", "publish", "archive", "delete", "term", "invalidate",
              "revise", "read"}
StudyOp == {"event", "lesson", "video", "assessment", "lessons", "assessments", "summary",
            "save", "announce"}

Update == [op : {"update"}, course : Course, row : CourseRow, change : Change]
Statuses == [op : {"publish", "archive", "delete"}, course : Course]
TermWrite == [op : {"term"}, term : Term, row : TermRow]
Invalidation == [op : {"invalidate"}, left : SUBSET Asked]
Handling == [op : {"event"}, event : Event, step : {"record", "apply"}]
OfLesson == [op : {"lesson"}, lesson : Lesson, row : LessonProgress, total : Total]
OfVideo == [op : {"video"}, row : VideoProgress, total : Total]
OfAssessment == [op : {"assessment"}, assessment : Assessment, row : AssessmentProgress,
                 total : Total]
Counting == [op : {"lessons"}, total : Total]
CountingOn == [op : {"assessments"}, lessons : Nat, total : Total]
Counted == [op : {"summary"}, lessons : Nat, assessments : Nat, total : Total]
Saving == [op : {"save"}, row : CourseProgress, previous : CourseProgressStatus, total : Total]
Announcing == [op : {"announce"}, completed : BOOLEAN]

\* The fields of a request follow from what it does.
LEMMA ManagerFields ==
    ASSUME NEW m \in ManagerState
    PROVE  /\ m.op \in CatalogOp \ {"revise", "read"}
           /\ m.op = "resting" <=> m = Resting
           /\ m.op = "update" => m \in Update
           /\ m.op \in {"publish", "archive", "delete"} => m \in Statuses
           /\ m.op = "term" => m \in TermWrite
           /\ m.op = "invalidate" => m \in Invalidation
BY DEF ManagerState, Resting, CatalogOp, Update, Statuses, TermWrite, Invalidation

LEMMA StudyFields ==
    ASSUME NEW m \in StudyState
    PROVE  /\ m.op \in StudyOp
           /\ m.op = "event" => m \in Handling
           /\ m.op = "lesson" => m \in OfLesson
           /\ m.op = "video" => m \in OfVideo
           /\ m.op = "assessment" => m \in OfAssessment
           /\ m.op = "lessons" => m \in Counting
           /\ m.op = "assessments" => m \in CountingOn
           /\ m.op = "summary" => m \in Counted
           /\ m.op = "save" => m \in Saving
           /\ m.op = "announce" => m \in Announcing
BY DEF StudyState, StudyOp, Handling, OfLesson, OfVideo, OfAssessment, Counting, CountingOn,
       Counted, Saving, Announcing

LEMMA RequestFields ==
    ASSUME NEW m, IsRequest(m)
    PROVE  /\ m.op \in CatalogOp \cup StudyOp
           /\ m.op \in StudyOp <=> m \in StudyState
           /\ m.op = "revise" <=> m \in RevisionState
           /\ m.op = "read" <=> IsRead(m)
           /\ m.op \in CatalogOp \ {"revise", "read"} <=> m \in ManagerState
           /\ m.op = "resting" <=> m = Resting
<1>1. CASE m \in ManagerState
  <2>1. m.op \in CatalogOp \ {"revise", "read"} /\ (m.op = "resting" <=> m = Resting)
    BY <1>1, ManagerFields
  <2> QED BY <1>1, <2>1, StudyFields DEF RevisionState, IsRead, CatalogOp, StudyOp
<1>2. CASE m \in RevisionState
  <2>1. m.op = "revise" BY <1>2 DEF RevisionState
  <2> QED BY <1>2, <2>1, ManagerFields, StudyFields DEF IsRead, CatalogOp, StudyOp, Resting
<1>3. CASE m \in StudyState
  <2>1. m.op \in StudyOp BY <1>3, StudyFields
  <2> QED BY <1>3, <2>1, ManagerFields DEF RevisionState, IsRead, CatalogOp, StudyOp, Resting
<1>4. CASE IsRead(m)
  <2>1. m.op = "read" BY <1>4 DEF IsRead
  <2> QED BY <1>4, <2>1, ManagerFields, StudyFields DEF RevisionState, CatalogOp, StudyOp, Resting
<1> QED BY <1>1, <1>2, <1>3, <1>4 DEF IsRequest

LEMMA ManagerRequests ==
    /\ Resting \in ManagerState
    /\ Update \subseteq ManagerState /\ Statuses \subseteq ManagerState
    /\ TermWrite \subseteq ManagerState /\ Invalidation \subseteq ManagerState
BY DEF ManagerState, Update, Statuses, TermWrite, Invalidation

LEMMA StudyRequests ==
    /\ Handling \subseteq StudyState /\ OfLesson \subseteq StudyState
    /\ OfVideo \subseteq StudyState /\ OfAssessment \subseteq StudyState
    /\ Counting \subseteq StudyState /\ CountingOn \subseteq StudyState
    /\ Counted \subseteq StudyState /\ Saving \subseteq StudyState
    /\ Announcing \subseteq StudyState
BY DEF StudyState, Handling, OfLesson, OfVideo, OfAssessment, Counting, CountingOn, Counted,
       Saving, Announcing

\* One request goes on, and the others do not.
LEMMA Moved ==
    ASSUME DOMAIN worker = Worker, NEW w \in Worker, NEW m, worker' = [worker EXCEPT ![w] = m]
    PROVE  /\ DOMAIN worker' = Worker /\ worker'[w] = m
           /\ \A v \in Worker : v # w => worker'[v] = worker[v]
OBVIOUS
-----------------------------------------------------------------------------
(* Steps that write no table of the catalog *)

LEMMA RequestTypes ==
    ASSUME CatalogTypes, NEW w \in Worker, NEW m, IsRequest(m), worker' = [worker EXCEPT ![w] = m]
    PROVE  DOMAIN worker' = Worker /\ \A v \in Worker : IsRequest(worker'[v])
BY Moved DEF CatalogTypes

\* A request goes on, and nothing that others have read changes.
LEMMA QuietRequests ==
    ASSUME CatalogTypes, Requests, NEW w \in Worker, NEW m, worker' = [worker EXCEPT ![w] = m],
           UNCHANGED <<tables, revision>>,
           \A v \in Worker : v # w => (v \in overtaken' <=> v \in overtaken),
           Honest(m, w \in overtaken')
    PROVE  Requests'
<1>1. \A k : Rows(k)' = Rows(k) /\ Answer(k)' = Answer(k)
  BY DEF Answer, WithRest, Rows, ShownBy, Published, Structure, Metadata, tables
<1> SUFFICES ASSUME NEW v \in Worker PROVE Honest(worker[v], v \in overtaken)'
  BY DEF Requests
<1>2. PICK n : n = worker'[v] /\ Honest(n, v \in overtaken')
  <2>1. CASE v = w
    <3>1. worker'[v] = m BY <2>1, Moved DEF CatalogTypes
    <3> QED BY <2>1, <3>1 DEF Honest, HonestRead, HonestRevision, HonestWrite
  <2>2. CASE v # w
    <3>1. worker'[v] = worker[v] /\ (v \in overtaken' <=> v \in overtaken)
      BY <2>2, Moved DEF CatalogTypes
    <3>2. Honest(worker[v], v \in overtaken) BY DEF Requests
    <3> QED BY <3>1, <3>2 DEF Honest, HonestRead, HonestRevision, HonestWrite
  <2> QED BY <2>1, <2>2
<1>3. HonestRead(worker[v], v \in overtaken)'
  BY <1>1, <1>2 DEF Honest, HonestRead, Fetched, Whole, Published, tables
<1>4. HonestRevision(worker[v], v \in overtaken)'
  BY <1>2 DEF Honest, HonestRevision, tables
<1>5. HonestWrite(worker[v], v \in overtaken)'
  BY <1>2 DEF Honest, HonestWrite, Exists, tables
<1> QED BY <1>3, <1>4, <1>5 DEF Honest

\* What is to be deleted from Redis stays so.
LEMMA QuietEntries ==
    ASSUME CatalogTypes, Entries, NEW w \in Worker, NEW m, worker' = [worker EXCEPT ![w] = m],
           UNCHANGED <<tables, entry, raced>>,
           worker[w].op # "invalidate"
    PROVE  Entries'
<1>1. \A k \in Asked : Pending(k) => Pending(k)'
  BY Moved DEF Pending, CatalogTypes
<1> SUFFICES ASSUME NEW k \in Asked, entry[k] # None
             PROVE  /\ Whole(k, entry[k])'
                    /\ k \in raced \/ Pending(k)' \/
                          /\ (entry[k] = Answer(k))'
                          /\ k.view = "course-structure" => Published(k.course)'
  BY DEF Entries
<1>2. /\ Whole(k, entry[k])
      /\ k \in raced \/ Pending(k) \/
            /\ entry[k] = Answer(k)
            /\ k.view = "course-structure" => Published(k.course)
  BY DEF Entries
<1>3. Whole(k, entry[k])' BY <1>2 DEF Whole, Fetched
<1>4. Answer(k)' = Answer(k) /\ (Published(k.course)' <=> Published(k.course))
  BY DEF Answer, WithRest, Rows, ShownBy, Published, Structure, Metadata, tables
<1> QED BY <1>1, <1>2, <1>3, <1>4

LEMMA QuietTables ==
    ASSUME CatalogTypes, Linked, Scoped, NEW w \in Worker, NEW m, worker' = [worker EXCEPT ![w] = m],
           UNCHANGED <<tables, moved>>, m.op # "term"
    PROVE  Linked' /\ Scoped'
<1>1. Linked' BY DEF Linked, tables
<1>2. PICK scope \in [Term -> Scope] : ScopedBy(scope) BY DEF Scoped
<1>3. ScopedBy(scope)'
  BY <1>2, Moved DEF ScopedBy, tables, CatalogTypes, Exists
<1> QED BY <1>1, <1>3 DEF Scoped
LEMMA QuietTypes ==
    ASSUME CatalogTypes, NEW w \in Worker, NEW m, IsRequest(m), worker' = [worker EXCEPT ![w] = m],
           UNCHANGED <<tables, moved>>, started' \in 0 .. MaxStarted + 1, overtaken' \subseteq Worker,
           DOMAIN entry' = Asked, raced' \subseteq Asked,
           revision' \in [Course -> SUBSET CourseRevision]
    PROVE  CatalogTypes'
<1>1. DOMAIN worker' = Worker /\ \A v \in Worker : IsRequest(worker'[v])
  BY RequestTypes
<1>2. CatalogTypeOK' BY DEF CatalogTypes, CachedTypeOK, CatalogTypeOK, tables, Exists
<1> QED BY <1>1, <1>2 DEF CatalogTypes, CachedTypeOK, IsRequest

LEMMA Quiet ==
    ASSUME CatalogInv, NEW w \in Worker, NEW m, IsRequest(m), m.op # "term",
           worker[w].op # "invalidate", worker' = [worker EXCEPT ![w] = m],
           UNCHANGED <<tables, moved, entry, raced, revision>>,
           started' \in 0 .. MaxStarted + 1, overtaken' \subseteq Worker,
           \A v \in Worker : v # w => (v \in overtaken' <=> v \in overtaken),
           Honest(m, w \in overtaken')
    PROVE  CatalogInv'
<1>1. CatalogTypes' BY QuietTypes DEF CatalogInv, CatalogTypes, CachedTypeOK
<1>2. Requests' BY QuietRequests DEF CatalogInv
<1>3. Entries' BY QuietEntries DEF CatalogInv
<1>4. Revisions' BY DEF CatalogInv, Revisions
<1>5. Linked' /\ Scoped' BY QuietTables DEF CatalogInv
<1> QED BY <1>1, <1>2, <1>3, <1>4, <1>5 DEF CatalogInv

\* What requests of the catalog do without writing a table.
LEMMA Continued ==
    ASSUME CatalogTypes, NEW w \in Worker, NEW m, IsRequest(m), Continues(w, m),
           worker[w] # Resting \/ started < MaxStarted
    PROVE  /\ worker' = [worker EXCEPT ![w] = m]
           /\ UNCHANGED <<tables, moved>>
           /\ started' \in 0 .. MaxStarted + 1 /\ overtaken' \subseteq Worker
           /\ \A v \in Worker : v # w => (v \in overtaken' <=> v \in overtaken)
           /\ m.op # "resting" => (w \in overtaken' <=> w \in overtaken)
<1>1. MaxStarted \in Nat /\ started \in 0 .. MaxStarted + 1 /\ overtaken \subseteq Worker
  BY CatalogAssumption DEF CatalogTypes, CachedTypeOK, CatalogTypeOK
<1>2. m.op # "resting" => m # Resting BY DEF Resting
<1> QED BY <1>1, <1>2 DEF Continues, Moves

\* A step of the catalog that stores nothing anywhere.
LEMMA Unstored ==
    ASSUME CatalogInv, NEW w \in Worker, NEW m, IsRequest(m), Continues(w, m), m.op # "term",
           worker[w] # Resting \/ started < MaxStarted, worker[w].op # "invalidate",
           UNCHANGED <<cacheVars, revision>>, Honest(m, w \in overtaken)
    PROVE  CatalogInv'
<1>1. /\ worker' = [worker EXCEPT ![w] = m]
      /\ UNCHANGED <<tables, moved>>
      /\ started' \in 0 .. MaxStarted + 1 /\ overtaken' \subseteq Worker
      /\ \A v \in Worker : v # w => (v \in overtaken' <=> v \in overtaken)
      /\ m.op # "resting" => (w \in overtaken' <=> w \in overtaken)
  BY Continued DEF CatalogInv
<1>2. UNCHANGED <<entry, raced, revision>> BY DEF cacheVars
<1>3. Honest(m, w \in overtaken')
  BY <1>1 DEF Honest, HonestRead, HonestRevision, HonestWrite
<1> QED BY <1>1, <1>2, <1>3, Quiet

\* Every request that loaded something is overtaken by a commit, and every entry is about
\* to be deleted.
LEMMA Committed ==
    ASSUME CatalogTypes, Requests, Entries, Revisions, NEW w \in Worker, Commits(w),
           UNCHANGED <<cacheVars, revision>>,
           \A c \in Course : course[c] # None => course'[c] # None
    PROVE  Requests' /\ Entries' /\ Revisions'
<1> DEFINE m == [op |-> "invalidate", left |-> Asked]
<1>1. /\ worker'[w] = m /\ \A v \in Worker : v # w => worker'[v] = worker[v]
      /\ overtaken' = (overtaken \cup {v \in Worker : Loaded(v)}) \ {w}
      /\ UNCHANGED <<entry, raced, revision>>
  BY Moved DEF Commits, Moves, CatalogTypes, cacheVars
<1>2. Requests'
  <2> SUFFICES ASSUME NEW v \in Worker PROVE Honest(worker[v], v \in overtaken)'
    BY DEF Requests
  <2>1. CASE v = w
    BY <1>1, <2>1 DEF Honest, HonestRead, HonestRevision, HonestWrite
  <2>2. CASE v # w
    <3>1. PICK n : n = worker'[v] /\ Honest(n, v \in overtaken) /\ n = worker[v]
      BY <1>1, <2>2 DEF Requests
    <3>2. n.op \in {"read", "revise", "update", "publish", "archive", "delete", "term"} =>
              v \in overtaken'
      BY <1>1, <2>2, <3>1 DEF Loaded
    <3>3. n.op \in {"update", "publish", "archive", "delete"} => n.course \in Course
      <4>1. IsRequest(n) BY <3>1 DEF CatalogTypes
      <4>2. n.op \in {"update", "publish", "archive", "delete"} => n \in ManagerState
        BY <4>1, RequestFields DEF CatalogOp
      <4> QED BY <4>2, ManagerFields DEF Update, Statuses
    <3>4. HonestRead(worker[v], v \in overtaken)'
      BY <3>1, <3>2 DEF Honest, HonestRead, Fetched, Whole
    <3>5. HonestRevision(worker[v], v \in overtaken)'
      BY <1>1, <3>1, <3>2 DEF Honest, HonestRevision
    <3>6. HonestWrite(worker[v], v \in overtaken)'
      BY <3>1, <3>2, <3>3 DEF Honest, HonestWrite
    <3> QED BY <3>4, <3>5, <3>6 DEF Honest
  <2> QED BY <2>1, <2>2
<1>3. Entries'
  <2>1. \A k \in Asked : Pending(k)' BY <1>1 DEF Pending
  <2> QED BY <1>1, <2>1 DEF Entries, Whole, Fetched
<1>4. Revisions' BY <1>1 DEF Revisions
<1> QED BY <1>2, <1>3, <1>4

LEMMA CommittedTypes ==
    ASSUME CatalogTypes, NEW w \in Worker, Commits(w), UNCHANGED <<cacheVars, revision>>,
           worker[w] # Resting \/ started < MaxStarted,
           course' \in [Course -> CourseRow \cup {None}], UniqueSlugs(course'),
           term' \in [Term -> TermRow \cup {None, Gone}], UniqueTermSlugs(term'),
           links' \in [Course -> Links], \A c \in Course : \A t \in links'[c].terms : Exists(term', t),
           outline' \in [Course -> 0 .. MaxLessons], moved' \subseteq Course
    PROVE  CatalogTypes'
<1> DEFINE m == [op |-> "invalidate", left |-> Asked]
<1>1. worker' = [worker EXCEPT ![w] = m] BY DEF Commits, Moves
<1>2. m \in Invalidation BY DEF Invalidation
<1>3. IsRequest(m) BY <1>2, ManagerRequests DEF IsRequest
<1>4. DOMAIN worker' = Worker /\ \A v \in Worker : IsRequest(worker'[v])
  BY <1>1, <1>3, RequestTypes
<1>5. MaxStarted \in Nat /\ started \in 0 .. MaxStarted + 1 /\ overtaken \subseteq Worker
  BY CatalogAssumption DEF CatalogTypes, CachedTypeOK, CatalogTypeOK
<1>6. started' \in 0 .. MaxStarted + 1 /\ overtaken' \subseteq Worker
  BY <1>5 DEF Commits, Moves
<1>7. CatalogTypeOK' BY <1>6 DEF CatalogTypeOK, Exists
<1> QED BY <1>4, <1>7 DEF CatalogTypes, CachedTypeOK, cacheVars, IsRequest
-----------------------------------------------------------------------------
(* Steps that write a table of the catalog *)

\* Neither a course nor a term is a marker.
LEMMA Markers ==
    /\ \A row \in CourseRow : row # None
    /\ \A row \in TermRow : row \notin {None, Gone}
    /\ None # Gone
BY CatalogAssumption

LEMMA CommittedScopes ==
    ASSUME CatalogTypes, Scoped, NEW w \in Worker, Commits(w), term' = term
    PROVE  Scoped'
<1> DEFINE m == [op |-> "invalidate", left |-> Asked]
<1>1. worker'[w] = m /\ \A v \in Worker : v # w => worker'[v] = worker[v]
  BY Moved DEF Commits, Moves, CatalogTypes
<1>2. PICK scope \in [Term -> Scope] : ScopedBy(scope) BY DEF Scoped
<1>3. ScopedBy(scope)' BY <1>1, <1>2 DEF ScopedBy, Exists
<1> QED BY <1>3 DEF Scoped

LEMMA CourseCommitted ==
    ASSUME CatalogInv, NEW w \in Worker, Commits(w), UNCHANGED <<cacheVars, revision>>,
           worker[w] # Resting \/ started < MaxStarted,
           NEW c \in Course, NEW row \in CourseRow, course' = [course EXCEPT ![c] = row],
           UniqueSlugs(course'), term' = term, outline' = outline, moved' \subseteq Course,
           links' \in [Course -> Links], \A d \in Course : \A t \in links'[d].terms : Exists(term, t),
           Linked'
    PROVE  CatalogInv'
<1>1. course \in [Course -> CourseRow \cup {None}] BY DEF CatalogInv, CatalogTypes, CachedTypeOK, CatalogTypeOK
<1>2. \A d \in Course : course[d] # None => course'[d] # None BY <1>1, Markers
<1>3. Requests' /\ Entries' /\ Revisions' BY <1>2, Committed DEF CatalogInv
<1>4. Scoped' BY CommittedScopes DEF CatalogInv
<1>5. CatalogTypes'
  <2>1. term' \in [Term -> TermRow \cup {None, Gone}] /\ UniqueTermSlugs(term')
        /\ outline' \in [Course -> 0 .. MaxLessons]
    BY DEF CatalogInv, CatalogTypes, CachedTypeOK, CatalogTypeOK
  <2>2. \A d \in Course : \A t \in links'[d].terms : Exists(term', t) BY DEF Exists
  <2>3. CatalogTypes BY DEF CatalogInv
  <2> QED BY <1>1, <2>1, <2>2, <2>3, CommittedTypes
<1> QED BY <1>3, <1>4, <1>5 DEF CatalogInv

\* replace_course_metadata keeps what is linked in the scope of the course.
LEMMA StoredLinks ==
    ASSUME CatalogInv, NEW c \in Course, NEW row \in CourseRow, NEW change \in Changes,
           Stores(c, row, change), term' = term,
           moved' = moved \/ moved' = moved \cup {c},
           course[c] # None /\ row.institution # course[c].institution => c \in moved'
    PROVE  /\ Linked'
           /\ links' \in [Course -> Links]
           /\ \A d \in Course : \A t \in links'[d].terms : Exists(term, t)
<1>1. /\ course \in [Course -> CourseRow \cup {None}] /\ links \in [Course -> Links]
      /\ \A d \in Course : \A t \in links[d].terms : Exists(term, t)
  BY DEF CatalogInv, CatalogTypes, CachedTypeOK, CatalogTypeOK
<1>2. /\ course' = [course EXCEPT ![c] = row] /\ MetadataFits(c, row, change)
      /\ links' = [links EXCEPT ![c] = Replaced(links[c], change)]
  BY DEF Stores
<1>3. PICK new : new = Replaced(links[c], change) /\ new \in Links
  <2>1. /\ links[c].terms \in SUBSET Term /\ links[c].prerequisites \in SUBSET Course
        /\ change.terms # None => change.terms \in SUBSET Term
        /\ change.prerequisites # None => change.prerequisites \in SUBSET Course
    BY <1>1 DEF Links, Changes, Sent
  <2>2. Replaced(links[c], change) \in Links BY <2>1 DEF Replaced, Links
  <2> QED BY <2>2
<1>4. /\ new.terms = links[c].terms \/ TermsFit(row.institution, new.terms)
      /\ \/ new.prerequisites = links[c].prerequisites
         \/ PrerequisitesFit(c, row.institution, new.prerequisites)
  BY <1>2, <1>3 DEF MetadataFits, Replaced
<1>5. course'[c] = row /\ \A d \in Course : d # c => course'[d] = course[d] BY <1>1, <1>2
<1>6. links'[c] = new /\ \A d \in Course : d # c => links'[d] = links[d] BY <1>1, <1>2, <1>3
<1>7. links' \in [Course -> Links] BY <1>1, <1>2, <1>3
<1>8. \A d \in Course : \A t \in links'[d].terms : Exists(term, t)
  <2> SUFFICES ASSUME NEW d \in Course, NEW t \in links'[d].terms PROVE Exists(term, t)
    OBVIOUS
  <2>1. CASE d # c BY <1>1, <1>6, <2>1
  <2>2. CASE d = c BY <1>1, <1>4, <1>6, <2>2 DEF TermsFit
  <2> QED BY <2>1, <2>2
<1>9. row # None /\ \A d \in Course : course[d] # None => course'[d] # None
  BY <1>1, <1>5, Markers
<1>10. \A d \in Course :
          /\ course'[d] = None => links'[d] = NoLinks
          /\ \A p \in links'[d].prerequisites : course'[p] # None
  <2> SUFFICES ASSUME NEW d \in Course
               PROVE  /\ course'[d] = None => links'[d] = NoLinks
                      /\ \A p \in links'[d].prerequisites : course'[p] # None
    OBVIOUS
  <2>1. links[d].prerequisites \subseteq Course /\ new.prerequisites \subseteq Course
    BY <1>1, <1>3 DEF Links
  <2>2. CASE d # c BY <1>5, <1>6, <1>9, <2>1, <2>2 DEF CatalogInv, Linked
  <2>3. CASE d = c
    <3>1. \A p \in new.prerequisites : course[p] # None
      BY <1>4 DEF CatalogInv, Linked, PrerequisitesFit, Live
    <3> QED BY <1>5, <1>6, <1>9, <2>1, <2>3, <3>1
  <2> QED BY <2>2, <2>3
<1>11. \A d \in Course \ moved' :
          /\ \A t \in links'[d].terms : term[t].scope \in {None, course'[d].institution}
          /\ \A p \in links'[d].prerequisites \ moved' :
                 p # d /\ course'[p].institution = course'[d].institution
  <2> SUFFICES ASSUME NEW d \in Course, d \notin moved'
               PROVE  /\ \A t \in links'[d].terms : term[t].scope \in {None, course'[d].institution}
                      /\ \A p \in links'[d].prerequisites \ moved' :
                             p # d /\ course'[p].institution = course'[d].institution
    OBVIOUS
  <2>1. d \notin moved /\ links'[d].prerequisites \subseteq Course BY <1>7 DEF Links
  <2>2. CASE d # c
    <3>1. /\ \A t \in links[d].terms : term[t].scope \in {None, course[d].institution}
          /\ \A p \in links[d].prerequisites \ moved :
                 /\ p # d /\ course[p].institution = course[d].institution
                 /\ course[p] # None
      BY <2>1 DEF CatalogInv, Linked
    <3>2. \A p \in links[d].prerequisites \ moved' :
              course[p] # None => course'[p].institution = course[p].institution
      BY <1>5, <1>6, <2>1, <2>2
    <3> QED BY <1>5, <1>6, <2>2, <3>1, <3>2
  <2>3. CASE d = c
    <3>1. CASE course[c] = None
      <4>1. links[c] = NoLinks BY <3>1 DEF CatalogInv, Linked
      <4>2. links[c].terms = {} /\ links[c].prerequisites = {} BY <4>1 DEF NoLinks
      <4> QED BY <1>4, <1>5, <1>6, <2>1, <2>3, <4>2 DEF TermsFit, PrerequisitesFit
    <3>2. CASE course[c] # None
      <4>1. row.institution = course[c].institution BY <2>3, <3>2
      <4>2. /\ \A t \in links[c].terms : term[t].scope \in {None, row.institution}
            /\ \A p \in links[c].prerequisites \ moved' :
                   p # c /\ course[p].institution = row.institution
        BY <2>1, <2>3, <4>1 DEF CatalogInv, Linked
      <4>3. \A t \in new.terms : term[t].scope \in {None, row.institution}
        BY <1>4, <4>2 DEF TermsFit
      <4>4. \A p \in new.prerequisites \ moved' : p # c /\ course[p].institution = row.institution
        BY <1>4, <4>2 DEF PrerequisitesFit
      <4> QED BY <1>5, <1>6, <2>1, <2>3, <4>3, <4>4
    <3> QED BY <3>1, <3>2
  <2> QED BY <2>2, <2>3
<1> QED BY <1>7, <1>8, <1>10, <1>11 DEF Linked
\* A write of some columns, none of them institution or slug.
LEMMA StatusWritten ==
    ASSUME CatalogInv, NEW w \in Worker, worker[w].op # "resting", worker[w].course \in Course,
           course[worker[w].course] # None, NEW row \in CourseRow,
           row.institution = course[worker[w].course].institution,
           row.slug = course[worker[w].course].slug,
           Writes(w, row), UNCHANGED <<cacheVars, revision>>
    PROVE  CatalogInv'
<1>1. PICK c \in Course : c = worker[w].course OBVIOUS
<1>2. /\ course \in [Course -> CourseRow \cup {None}] /\ UniqueSlugs(course)
      /\ links \in [Course -> Links] /\ moved \subseteq Course
      /\ \A d \in Course : \A t \in links[d].terms : Exists(term, t)
  BY DEF CatalogInv, CatalogTypes, CachedTypeOK, CatalogTypeOK
<1>3. /\ course' = [course EXCEPT ![c] = row] /\ UNCHANGED <<links, term, outline, moved>>
      /\ Commits(w)
  BY <1>1 DEF Writes
<1>4. /\ course'[c] = row /\ \A d \in Course : d # c => course'[d] = course[d]
      /\ row # None
  BY <1>2, <1>3, Markers
<1>5. \A d \in Course : (course'[d] = None <=> course[d] = None)
                        /\ course'[d].institution = course[d].institution
                        /\ course'[d].slug = course[d].slug
  BY <1>1, <1>4
<1>6. UniqueSlugs(course') BY <1>2, <1>5 DEF UniqueSlugs
<1>7. Linked'
  <2>1. \A d \in Course : links[d].prerequisites \subseteq Course BY <1>2 DEF Links
  <2> QED BY <1>3, <1>5, <2>1 DEF CatalogInv, Linked
<1>8. worker[w] # Resting BY DEF Resting
<1> QED BY <1>2, <1>3, <1>6, <1>7, <1>8, CourseCommitted

LEMMA CourseActions ==
    ASSUME CatalogInv, NEW w \in Worker, UNCHANGED <<cacheVars, revision>>,
           \/ \E c \in Course : \/ \E change \in Change : CreateCourse(w, c, change)
                                                          \/ LoadForUpdate(w, c, change)
                                \/ \E op \in {"publish", "archive", "delete"} :
                                      LoadForStatus(w, c, op)
                                \/ Restructure(w, c)
           \/ SaveCourse(w) \/ PublishCourse(w) \/ ArchiveCourse(w) \/ DeleteCourse(w)
    PROVE  CatalogInv'
<1>1. /\ course \in [Course -> CourseRow \cup {None}] /\ UniqueSlugs(course)
      /\ term \in [Term -> TermRow \cup {None, Gone}] /\ UniqueTermSlugs(term)
      /\ links \in [Course -> Links] /\ moved \subseteq Course
      /\ outline \in [Course -> 0 .. MaxLessons]
      /\ \A d \in Course : \A t \in links[d].terms : Exists(term, t)
  BY DEF CatalogInv, CatalogTypes, CachedTypeOK, CatalogTypeOK
<1>2. Change \subseteq Changes BY CatalogAssumption
<1>3. ASSUME NEW c \in Course, NEW change \in Change, CreateCourse(w, c, change)
      PROVE  CatalogInv'
  <2>1. /\ Commits(w) /\ Stores(c, NewCourse(change), change) /\ UNCHANGED <<term, outline, moved>>
        /\ course[c] = None /\ started < MaxStarted
        /\ change.institution # None /\ change.slug # None
    BY <1>3 DEF CreateCourse, MayBegin, Creates
  <2>2. NewCourse(change) \in CourseRow
    BY <1>2, <2>1 DEF NewCourse, CourseRow, CourseStatus, Changes, Sent
  <2>3. /\ Linked' /\ links' \in [Course -> Links]
        /\ \A d \in Course : \A t \in links'[d].terms : Exists(term, t)
    BY <1>2, <2>1, <2>2, StoredLinks
  <2> QED BY <1>1, <2>1, <2>2, <2>3, CourseCommitted DEF Stores
<1>4. ASSUME NEW c \in Course, NEW change \in Change, LoadForUpdate(w, c, change)
      PROVE  CatalogInv'
  <2>1. PICK m : /\ m = [op |-> "update", course |-> c, row |-> Merged(course[c], change),
                         change |-> change]
                 /\ Continues(w, m)
    BY <1>4 DEF LoadForUpdate
  <2>2. course[c] \in CourseRow /\ started < MaxStarted /\ worker[w] = Resting
    BY <1>1, <1>4 DEF LoadForUpdate, Live, MayBegin
  <2>3. /\ Merged(course[c], change) \in CourseRow
        /\ Merged(course[c], change).released = course[c].released
        /\ Merged(course[c], change).deleted = course[c].deleted
    BY <1>2, <2>2 DEF Merged, CourseRow, Changes, Sent
  <2>4. m \in Update BY <2>1, <2>3 DEF Update
  <2>5. IsRequest(m) /\ m.op = "update" BY <2>1, <2>4, ManagerRequests DEF IsRequest
  <2>6. Honest(m, w \in overtaken)
    BY <2>1, <2>2, <2>3, Markers DEF Honest, HonestRead, HonestRevision, HonestWrite
  <2> QED BY <2>1, <2>2, <2>5, <2>6, Unstored DEF Resting
<1>5. ASSUME NEW c \in Course, NEW op \in {"publish", "archive", "delete"}, LoadForStatus(w, c, op)
      PROVE  CatalogInv'
  <2>1. PICK m : m = [op |-> op, course |-> c] /\ Continues(w, m) BY <1>5 DEF LoadForStatus
  <2>2. course[c] # None /\ ~course[c].deleted /\ started < MaxStarted /\ worker[w] = Resting
    BY <1>1, <1>5 DEF LoadForStatus, Live, MayBegin
  <2>3. m \in Statuses BY <2>1 DEF Statuses
  <2>4. IsRequest(m) /\ m.op = op BY <2>1, <2>3, ManagerRequests DEF IsRequest
  <2>5. Honest(m, w \in overtaken)
    BY <2>1, <2>2 DEF Honest, HonestRead, HonestRevision, HonestWrite
  <2> QED BY <2>1, <2>2, <2>4, <2>5, Unstored DEF Resting
<1>6. ASSUME NEW c \in Course, Restructure(w, c) PROVE CatalogInv'
  <2>1. /\ Commits(w) /\ UNCHANGED <<course, links, term, moved>> /\ started < MaxStarted
        /\ outline' \in [Course -> 0 .. MaxLessons]
    BY <1>1, <1>6 DEF Restructure, MayBegin
  <2>2. Requests' /\ Entries' /\ Revisions' BY <2>1, Committed DEF CatalogInv
  <2>3. CatalogTypes BY DEF CatalogInv
  <2>4. CatalogTypes' BY <1>1, <2>1, <2>3, CommittedTypes
  <2>5. Linked' BY <2>1 DEF CatalogInv, Linked
  <2>6. Scoped' BY <2>1, CommittedScopes DEF CatalogInv
  <2> QED BY <2>2, <2>4, <2>5, <2>6 DEF CatalogInv
<1> DEFINE m == worker[w]
<1>7. IsRequest(m) /\ Honest(m, w \in overtaken)
  BY DEF CatalogInv, CatalogTypes, Requests
<1>8. /\ m.op = "update" => m \in Update /\ course[m.course] # None
      /\ m.op \in {"publish", "archive", "delete"} => m \in Statuses /\ course[m.course] # None
  BY <1>7, RequestFields, ManagerFields DEF CatalogOp, Honest, HonestWrite
<1>9. CASE SaveCourse(w)
  <2>1. PICK c \in Course, row \in CourseRow, change \in Changes :
            c = worker[w].course /\ row = worker[w].row /\ change = worker[w].change
            /\ worker[w].op = "update" /\ course[c] # None
    BY <1>2, <1>8, <1>9 DEF SaveCourse, Update
  <2>2. /\ Commits(w) /\ Stores(c, row, change) /\ UNCHANGED <<term, outline>>
        /\ moved' = IF row.institution # course[c].institution THEN moved \cup {c} ELSE moved
    BY <1>9, <2>1 DEF SaveCourse
  <2>3. /\ Linked' /\ links' \in [Course -> Links]
        /\ \A d \in Course : \A t \in links'[d].terms : Exists(term, t)
    BY <2>2, StoredLinks
  <2>4. worker[w] # Resting BY <2>1 DEF Resting
  <2> QED BY <1>1, <2>2, <2>3, <2>4, CourseCommitted DEF Stores
<1>10. ASSUME PublishCourse(w) \/ ArchiveCourse(w) \/ DeleteCourse(w) PROVE CatalogInv'
  <2>1. PICK c \in Course : c = worker[w].course /\ course[c] \in CourseRow /\ worker[w].op # "resting"
    BY <1>1, <1>8, <1>10 DEF PublishCourse, ArchiveCourse, DeleteCourse, Statuses
  <2>2. PICK row \in CourseRow : /\ row.institution = course[c].institution
                                 /\ row.slug = course[c].slug /\ Writes(w, row)
    BY <1>10, <2>1 DEF PublishCourse, ArchiveCourse, DeleteCourse, CourseRow, CourseStatus
  <2> QED BY <2>1, <2>2, Markers, StatusWritten
<1> QED BY <1>3, <1>4, <1>5, <1>6, <1>9, <1>10
LEMMA TermTypes ==
    ASSUME CatalogInv
    PROVE  /\ term \in [Term -> TermRow \cup {None, Gone}] /\ UniqueTermSlugs(term)
           /\ \A t \in Term : Exists(term, t) <=> term[t] \in TermRow
           /\ \A c \in Course : links[c].terms \subseteq Term
           /\ \A c \in Course : \A t \in links[c].terms : Exists(term, t)
           /\ course \in [Course -> CourseRow \cup {None}] /\ UniqueSlugs(course)
           /\ links \in [Course -> Links] /\ outline \in [Course -> 0 .. MaxLessons]
           /\ moved \subseteq Course
           /\ \A row \in TermRow : row.parent \subseteq Term /\ row.scope \in Scope
<1>1. /\ term \in [Term -> TermRow \cup {None, Gone}] /\ UniqueTermSlugs(term)
      /\ links \in [Course -> Links] /\ outline \in [Course -> 0 .. MaxLessons]
      /\ course \in [Course -> CourseRow \cup {None}] /\ UniqueSlugs(course)
      /\ \A c \in Course : \A t \in links[c].terms : Exists(term, t)
      /\ moved \subseteq Course
  BY DEF CatalogInv, CatalogTypes, CachedTypeOK, CatalogTypeOK
<1>2. \A t \in Term : Exists(term, t) <=> term[t] \in TermRow BY <1>1, Markers DEF Exists
<1>3. \A c \in Course : links[c].terms \subseteq Term BY <1>1 DEF Links
<1>4. \A row \in TermRow : row.parent \subseteq Term /\ row.scope \in Scope BY DEF TermRow
<1> QED BY <1>1, <1>2, <1>3, <1>4

\* A term that is stored in the scope it had, or gets now.
LEMMA TermStored ==
    ASSUME CatalogInv, NEW w \in Worker, NEW t \in Term, NEW row \in TermRow,
           StoresAtOnce(w, t, row), worker[w] # Resting \/ started < MaxStarted,
           UNCHANGED <<cacheVars, revision>>,
           NEW scope \in [Term -> Scope], ScopedBy(scope),
           row.scope = scope[t], \A p \in row.parent : scope[p] = scope[t]
    PROVE  CatalogInv'
<1>1. /\ Commits(w) /\ term' = [term EXCEPT ![t] = row] /\ UniqueTermSlugs(term')
      /\ \A p \in row.parent : Exists(term, p)
      /\ UNCHANGED <<course, links, outline, moved>>
  BY DEF StoresAtOnce, StoresTerm
<1>2. /\ term' \in [Term -> TermRow \cup {None, Gone}] /\ term'[t] = row
      /\ \A u \in Term : u # t => term'[u] = term[u]
  BY <1>1, TermTypes
<1>3. Exists(term', t) /\ \A u \in Term : Exists(term, u) => Exists(term', u)
  BY <1>2, Markers DEF Exists
<1>4. \A c \in Course : \A u \in links[c].terms : Exists(term', u) BY <1>3, TermTypes
<1>5. CatalogTypes BY DEF CatalogInv
<1>6. CatalogTypes' BY <1>1, <1>2, <1>4, <1>5, TermTypes, CommittedTypes
<1>7. Requests' /\ Entries' /\ Revisions' BY <1>1, Committed DEF CatalogInv
<1>8. Linked'
  <2>1. \A c \in Course : \A u \in links[c].terms : term'[u].scope = term[u].scope
    BY <1>2, TermTypes DEF ScopedBy
  <2> QED BY <1>1, <2>1 DEF CatalogInv, Linked
<1>9. Scoped'
  <2> DEFINE m == [op |-> "invalidate", left |-> Asked]
  <2>1. worker'[w] = m /\ \A v \in Worker : v # w => worker'[v] = worker[v]
    BY <1>1, <1>5, Moved DEF Commits, Moves, CatalogTypes
  <2>2. \A u \in Term : Exists(term', u) =>
            /\ term'[u].scope = scope[u]
            /\ \A p \in term'[u].parent : Exists(term', p) /\ scope[p] = scope[u]
    <3> SUFFICES ASSUME NEW u \in Term, Exists(term', u)
                 PROVE  /\ term'[u].scope = scope[u]
                        /\ \A p \in term'[u].parent : Exists(term', p) /\ scope[p] = scope[u]
      OBVIOUS
    <3>1. CASE u = t BY <1>1, <1>2, <1>3, <3>1, TermTypes
    <3>2. CASE u # t
      <4>1. Exists(term, u) BY <1>2, <3>2 DEF Exists
      <4> QED BY <1>2, <1>3, <3>2, <4>1, TermTypes DEF ScopedBy
    <3> QED BY <3>1, <3>2
  <2>3. \A u \in Term : term[u] # None => term'[u] # None BY <1>2, Markers
  <2>4. \A v \in Worker : worker'[v].op = "term" =>
            /\ term'[worker'[v].term] # None
            /\ worker'[v].row.scope = scope[worker'[v].term]
            /\ \A p \in worker'[v].row.parent : term'[p] # None /\ scope[p] = worker'[v].row.scope
    <3> SUFFICES ASSUME NEW v \in Worker, worker'[v].op = "term"
                 PROVE  /\ term'[worker'[v].term] # None
                        /\ worker'[v].row.scope = scope[worker'[v].term]
                        /\ \A p \in worker'[v].row.parent :
                               term'[p] # None /\ scope[p] = worker'[v].row.scope
      OBVIOUS
    <3>1. worker'[v] = worker[v] BY <2>1
    <3>2. worker[v] \in TermWrite
      BY <1>5, <3>1, RequestFields, ManagerFields DEF CatalogTypes, CatalogOp
    <3>3. worker[v].term \in Term /\ worker[v].row.parent \subseteq Term
      BY <3>2, TermTypes DEF TermWrite
    <3> QED BY <2>3, <3>1, <3>3 DEF ScopedBy
  <2>5. ScopedBy(scope)' BY <2>2, <2>4 DEF ScopedBy
  <2> QED BY <2>5 DEF Scoped
<1> QED BY <1>6, <1>7, <1>8, <1>9 DEF CatalogInv

\* Nothing tells the scope of a term that was never created.
LEMMA Unscoped ==
    ASSUME CatalogInv, NEW t \in Term, term[t] = None, NEW s \in Scope,
           NEW scope \in [Term -> Scope], ScopedBy(scope)
    PROVE  \E other \in [Term -> Scope] : /\ ScopedBy(other) /\ other[t] = s
                                          /\ \A u \in Term : u # t => other[u] = scope[u]
<1> DEFINE other == [scope EXCEPT ![t] = s]
<1>1. /\ other \in [Term -> Scope] /\ other[t] = s
      /\ \A u \in Term : u # t => other[u] = scope[u]
  OBVIOUS
<1>2. \A u \in Term : Exists(term, u) => u # t BY DEF Exists
<1>3. \A u \in Term : Exists(term, u) =>
          /\ term[u].scope = other[u]
          /\ \A p \in term[u].parent : Exists(term, p) /\ other[p] = other[u]
  BY <1>1, <1>2, TermTypes DEF ScopedBy
<1>4. \A v \in Worker : worker[v].op = "term" =>
          /\ term[worker[v].term] # None
          /\ worker[v].row.scope = other[worker[v].term]
          /\ \A p \in worker[v].row.parent : term[p] # None /\ other[p] = worker[v].row.scope
  <2> SUFFICES ASSUME NEW v \in Worker, worker[v].op = "term"
               PROVE  /\ term[worker[v].term] # None
                      /\ worker[v].row.scope = other[worker[v].term]
                      /\ \A p \in worker[v].row.parent :
                             term[p] # None /\ other[p] = worker[v].row.scope
    OBVIOUS
  <2>1. worker[v] \in TermWrite
    BY RequestFields, ManagerFields DEF CatalogInv, CatalogTypes, CatalogOp
  <2>2. worker[v].term \in Term /\ worker[v].row.parent \subseteq Term
    BY <2>1, TermTypes DEF TermWrite
  <2> QED BY <1>1, <2>2 DEF ScopedBy
<1>5. ScopedBy(other) BY <1>3, <1>4 DEF ScopedBy
<1> QED BY <1>1, <1>5
\* A request that takes a copy of a term in its scope.
LEMMA TermLoaded ==
    ASSUME CatalogInv, NEW w \in Worker, NEW t \in Term, NEW row \in TermRow, Exists(term, t),
           MayBegin(w), Continues(w, [op |-> "term", term |-> t, row |-> row]),
           UNCHANGED <<cacheVars, revision>>, row.scope = term[t].scope,
           \A p \in row.parent : Exists(term, p) /\ term[p].scope = term[t].scope
    PROVE  CatalogInv'
<1>1. PICK m : m = [op |-> "term", term |-> t, row |-> row] /\ Continues(w, m) OBVIOUS
<1>2. m \in TermWrite BY <1>1 DEF TermWrite
<1>3. IsRequest(m) BY <1>2, ManagerRequests DEF IsRequest
<1>4. /\ worker' = [worker EXCEPT ![w] = m]
      /\ UNCHANGED <<tables, moved>>
      /\ started' \in 0 .. MaxStarted + 1 /\ overtaken' \subseteq Worker
      /\ \A v \in Worker : v # w => (v \in overtaken' <=> v \in overtaken)
  BY <1>1, <1>3, Continued DEF CatalogInv, MayBegin
<1>5. UNCHANGED <<entry, raced, revision>> /\ worker[w].op # "invalidate"
  BY DEF cacheVars, MayBegin, Resting
<1>6. CatalogTypes'
  BY <1>3, <1>4, <1>5, QuietTypes DEF CatalogInv, CatalogTypes, CachedTypeOK
<1>7. Honest(m, w \in overtaken')
  BY <1>1 DEF Honest, HonestRead, HonestRevision, HonestWrite
<1>8. Requests' BY <1>4, <1>5, <1>7, QuietRequests DEF CatalogInv
<1>9. Entries' BY <1>4, <1>5, QuietEntries DEF CatalogInv
<1>10. Revisions' BY <1>5 DEF CatalogInv, Revisions
<1>11. Linked' BY <1>4 DEF CatalogInv, Linked, tables
<1>12. PICK scope \in [Term -> Scope] : ScopedBy(scope) BY DEF CatalogInv, Scoped
<1>13. /\ worker'[w] = m /\ \A v \in Worker : v # w => worker'[v] = worker[v]
       /\ term' = term
  BY <1>4, Moved DEF CatalogInv, CatalogTypes, tables
<1>14. /\ m.term = t /\ m.row = row /\ term[t] # None /\ row.scope = scope[t]
       /\ \A p \in row.parent : term[p] # None /\ scope[p] = row.scope
  BY <1>1, <1>12, TermTypes, Markers DEF ScopedBy, Exists
<1>15. ScopedBy(scope)' BY <1>12, <1>13, <1>14 DEF ScopedBy, Exists
<1> QED BY <1>6, <1>8, <1>9, <1>10, <1>11, <1>15 DEF CatalogInv, Scoped

LEMMA TermDeleted ==
    ASSUME CatalogInv, NEW w \in Worker, NEW t \in Term, DeleteTerm(w, t),
           UNCHANGED <<cacheVars, revision>>
    PROVE  CatalogInv'
<1>1. /\ Commits(w) /\ UNCHANGED <<course, outline, moved>> /\ started < MaxStarted
      /\ term' = [u \in Term |-> IF u = t THEN Gone
                                 ELSE IF ~Exists(term, u) THEN term[u]
                                 ELSE [term[u] EXCEPT !.parent = @ \ {t}]]
      /\ links' = [c \in Course |-> [links[c] EXCEPT !.terms = @ \ {t}]]
  BY DEF DeleteTerm, DeletesTerm, MayChangeTerm, MayBegin
<1>2. /\ term'[t] = Gone
      /\ \A u \in Term : u # t =>
            IF Exists(term, u)
            THEN /\ term'[u] \in TermRow /\ term'[u].scope = term[u].scope
                 /\ term'[u].slug = term[u].slug /\ term'[u].parent = term[u].parent \ {t}
            ELSE term'[u] = term[u]
  BY <1>1, TermTypes DEF TermRow
<1>3. /\ \A u \in Term : Exists(term', u) <=> u # t /\ Exists(term, u)
      /\ \A u \in Term : term[u] # None => term'[u] # None
  BY <1>2, Markers DEF Exists
<1>4. term' \in [Term -> TermRow \cup {None, Gone}] BY <1>1, <1>2, TermTypes
<1>5. UniqueTermSlugs(term')
  <2> SUFFICES ASSUME NEW t1 \in Term, NEW t2 \in Term, Exists(term', t1), Exists(term', t2),
                      t1 # t2, t1 \in Tag <=> t2 \in Tag
               PROVE  <<term'[t1].scope, term'[t1].slug>> # <<term'[t2].scope, term'[t2].slug>>
    BY DEF UniqueTermSlugs
  <2> QED BY <1>2, <1>3, TermTypes DEF UniqueTermSlugs
<1>6. \A c \in Course : /\ links'[c] \in Links /\ links'[c].terms = links[c].terms \ {t}
                        /\ links'[c].prerequisites = links[c].prerequisites
                        /\ links[c] = NoLinks => links'[c] = NoLinks
  <2> SUFFICES ASSUME NEW c \in Course
               PROVE  /\ links'[c] \in Links /\ links'[c].terms = links[c].terms \ {t}
                      /\ links'[c].prerequisites = links[c].prerequisites
                      /\ links[c] = NoLinks => links'[c] = NoLinks
    OBVIOUS
  <2>1. PICK l \in Links : l = links[c] BY TermTypes
  <2>2. links'[c] = [l EXCEPT !.terms = l.terms \ {t}] BY <1>1, <2>1
  <2>3. links'[c] = [terms |-> l.terms \ {t}, prerequisites |-> l.prerequisites]
    BY <2>2 DEF Links
  <2>4. l.terms \ {t} \in SUBSET Term /\ l.prerequisites \in SUBSET Course BY DEF Links
  <2>5. l = NoLinks => l.terms = {} /\ l.prerequisites = {} BY DEF NoLinks
  <2> QED BY <2>1, <2>3, <2>4, <2>5 DEF Links, NoLinks
<1>7. links' \in [Course -> Links] BY <1>1, <1>6
<1>8. \A c \in Course : \A u \in links'[c].terms : Exists(term', u) /\ u # t /\ u \in Term
  BY <1>3, <1>6, TermTypes
<1>9. CatalogTypes BY DEF CatalogInv
<1>10. CatalogTypes' BY <1>1, <1>4, <1>5, <1>7, <1>8, <1>9, TermTypes, CommittedTypes
<1>11. Requests' /\ Entries' /\ Revisions' BY <1>1, Committed DEF CatalogInv
<1>12. Linked'
  <2>1. \A c \in Course : \A u \in links'[c].terms : u \in links[c].terms /\ term'[u].scope = term[u].scope
    BY <1>2, <1>6, <1>8, TermTypes
  <2>2. \A c \in Course : /\ course'[c] = None => links'[c] = NoLinks
                          /\ \A p \in links'[c].prerequisites : course'[p] # None
    BY <1>1, <1>6 DEF CatalogInv, Linked
  <2>3. \A c \in Course \ moved' :
            /\ \A u \in links'[c].terms : term'[u].scope \in {None, course'[c].institution}
            /\ \A p \in links'[c].prerequisites \ moved' :
                   p # c /\ course'[p].institution = course'[c].institution
    <3> SUFFICES ASSUME NEW c \in Course, c \notin moved'
                 PROVE  /\ \A u \in links'[c].terms :
                               term'[u].scope \in {None, course'[c].institution}
                        /\ \A p \in links'[c].prerequisites \ moved' :
                               p # c /\ course'[p].institution = course'[c].institution
      OBVIOUS
    <3>1. /\ \A u \in links[c].terms : term[u].scope \in {None, course[c].institution}
          /\ \A p \in links[c].prerequisites \ moved :
                 p # c /\ course[p].institution = course[c].institution
      BY <1>1 DEF CatalogInv, Linked
    <3> QED BY <1>1, <1>6, <2>1, <3>1
  <2> QED BY <2>2, <2>3 DEF Linked
<1>13. PICK scope \in [Term -> Scope] : ScopedBy(scope) BY DEF CatalogInv, Scoped
<1>14. ScopedBy(scope)'
  <2> DEFINE m == [op |-> "invalidate", left |-> Asked]
  <2>1. worker'[w] = m /\ \A v \in Worker : v # w => worker'[v] = worker[v]
    BY <1>1, <1>9, Moved DEF Commits, Moves, CatalogTypes
  <2>2. \A u \in Term : Exists(term', u) =>
            /\ term'[u].scope = scope[u]
            /\ \A p \in term'[u].parent : Exists(term', p) /\ scope[p] = scope[u]
    BY <1>2, <1>3, <1>13, TermTypes DEF ScopedBy
  <2>3. \A v \in Worker : worker'[v].op = "term" =>
            /\ term'[worker'[v].term] # None
            /\ worker'[v].row.scope = scope[worker'[v].term]
            /\ \A p \in worker'[v].row.parent : term'[p] # None /\ scope[p] = worker'[v].row.scope
    <3> SUFFICES ASSUME NEW v \in Worker, worker'[v].op = "term"
                 PROVE  /\ term'[worker'[v].term] # None
                        /\ worker'[v].row.scope = scope[worker'[v].term]
                        /\ \A p \in worker'[v].row.parent :
                               term'[p] # None /\ scope[p] = worker'[v].row.scope
      OBVIOUS
    <3>1. worker'[v] = worker[v] BY <2>1
    <3>2. worker[v] \in TermWrite
      BY <1>9, <3>1, RequestFields, ManagerFields DEF CatalogTypes, CatalogOp
    <3>3. worker[v].term \in Term /\ worker[v].row.parent \subseteq Term
      BY <3>2, TermTypes DEF TermWrite
    <3> QED BY <1>3, <1>13, <3>1, <3>3 DEF ScopedBy
  <2> QED BY <2>2, <2>3 DEF ScopedBy
<1> QED BY <1>10, <1>11, <1>12, <1>14 DEF CatalogInv, Scoped

LEMMA TermActions ==
    ASSUME CatalogInv, NEW w \in Worker, UNCHANGED <<cacheVars, revision>>,
           \/ \E t \in Term : \/ \E change \in TermChange :
                                    \/ LoadCategory(w, t, change)
                                    \/ \E scope \in Scope : CreateCategory(w, t, scope, change)
                              \/ \E slug \in TagSlug :
                                    \/ LoadTag(w, t, slug)
                                    \/ \E scope \in Scope : CreateTag(w, t, scope, slug)
                              \/ DeleteTerm(w, t)
           \/ SaveTerm(w)
    PROVE  CatalogInv'
<1>1. PICK scopes \in [Term -> Scope] : ScopedBy(scopes) BY DEF CatalogInv, Scoped
<1>2. /\ TermChange \subseteq TermChanges /\ TagSlug \subseteq Slug
      /\ \A t \in Term : Exists(term, t) =>
            /\ term[t] \in TermRow /\ term[t].scope = scopes[t]
            /\ \A p \in term[t].parent : Exists(term, p) /\ p \in Term
                                         /\ term[p].scope = term[t].scope
  BY <1>1, CatalogAssumption, TermTypes DEF ScopedBy
<1>3. ASSUME NEW t \in Term, NEW change \in TermChange, LoadCategory(w, t, change)
      PROVE  CatalogInv'
  <2>1. /\ MayBegin(w) /\ Exists(term, t)
        /\ change.parent # None => ParentFits(t, term[t].scope, change.parent)
        /\ Continues(w, [op |-> "term", term |-> t, row |-> MergedCategory(term[t], change)])
    BY <1>3 DEF LoadCategory, MayChangeTerm, UpdatesCategory
  <2>2. PICK row, old : row = MergedCategory(old, change) /\ old = term[t] /\ old \in TermRow
    BY <1>2, <2>1
  <2>3. /\ row = [scope |-> old.scope,
                  slug |-> IF change.slug = None THEN old.slug ELSE change.slug,
                  parent |-> IF change.parent = None THEN old.parent ELSE change.parent]
        /\ old.scope \in Scope /\ old.slug \in Slug /\ old.parent \in SUBSET (Term \ Tag)
    BY <2>2 DEF MergedCategory, TermRow
  <2>4. /\ change.slug # None => change.slug \in Slug
        /\ change.parent # None => change.parent \in SUBSET (Term \ Tag)
    BY <1>2 DEF TermChanges, Sent
  <2>5. /\ row \in TermRow /\ row.scope = term[t].scope
        /\ row.parent = IF change.parent = None THEN term[t].parent ELSE change.parent
    BY <2>2, <2>3, <2>4 DEF TermRow
  <2>6. \A p \in row.parent : Exists(term, p) /\ term[p].scope = term[t].scope
    BY <1>2, <2>1, <2>5 DEF ParentFits
  <2> QED BY <2>1, <2>2, <2>5, <2>6, TermLoaded
<1>4. ASSUME NEW t \in Term, NEW slug \in TagSlug, LoadTag(w, t, slug) PROVE CatalogInv'
  <2>1. /\ MayBegin(w) /\ Exists(term, t)
        /\ Continues(w, [op |-> "term", term |-> t, row |-> [term[t] EXCEPT !.slug = slug]])
    BY <1>4 DEF LoadTag, MayChangeTerm
  <2>2. PICK row, old : row = [old EXCEPT !.slug = slug] /\ old = term[t] /\ old \in TermRow
    BY <1>2, <2>1
  <2>3. row \in TermRow /\ row.scope = term[t].scope /\ row.parent = term[t].parent
    BY <1>2, <2>2 DEF TermRow
  <2>4. Continues(w, [op |-> "term", term |-> t, row |-> row]) BY <2>1, <2>2
  <2> QED BY <1>2, <2>1, <2>3, <2>4, TermLoaded
<1>5. ASSUME NEW t \in Term, NEW s \in Scope, NEW row \in TermRow, term[t] = None, row.scope = s,
             \A p \in row.parent : p # t /\ Exists(term, p) /\ term[p].scope = s,
             started < MaxStarted, StoresAtOnce(w, t, row)
      PROVE  CatalogInv'
  <2>1. PICK other \in [Term -> Scope] : /\ ScopedBy(other) /\ other[t] = s
                                         /\ \A u \in Term : u # t => other[u] = scopes[u]
    <3>1. term[t] = None BY <1>5
    <3> QED BY <1>1, <3>1, Unscoped
  <2>2. \A p \in row.parent : other[p] = other[t] BY <1>2, <1>5, <2>1, TermTypes
  <2> QED BY <1>5, <2>1, <2>2, TermStored
<1>6. ASSUME NEW t \in Term, NEW change \in TermChange, NEW s \in Scope,
             CreateCategory(w, t, s, change)
      PROVE  CatalogInv'
  <2>1. /\ term[t] = None /\ started < MaxStarted /\ change.slug # None /\ change.parent # None
        /\ ParentFits(t, s, change.parent) /\ StoresAtOnce(w, t, NewCategory(s, change))
    BY <1>6 DEF CreateCategory, MayCreateTerm, MayBegin, CreatesCategory
  <2>2. /\ NewCategory(s, change) \in TermRow /\ NewCategory(s, change).scope = s
        /\ NewCategory(s, change).parent = change.parent
    BY <1>2, <2>1 DEF NewCategory, TermRow, TermChanges, Sent
  <2> QED BY <1>5, <2>1, <2>2 DEF ParentFits
<1>7. ASSUME NEW t \in Term, NEW slug \in TagSlug, NEW s \in Scope, CreateTag(w, t, s, slug)
      PROVE  CatalogInv'
  <2>1. term[t] = None /\ started < MaxStarted /\ StoresAtOnce(w, t, NewTag(s, slug))
    BY <1>7 DEF CreateTag, MayCreateTerm, MayBegin
  <2>2. /\ NewTag(s, slug) \in TermRow /\ NewTag(s, slug).scope = s
        /\ NewTag(s, slug).parent = {}
    BY <1>2 DEF NewTag, TermRow
  <2> QED BY <1>5, <2>1, <2>2
<1>8. CASE SaveTerm(w)
  <2>1. worker[w].op = "term" /\ StoresAtOnce(w, worker[w].term, worker[w].row)
    BY <1>8 DEF SaveTerm
  <2>2. worker[w] \in TermWrite
    BY <2>1, RequestFields, ManagerFields DEF CatalogInv, CatalogTypes, CatalogOp
  <2>3. PICK t \in Term, row \in TermRow : t = worker[w].term /\ row = worker[w].row
    BY <2>2 DEF TermWrite
  <2>4. row.scope = scopes[t] /\ \A p \in row.parent : scopes[p] = scopes[t]
    BY <1>1, <2>1, <2>3 DEF ScopedBy
  <2>5. worker[w] # Resting BY <2>1 DEF Resting
  <2> QED BY <1>1, <2>1, <2>3, <2>4, <2>5, TermStored
<1> QED BY <1>3, <1>4, <1>6, <1>7, <1>8, TermDeleted
-----------------------------------------------------------------------------
(* Reads *)

LEMMA Keys ==
    ASSUME NEW k \in Asked
    PROVE  /\ k.view \in {"course-list", "course-detail", "course-structure"}
           /\ k.view # "course-list" => k.course \in Course
BY CacheAssumption DEF CatalogKey

LEMMA ReadingFields ==
    ASSUME NEW k \in Asked, NEW step \in {"rows", "rest", "store"}, NEW data,
           DOMAIN data \subseteq Course
    PROVE  /\ IsRequest(Reading(k, step, data))
           /\ Reading(k, step, data).op = "read" /\ Reading(k, step, data).key = k
           /\ Reading(k, step, data).step = step /\ Reading(k, step, data).data = data
BY DEF IsRequest, IsRead, Reading

\* The query of the courses finds published ones, but for the structure.
LEMMA RowsFetched ==
    ASSUME NEW k \in Asked, k.view = "course-detail" => Published(k.course)
    PROVE  Fetched(k, Rows(k))
<1>1. /\ DOMAIN Rows(k) = ShownBy(k)
      /\ \A c \in ShownBy(k) : Rows(k)[c] = [row |-> course[c], rest |-> None]
  BY DEF Rows
<1>2. ShownBy(k) \subseteq Course BY Keys DEF ShownBy
<1>3. k.view # "course-structure" => \A c \in ShownBy(k) : Published(c)
  BY Keys DEF ShownBy
<1>4. k.view = "course-structure" => ShownBy(k) = {k.course} BY DEF ShownBy
<1> QED BY <1>1, <1>2, <1>3, <1>4 DEF Fetched, Published

\* The second query adds to them, and the structure has as many lessons as it may.
LEMMA RestWhole ==
    ASSUME CatalogTypes, NEW k \in Asked, NEW data, Fetched(k, data)
    PROVE  Whole(k, WithRest(k, data))
<1>1. outline \in [Course -> 0 .. MaxLessons]
  BY DEF CatalogTypes, CachedTypeOK, CatalogTypeOK
<1> DEFINE rest(c) == IF k.view = "course-structure" THEN Structure(c) ELSE Metadata(c)
<1>2. /\ DOMAIN WithRest(k, data) = DOMAIN data
      /\ \A c \in DOMAIN data : WithRest(k, data)[c] = [data[c] EXCEPT !.rest = rest(c)]
  BY DEF WithRest
<1>3. \A c \in DOMAIN data : WithRest(k, data)[c] = [row |-> data[c].row, rest |-> rest(c)]
  <2> SUFFICES ASSUME NEW c \in DOMAIN data
               PROVE  WithRest(k, data)[c] = [row |-> data[c].row, rest |-> rest(c)]
    OBVIOUS
  <2>1. data[c] = [row |-> data[c].row, rest |-> data[c].rest] BY DEF Fetched
  <2>2. PICK r1, r2, r3 : data[c] = [row |-> r1, rest |-> r2] /\ r3 = rest(c) /\ r1 = data[c].row
    BY <2>1
  <2>3. WithRest(k, data)[c] = [[row |-> r1, rest |-> r2] EXCEPT !.rest = r3]
    BY <1>2, <2>2
  <2> QED BY <2>2, <2>3
<1>4. k.view = "course-structure" => k.course \in DOMAIN data /\ k.course \in Course
  BY Keys DEF Fetched
<1>5. ASSUME k.view = "course-structure"
      PROVE  WithRest(k, data)[k.course].rest.outline = outline[k.course]
  <2>1. rest(k.course) = [outline |-> outline[k.course]] BY <1>5 DEF Structure
  <2>2. PICK r1, r2 : /\ WithRest(k, data)[k.course] = [row |-> r1, rest |-> r2]
                     /\ r1 = data[k.course].row /\ r2 = rest(k.course)
    <3> HIDE DEF rest
    <3> QED BY <1>3, <1>4, <1>5
  <2> QED BY <2>1, <2>2
<1> QED BY <1>1, <1>2, <1>3, <1>4, <1>5 DEF Whole, Fetched

LEMMA ReadOn ==
    ASSUME CatalogInv, NEW w \in Worker, NEW k \in Asked, NEW step \in {"rows", "rest", "store"},
           NEW data, DOMAIN data \subseteq Course, Continues(w, Reading(k, step, data)),
           worker[w] # Resting \/ started < MaxStarted, worker[w].op # "invalidate",
           UNCHANGED <<cacheVars, revision>>,
           step = "rows" => k.view # "course-detail",
           step = "rest" => Fetched(k, data) /\ (w \in overtaken \/ data = Rows(k)),
           step = "store" => Whole(k, data) /\ (w \in overtaken \/ data = Answer(k)),
           k.view = "course-structure" => w \in overtaken \/ Published(k.course)
    PROVE  CatalogInv'
<1>1. PICK m : m = Reading(k, step, data) OBVIOUS
<1>2. IsRequest(m) /\ m.op = "read" /\ m.key = k /\ m.step = step /\ m.data = data
  BY <1>1, ReadingFields
<1>3. Honest(m, w \in overtaken)
  BY <1>2 DEF Honest, HonestRead, HonestRevision, HonestWrite
<1>4. Continues(w, m) /\ m.op # "term" BY <1>1, <1>2
<1> QED BY <1>2, <1>3, <1>4, Unstored

\* The key and the data of a read.
LEMMA ReadFields ==
    ASSUME CatalogInv, NEW w \in Worker, worker[w].op = "read"
    PROVE  /\ worker[w].key \in Asked /\ DOMAIN worker[w].data \subseteq Course
           /\ worker[w].step \in {"rows", "rest", "store"} /\ worker[w] # Resting
           /\ HonestRead(worker[w], w \in overtaken)
<1>1. IsRead(worker[w]) BY RequestFields DEF CatalogInv, CatalogTypes
<1>2. worker[w] # Resting BY DEF Resting
<1>3. HonestRead(worker[w], w \in overtaken) BY DEF CatalogInv, Requests, Honest
<1> QED BY <1>1, <1>2, <1>3 DEF IsRead

LEMMA Asks ==
    ASSUME CatalogInv, NEW w \in Worker, NEW k \in Asked,
           AskList(w, k) \/ AskDetail(w, k) \/ AskStructure(w, k)
    PROVE  CatalogInv'
<1>1. MayBegin(w) /\ UNCHANGED <<cacheVars, revision>>
  BY DEF AskList, AskDetail, AskStructure
<1>2. started < MaxStarted /\ worker[w].op # "invalidate" BY <1>1 DEF MayBegin, Resting
<1>3. ASSUME NEW data, data = <<>>, Continues(w, Reading(k, "rows", data)),
             k.view # "course-detail", k.view = "course-structure" => Published(k.course)
      PROVE  CatalogInv'
  <2>1. DOMAIN data = {} BY <1>3
  <2>2. DOMAIN data \subseteq Course BY <2>1
  <2> QED BY <1>1, <1>2, <1>3, <2>2, ReadOn
<1>4. CASE AskList(w, k) BY <1>3, <1>4 DEF AskList
<1>5. CASE AskStructure(w, k) BY <1>3, <1>5 DEF AskStructure
<1>6. CASE AskDetail(w, k)
  <2>1. k.view = "course-detail" /\ Published(k.course) /\ Continues(w, Reading(k, "rest", Rows(k)))
    BY <1>6 DEF AskDetail
  <2>2. Fetched(k, Rows(k)) BY <2>1, RowsFetched
  <2>3. PICK data : data = Rows(k) OBVIOUS
  <2>4. DOMAIN data \subseteq Course BY <2>2, <2>3 DEF Fetched
  <2> QED BY <1>1, <1>2, <2>1, <2>2, <2>3, <2>4, ReadOn
<1> QED BY <1>4, <1>5, <1>6

LEMMA ReadsRows ==
    ASSUME CatalogInv, NEW w \in Worker, ReadRows(w)
    PROVE  CatalogInv'
<1>1. PICK k : k = worker[w].key OBVIOUS
<1>2. /\ worker[w].op = "read" /\ worker[w].step = "rows" /\ UNCHANGED <<cacheVars, revision>>
      /\ Continues(w, Reading(k, "rest", Rows(k)))
  BY <1>1 DEF ReadRows
<1>3. /\ k \in Asked /\ worker[w] # Resting /\ k.view # "course-detail"
      /\ k.view = "course-structure" => w \in overtaken \/ Published(k.course)
  BY <1>1, <1>2, ReadFields DEF HonestRead
<1>4. Fetched(k, Rows(k)) BY <1>3, RowsFetched
<1>5. PICK data : data = Rows(k) OBVIOUS
<1>6. DOMAIN data \subseteq Course BY <1>4, <1>5 DEF Fetched
<1> QED BY <1>2, <1>3, <1>4, <1>5, <1>6, ReadOn

LEMMA ReadsRest ==
    ASSUME CatalogInv, NEW w \in Worker, ReadRest(w)
    PROVE  CatalogInv'
<1>1. PICK k, old : k = worker[w].key /\ old = worker[w].data OBVIOUS
<1>2. /\ worker[w].op = "read" /\ worker[w].step = "rest" /\ UNCHANGED <<cacheVars, revision>>
      /\ Continues(w, Reading(k, "store", WithRest(k, old)))
  BY <1>1 DEF ReadRest
<1>3. /\ k \in Asked /\ worker[w] # Resting /\ Fetched(k, old)
      /\ w \in overtaken \/ old = Rows(k)
      /\ k.view = "course-structure" => w \in overtaken \/ Published(k.course)
  BY <1>1, <1>2, ReadFields DEF HonestRead
<1>4. PICK data : data = WithRest(k, old) OBVIOUS
<1>5. Whole(k, data) BY <1>3, <1>4, RestWhole DEF CatalogInv
<1>6. DOMAIN data \subseteq Course BY <1>5 DEF Whole, Fetched
<1>7. w \in overtaken \/ data = Answer(k) BY <1>3, <1>4 DEF Answer
<1> QED BY <1>2, <1>3, <1>4, <1>5, <1>6, <1>7, ReadOn
-----------------------------------------------------------------------------
(* Revisions *)

LEMMA RevisingFields ==
    ASSUME CatalogInv, NEW w \in Worker, worker[w].op = "revise"
    PROVE  /\ worker[w].course \in Course /\ worker[w].row \in CourseRow
           /\ worker[w].version \in Nat \cup {None} /\ worker[w].outline \in 0 .. MaxLessons \cup {None}
           /\ worker[w] # Resting /\ HonestRevision(worker[w], w \in overtaken)
<1>1. worker[w] \in RevisionState BY RequestFields DEF CatalogInv, CatalogTypes
<1>2. worker[w] # Resting BY DEF Resting
<1>3. HonestRevision(worker[w], w \in overtaken) BY DEF CatalogInv, Requests, Honest
<1> QED BY <1>1, <1>2, <1>3 DEF RevisionState

LEMMA ReviseOn ==
    ASSUME CatalogInv, NEW w \in Worker, NEW c \in Course, NEW row \in CourseRow,
           NEW version \in Nat \cup {None}, NEW drawn \in 0 .. MaxLessons \cup {None},
           Continues(w, Revising(c, row, version, drawn)),
           worker[w] # Resting \/ started < MaxStarted, worker[w].op # "invalidate",
           UNCHANGED <<cacheVars, revision>>,
           w \in overtaken \/ row = course[c],
           version # None => version \in 1 .. Cardinality(revision[c]) + 1,
           drawn # None => version # None /\ (w \in overtaken \/ drawn = outline[c])
    PROVE  CatalogInv'
<1>1. PICK m : m = Revising(c, row, version, drawn) OBVIOUS
<1>2. /\ m \in RevisionState /\ m.op = "revise" /\ m.course = c /\ m.row = row
      /\ m.version = version /\ m.outline = drawn
  BY <1>1 DEF Revising, RevisionState
<1>3. Honest(m, w \in overtaken)
  BY <1>2 DEF Honest, HonestRead, HonestRevision, HonestWrite
<1>4. Continues(w, m) /\ m.op # "term" BY <1>1, <1>2
<1>5. IsRequest(m) BY <1>2 DEF IsRequest
<1> QED BY <1>3, <1>4, <1>5, Unstored

\* The number after those of the revisions there are.
LEMMA NextNumber ==
    ASSUME CatalogInv, NEW c \in Course
    PROVE  NextVersion(c) = Cardinality(revision[c]) + 1 /\ Cardinality(revision[c]) \in Nat
<1>1. IsFiniteSet(revision[c]) /\ {r.version : r \in revision[c]} = 1 .. Cardinality(revision[c])
  BY DEF CatalogInv, Revisions
<1>2. PICK n \in Nat : n = Cardinality(revision[c]) BY <1>1, FS_CardinalityType
<1>3. Max(1 .. n \cup {0}) = n
  <2>1. n \in 1 .. n \cup {0} /\ \A i \in 1 .. n \cup {0} : n >= i OBVIOUS
  <2>2. \A m \in 1 .. n \cup {0} : (\A i \in 1 .. n \cup {0} : m >= i) => m = n BY <2>1
  <2> QED BY <2>1, <2>2 DEF Max
<1> QED BY <1>1, <1>2, <1>3 DEF NextVersion

LEMMA RevisionsBegin ==
    ASSUME CatalogInv, NEW w \in Worker,
           (\E c \in Course : LoadForRevision(w, c)) \/ NumberRevision(w) \/ TakeSnapshot(w)
    PROVE  CatalogInv'
<1>1. UNCHANGED <<cacheVars, revision>> BY DEF LoadForRevision, NumberRevision, TakeSnapshot
<1>2. ASSUME NEW c \in Course, LoadForRevision(w, c) PROVE CatalogInv'
  <2>1. MayBegin(w) /\ Live(c) /\ Continues(w, Revising(c, course[c], None, None))
    BY <1>2 DEF LoadForRevision
  <2>2. PICK row \in CourseRow : row = course[c]
    BY <2>1 DEF Live, CatalogInv, CatalogTypes, CachedTypeOK, CatalogTypeOK
  <2>3. started < MaxStarted /\ worker[w].op # "invalidate" BY <2>1 DEF MayBegin, Resting
  <2>4. Continues(w, Revising(c, row, None, None)) BY <2>1, <2>2
  <2> QED BY <1>1, <2>2, <2>3, <2>4, ReviseOn
<1>3. CASE NumberRevision(w)
  <2>1. PICK c, row : c = worker[w].course /\ row = worker[w].row OBVIOUS
  <2>2. /\ worker[w].op = "revise" /\ Continues(w, Revising(c, row, NextVersion(c), None))
    BY <1>3, <2>1 DEF NumberRevision
  <2>3. c \in Course /\ row \in CourseRow /\ worker[w] # Resting /\ (w \in overtaken \/ row = course[c])
    BY <2>1, <2>2, RevisingFields DEF HonestRevision
  <2>4. PICK version \in Nat : /\ version = NextVersion(c)
                               /\ version \in 1 .. Cardinality(revision[c]) + 1
    BY <2>3, NextNumber
  <2>5. Continues(w, Revising(c, row, version, None)) BY <2>2, <2>4
  <2> QED BY <1>1, <2>2, <2>3, <2>4, <2>5, ReviseOn
<1>4. CASE TakeSnapshot(w)
  <2>1. PICK c, row, version : c = worker[w].course /\ row = worker[w].row /\ version = worker[w].version
    OBVIOUS
  <2>2. /\ worker[w].op = "revise" /\ version # None
        /\ Continues(w, Revising(c, row, version, outline[c]))
    BY <1>4, <2>1 DEF TakeSnapshot
  <2>3. /\ c \in Course /\ row \in CourseRow /\ worker[w] # Resting /\ (w \in overtaken \/ row = course[c])
        /\ version \in Nat /\ version \in 1 .. Cardinality(revision[c]) + 1
    BY <2>1, <2>2, RevisingFields DEF HonestRevision
  <2>4. PICK drawn \in 0 .. MaxLessons : drawn = outline[c]
    BY <2>3 DEF CatalogInv, CatalogTypes, CachedTypeOK, CatalogTypeOK
  <2>5. Continues(w, Revising(c, row, version, drawn)) BY <2>2, <2>4
  <2> QED BY <1>1, <2>2, <2>3, <2>4, <2>5, ReviseOn
<1> QED BY <1>2, <1>3, <1>4

\* A number that is not taken is the next one.
LEMMA RevisionInserted ==
    ASSUME CatalogInv, NEW w \in Worker, InsertRevision(w)
    PROVE  CatalogInv'
<1>1. PICK c, new : c = worker[w].course /\ new = Recorded(worker[w]) OBVIOUS
<1>2. /\ worker[w].op = "revise" /\ worker[w].outline # None
      /\ \A r \in revision[c] : r.version # worker[w].version
      /\ revision' = [revision EXCEPT ![c] = @ \cup {new}]
      /\ Continues(w, Resting) /\ UNCHANGED <<entry, raced>>
  BY <1>1 DEF InsertRevision, cacheVars
<1>3. /\ c \in Course /\ worker[w].row \in CourseRow /\ worker[w].outline \in 0 .. MaxLessons
      /\ worker[w].version \in Nat /\ worker[w].version \in 1 .. Cardinality(revision[c]) + 1
      /\ worker[w] # Resting
  BY <1>1, <1>2, RevisingFields DEF HonestRevision
<1>4. new \in CourseRevision /\ new.version = worker[w].version
  BY <1>1, <1>3 DEF Recorded, CourseRevision
<1>5. revision \in [Course -> SUBSET CourseRevision]
  BY DEF CatalogInv, CatalogTypes, CachedTypeOK
<1>6. /\ revision'[c] = revision[c] \cup {new}
      /\ \A d \in Course : d # c => revision'[d] = revision[d]
  BY <1>2, <1>3, <1>5
<1>7. PICK n \in Nat : /\ n = Cardinality(revision[c]) /\ IsFiniteSet(revision[c])
                       /\ {r.version : r \in revision[c]} = 1 .. n
  BY <1>3, FS_CardinalityType DEF CatalogInv, Revisions
<1>8. new.version = n + 1 /\ new \notin revision[c]
  <2>1. \A i \in 1 .. n : \E r \in revision[c] : r.version = i BY <1>7
  <2> QED BY <1>2, <1>3, <1>4, <1>7, <2>1
<1>9. IsFiniteSet(revision'[c]) /\ Cardinality(revision'[c]) = n + 1
  BY <1>6, <1>7, <1>8, FS_AddElement
<1>10. Revisions'
  <2>1. {r.version : r \in revision'[c]} = 1 .. n + 1
    <3>1. {r.version : r \in revision'[c]} = 1 .. n \cup {n + 1} BY <1>6, <1>7, <1>8
    <3> QED BY <3>1
  <2>2. \A d \in Course : d # c => /\ IsFiniteSet(revision'[d])
                                   /\ {r.version : r \in revision'[d]} = 1 .. Cardinality(revision'[d])
    BY <1>6 DEF CatalogInv, Revisions
  <2> QED BY <1>9, <2>1, <2>2 DEF Revisions
<1>11. IsRequest(Resting) BY ManagerRequests DEF IsRequest
<1>12. /\ worker' = [worker EXCEPT ![w] = Resting] /\ UNCHANGED <<tables, moved>>
       /\ started' \in 0 .. MaxStarted + 1 /\ overtaken' \subseteq Worker
       /\ \A v \in Worker : v # w => (v \in overtaken' <=> v \in overtaken)
  BY <1>2, <1>3, <1>11, Continued DEF CatalogInv
<1>13. CatalogTypes'
  <2>1. revision' \in [Course -> SUBSET CourseRevision] BY <1>2, <1>3, <1>4, <1>5
  <2>2. DOMAIN entry' = Asked /\ raced' \subseteq Asked
    BY <1>2 DEF CatalogInv, CatalogTypes, CachedTypeOK
  <2> QED BY <1>11, <1>12, <2>1, <2>2, QuietTypes DEF CatalogInv
<1>14. Entries' BY <1>2, <1>12, QuietEntries DEF CatalogInv
<1>15. Linked' /\ Scoped'
  <2>1. Resting.op # "term" BY DEF Resting
  <2> QED BY <1>12, <2>1, QuietTables DEF CatalogInv
<1>16. Requests'
  <2> SUFFICES ASSUME NEW v \in Worker PROVE Honest(worker[v], v \in overtaken)'
    BY DEF Requests
  <2>1. /\ worker'[w] = Resting /\ \A u \in Worker : u # w => worker'[u] = worker[u]
    BY <1>12, Moved DEF CatalogInv, CatalogTypes
  <2>2. CASE v = w
    BY <2>1, <2>2 DEF Honest, HonestRead, HonestRevision, HonestWrite, Resting
  <2>3. CASE v # w
    <3>1. PICK m : m = worker[v] /\ m = worker'[v] /\ Honest(m, v \in overtaken)
                   /\ (v \in overtaken' <=> v \in overtaken)
      BY <1>12, <2>1, <2>3 DEF CatalogInv, Requests
    <3>2. m.op = "revise" => m.course \in Course BY <3>1, RevisingFields
    <3>3. \A d \in Course : /\ Cardinality(revision[d]) \in Nat
                            /\ Cardinality(revision'[d]) \in Nat
                            /\ Cardinality(revision'[d]) >= Cardinality(revision[d])
      <4>1. \A d \in Course : Cardinality(revision[d]) \in Nat BY NextNumber
      <4>2. \A d \in Course : d # c => Cardinality(revision'[d]) = Cardinality(revision[d])
        BY <1>6
      <4> QED BY <1>7, <1>9, <4>1, <4>2
    <3>4. HonestRead(worker[v], v \in overtaken)'
      <4>1. \A k : Rows(k)' = Rows(k) /\ Answer(k)' = Answer(k)
        BY <1>12 DEF Answer, WithRest, Rows, ShownBy, Published, Structure, Metadata, tables
      <4> QED BY <1>12, <3>1, <4>1 DEF Honest, HonestRead, Fetched, Whole, Published, tables
    <3>5. HonestRevision(worker[v], v \in overtaken)'
      BY <1>12, <3>1, <3>2, <3>3 DEF Honest, HonestRevision, tables
    <3>6. HonestWrite(worker[v], v \in overtaken)'
      BY <1>12, <3>1 DEF Honest, HonestWrite, Exists, tables
    <3> QED BY <3>4, <3>5, <3>6 DEF Honest
  <2> QED BY <2>2, <2>3
<1> QED BY <1>10, <1>13, <1>14, <1>15, <1>16 DEF CatalogInv
-----------------------------------------------------------------------------
(* Steps that write Redis *)

\* All but the entries is kept by a step that writes no table and no revision.
LEMMA Recached ==
    ASSUME CatalogInv, NEW w \in Worker, NEW m, IsRequest(m), m.op \in {"resting", "invalidate"},
           Continues(w, m), worker[w] # Resting, DOMAIN entry' = Asked, raced' \subseteq Asked,
           revision' = revision, Entries'
    PROVE  CatalogInv'
<1>1. /\ worker' = [worker EXCEPT ![w] = m] /\ UNCHANGED <<tables, moved, revision>>
      /\ started' \in 0 .. MaxStarted + 1 /\ overtaken' \subseteq Worker
      /\ \A v \in Worker : v # w => (v \in overtaken' <=> v \in overtaken)
  BY Continued DEF CatalogInv
<1>2. CatalogTypes'
  <2>1. revision' \in [Course -> SUBSET CourseRevision]
    BY DEF CatalogInv, CatalogTypes, CachedTypeOK
  <2> QED BY <1>1, <2>1, QuietTypes DEF CatalogInv
<1>3. Requests'
  <2>1. Honest(m, w \in overtaken') BY DEF Honest, HonestRead, HonestRevision, HonestWrite
  <2> QED BY <1>1, <2>1, QuietRequests DEF CatalogInv
<1>4. Revisions' BY <1>1 DEF CatalogInv, Revisions
<1>5. Linked' /\ Scoped'
  <2>1. m.op # "term" OBVIOUS
  <2> QED BY <1>1, <2>1, QuietTables DEF CatalogInv
<1> QED BY <1>2, <1>3, <1>4, <1>5 DEF CatalogInv

\* What an entry says does not change while no table does.
LEMMA Kept ==
    ASSUME UNCHANGED tables
    PROVE  \A k : Answer(k)' = Answer(k) /\ (Published(k.course)' <=> Published(k.course))
BY DEF Answer, WithRest, Rows, ShownBy, Published, Structure, Metadata, tables

LEMMA RequestOps ==
    /\ IsRequest(Resting) /\ Resting.op = "resting"
    /\ \A left \in SUBSET Asked : LET m == [op |-> "invalidate", left |-> left]
                                  IN  IsRequest(m) /\ m.op = "invalidate" /\ m.left = left
BY ManagerRequests DEF IsRequest, Resting, Invalidation

LEMMA EntryStored ==
    ASSUME CatalogInv, NEW w \in Worker, StoreEntry(w)
    PROVE  CatalogInv'
<1>1. PICK k, data : k = worker[w].key /\ data = worker[w].data OBVIOUS
<1>2. /\ worker[w].op = "read" /\ worker[w].step = "store" /\ entry' = [entry EXCEPT ![k] = data]
      /\ raced' = IF w \in overtaken THEN raced \cup {k} ELSE raced \ {k}
      /\ Continues(w, Resting) /\ revision' = revision
  BY <1>1 DEF StoreEntry
<1>3. /\ k \in Asked /\ worker[w] # Resting /\ Whole(k, data)
      /\ w \in overtaken \/ data = Answer(k)
      /\ k.view = "course-structure" => w \in overtaken \/ Published(k.course)
  BY <1>1, <1>2, ReadFields DEF HonestRead
<1>4. DOMAIN entry = Asked /\ raced \subseteq Asked
  BY DEF CatalogInv, CatalogTypes, CachedTypeOK
<1>5. entry'[k] = data /\ \A j \in Asked : j # k => entry'[j] = entry[j] BY <1>2, <1>3, <1>4
<1>6. worker' = [worker EXCEPT ![w] = Resting] /\ UNCHANGED tables
  BY <1>2 DEF Continues, Moves
<1>7. \A j \in Asked : Pending(j) => Pending(j)'
  BY <1>2, <1>6, Moved DEF Pending, CatalogInv, CatalogTypes
<1>8. Entries'
  <2> SUFFICES ASSUME NEW j \in Asked, entry'[j] # None
               PROVE  /\ Whole(j, entry[j])'
                      /\ j \in raced' \/ Pending(j)' \/
                            /\ (entry[j] = Answer(j))'
                            /\ j.view = "course-structure" => Published(j.course)'
    BY DEF Entries
  <2>1. CASE j = k BY <1>2, <1>3, <1>5, <1>6, <2>1, Kept DEF Whole, Fetched
  <2>2. CASE j # k
    <3>1. /\ Whole(j, entry[j])
          /\ j \in raced \/ Pending(j) \/
                /\ entry[j] = Answer(j)
                /\ j.view = "course-structure" => Published(j.course)
      BY <1>5, <2>2 DEF CatalogInv, Entries
    <3> QED BY <1>2, <1>5, <1>6, <1>7, <2>2, <3>1, Kept DEF Whole, Fetched
  <2> QED BY <2>1, <2>2
<1>9. DOMAIN entry' = Asked /\ raced' \subseteq Asked BY <1>2, <1>3, <1>4
<1> QED BY <1>2, <1>3, <1>8, <1>9, RequestOps, Recached

LEMMA EntryDeleted ==
    ASSUME CatalogInv, NEW w \in Worker, Invalidate(w)
    PROVE  CatalogInv'
<1>1. PICK k \in worker[w].left :
          /\ entry' = [entry EXCEPT ![k] = None] /\ raced' = raced \ {k}
          /\ LET left == worker[w].left \ {k} IN
             Continues(w, IF left = {} THEN Resting ELSE [op |-> "invalidate", left |-> left])
  BY DEF Invalidate
<1>2. worker[w].op = "invalidate" /\ revision' = revision BY DEF Invalidate
<1>3. worker[w].left \in SUBSET Asked /\ worker[w] # Resting
  <2>1. worker[w] \in Invalidation
    BY <1>2, RequestFields, ManagerFields DEF CatalogInv, CatalogTypes, CatalogOp
  <2> QED BY <1>2, <2>1 DEF Invalidation, Resting
<1>4. PICK left, m : /\ left = worker[w].left \ {k} /\ Continues(w, m)
                     /\ m = IF left = {} THEN Resting ELSE [op |-> "invalidate", left |-> left]
  BY <1>1
<1>5. /\ IsRequest(m) /\ m.op \in {"resting", "invalidate"}
      /\ left # {} => m.op = "invalidate" /\ m.left = left
  BY <1>3, <1>4, RequestOps
<1>6. DOMAIN entry = Asked /\ raced \subseteq Asked
  BY DEF CatalogInv, CatalogTypes, CachedTypeOK
<1>7. entry'[k] = None /\ \A j \in Asked : j # k => entry'[j] = entry[j] BY <1>1, <1>3, <1>6
<1>8. worker' = [worker EXCEPT ![w] = m] /\ UNCHANGED tables
  BY <1>4 DEF Continues, Moves
<1>9. \A j \in Asked : j # k /\ Pending(j) => Pending(j)'
  BY <1>4, <1>5, <1>8, Moved DEF Pending, CatalogInv, CatalogTypes
<1>10. Entries'
  <2> SUFFICES ASSUME NEW j \in Asked, entry'[j] # None
               PROVE  /\ Whole(j, entry[j])'
                      /\ j \in raced' \/ Pending(j)' \/
                            /\ (entry[j] = Answer(j))'
                            /\ j.view = "course-structure" => Published(j.course)'
    BY DEF Entries
  <2>1. j # k BY <1>7
  <2>2. /\ Whole(j, entry[j])
        /\ j \in raced \/ Pending(j) \/
              /\ entry[j] = Answer(j)
              /\ j.view = "course-structure" => Published(j.course)
    BY <1>7, <2>1 DEF CatalogInv, Entries
  <2> QED BY <1>1, <1>7, <1>8, <1>9, <2>1, <2>2, Kept DEF Whole, Fetched
<1>11. DOMAIN entry' = Asked /\ raced' \subseteq Asked BY <1>1, <1>6
<1> QED BY <1>2, <1>3, <1>4, <1>5, <1>10, <1>11, Recached

LEMMA Stopped ==
    ASSUME CatalogInv, NEW w \in Worker, Stop(w)
    PROVE  CatalogInv'
<1>1. /\ Loaded(w) \/ worker[w].op = "invalidate"
      /\ raced' = IF worker[w].op = "invalidate"
                  THEN raced \cup {k \in worker[w].left : entry[k] # None} ELSE raced
      /\ Continues(w, Resting) /\ UNCHANGED <<entry, revision>>
  BY DEF Stop
<1>2. worker[w] # Resting BY <1>1 DEF Loaded, Resting
<1>3. worker[w].op = "invalidate" => worker[w].left \in SUBSET Asked
  BY RequestFields, ManagerFields DEF CatalogInv, CatalogTypes, CatalogOp, Invalidation
<1>4. DOMAIN entry' = Asked /\ raced' \subseteq Asked
  BY <1>1, <1>3 DEF CatalogInv, CatalogTypes, CachedTypeOK
<1>5. worker' = [worker EXCEPT ![w] = Resting] /\ UNCHANGED tables
  BY <1>1 DEF Continues, Moves
<1>6. \A k \in Asked : entry[k] # None /\ Pending(k) => Pending(k)' \/ k \in raced'
  BY <1>1, <1>5, Moved DEF Pending, CatalogInv, CatalogTypes
<1>7. Entries'
  <2> SUFFICES ASSUME NEW k \in Asked, entry'[k] # None
               PROVE  /\ Whole(k, entry[k])'
                      /\ k \in raced' \/ Pending(k)' \/
                            /\ (entry[k] = Answer(k))'
                            /\ k.view = "course-structure" => Published(k.course)'
    BY DEF Entries
  <2>1. /\ Whole(k, entry[k])
        /\ k \in raced \/ Pending(k) \/
              /\ entry[k] = Answer(k)
              /\ k.view = "course-structure" => Published(k.course)
    BY <1>1 DEF CatalogInv, Entries
  <2>2. k \in raced => k \in raced' BY <1>1
  <2> QED BY <1>1, <1>5, <1>6, <2>1, <2>2, Kept DEF Whole, Fetched
<1> QED BY <1>1, <1>2, <1>4, <1>7, RequestOps, Recached

LEMMA Expired ==
    ASSUME CatalogInv, NEW k \in Asked, Expire(k)
    PROVE  CatalogInv'
<1>1. /\ entry' = [entry EXCEPT ![k] = None] /\ raced' = raced \ {k}
      /\ UNCHANGED <<catalogVars, revision>>
  BY DEF Expire
<1>2. UNCHANGED <<tables, worker, started, overtaken, moved>> BY <1>1 DEF catalogVars
<1>3. DOMAIN entry = Asked /\ raced \subseteq Asked
  BY DEF CatalogInv, CatalogTypes, CachedTypeOK
<1>4. entry'[k] = None /\ \A j \in Asked : j # k => entry'[j] = entry[j] BY <1>1, <1>3
<1>5. CatalogTypes'
  <2>1. CatalogTypeOK' BY <1>2 DEF CatalogInv, CatalogTypes, CachedTypeOK, CatalogTypeOK, tables, Exists
  <2> QED BY <1>1, <1>2, <1>3, <2>1 DEF CatalogInv, CatalogTypes, CachedTypeOK, IsRequest
<1>6. Requests'
  <2> SUFFICES ASSUME NEW v \in Worker PROVE Honest(worker[v], v \in overtaken)'
    BY DEF Requests
  <2>1. PICK m : m = worker[v] /\ m = worker'[v] /\ Honest(m, v \in overtaken)
    BY <1>2 DEF CatalogInv, Requests
  <2>2. HonestRead(worker[v], v \in overtaken)'
    <3>1. \A j : Rows(j)' = Rows(j) /\ Answer(j)' = Answer(j)
      BY <1>2 DEF Answer, WithRest, Rows, ShownBy, Published, Structure, Metadata, tables
    <3> QED BY <1>2, <2>1, <3>1 DEF Honest, HonestRead, Fetched, Whole, Published, tables
  <2>3. HonestRevision(worker[v], v \in overtaken)'
    BY <1>1, <1>2, <2>1 DEF Honest, HonestRevision, tables
  <2>4. HonestWrite(worker[v], v \in overtaken)'
    BY <1>2, <2>1 DEF Honest, HonestWrite, Exists, tables
  <2> QED BY <2>2, <2>3, <2>4 DEF Honest
<1>7. Entries'
  <2> SUFFICES ASSUME NEW j \in Asked, entry'[j] # None
               PROVE  /\ Whole(j, entry[j])'
                      /\ j \in raced' \/ Pending(j)' \/
                            /\ (entry[j] = Answer(j))'
                            /\ j.view = "course-structure" => Published(j.course)'
    BY DEF Entries
  <2>1. j # k BY <1>4
  <2>2. /\ Whole(j, entry[j])
        /\ j \in raced \/ Pending(j) \/
              /\ entry[j] = Answer(j)
              /\ j.view = "course-structure" => Published(j.course)
    BY <1>4, <2>1 DEF CatalogInv, Entries
  <2>3. Pending(j) => Pending(j)' BY <1>2 DEF Pending
  <2> QED BY <1>1, <1>2, <1>4, <2>1, <2>2, <2>3, Kept DEF Whole, Fetched
<1>8. Revisions' BY <1>1 DEF CatalogInv, Revisions
<1>9. Linked' BY <1>2 DEF CatalogInv, Linked, tables
<1>10. PICK scope \in [Term -> Scope] : ScopedBy(scope) BY DEF CatalogInv, Scoped
<1>11. ScopedBy(scope)' BY <1>2, <1>10 DEF ScopedBy, Exists, tables
<1> QED BY <1>5, <1>6, <1>7, <1>8, <1>9, <1>11 DEF CatalogInv, Scoped

\* Every step of the catalog preserves its invariant.
LEMMA CatalogSteps ==
    ASSUME CatalogInv, CachedNext
    PROVE  CatalogInv'
<1>1. ASSUME NEW w \in Worker, ManagerNext(w), UNCHANGED <<cacheVars, revision>>
      PROVE  CatalogInv'
  BY <1>1, CourseActions, TermActions DEF ManagerNext
<1>2. ASSUME NEW w \in Worker, ReaderNext(w) PROVE CatalogInv'
  BY <1>2, Asks, ReadsRows, ReadsRest, EntryStored, EntryDeleted, Stopped, RevisionsBegin,
     RevisionInserted DEF ReaderNext
<1> QED BY <1>1, <1>2, Expired DEF CachedNext
-----------------------------------------------------------------------------
(* What the steps of the student leave of the catalog *)

\* Requests on progress write nothing that the catalog has.
LEMMA Proceeding ==
    ASSUME CatalogInv, NEW w \in Worker, NEW m \in StudyState \cup {Resting}, Proceeds(w, m),
           UNCHANGED <<cacheVars, revision>>, MayBegin(w) \/ Studying(w)
    PROVE  /\ CatalogInv'
           /\ worker'[w] = m /\ \A v \in Worker : v # w => worker'[v] = worker[v]
           /\ UNCHANGED <<course, outline>>
<1>1. /\ worker' = [worker EXCEPT ![w] = m]
      /\ started' = IF worker[w] = Resting THEN started + 2 ELSE started
      /\ UNCHANGED <<tables, moved, overtaken>>
  BY DEF Proceeds
<1>2. IsRequest(m) /\ m.op \in StudyOp \cup {"resting"}
  BY StudyFields, RequestOps DEF IsRequest
<1>3. worker[w].op # "invalidate" /\ (worker[w] = Resting => started < MaxStarted)
  BY StudyFields, RequestOps DEF StudyOp, Studying, MayBegin
<1>4. started' \in 0 .. MaxStarted + 1 /\ overtaken' \subseteq Worker
  <2>1. MaxStarted \in Nat /\ started \in 0 .. MaxStarted + 1 /\ overtaken \subseteq Worker
    BY CatalogAssumption DEF CatalogInv, CatalogTypes, CachedTypeOK, CatalogTypeOK
  <2> QED BY <1>1, <1>3, <2>1
<1>5. Honest(m, w \in overtaken')
  BY <1>2 DEF Honest, HonestRead, HonestRevision, HonestWrite, StudyOp
<1>6. UNCHANGED <<tables, moved, entry, raced, revision>> BY <1>1 DEF cacheVars
<1>7. CatalogInv'
  <2>1. m.op # "term" BY <1>2 DEF StudyOp
  <2>2. \A v \in Worker : v # w => (v \in overtaken' <=> v \in overtaken) BY <1>1
  <2> QED BY <1>1, <1>2, <1>3, <1>4, <1>5, <1>6, <2>1, <2>2, Quiet
<1>8. worker'[w] = m /\ \A v \in Worker : v # w => worker'[v] = worker[v]
  BY <1>1, Moved DEF CatalogInv, CatalogTypes
<1> QED BY <1>1, <1>7, <1>8 DEF tables

LEMMA Looking ==
    ASSUME CatalogInv, UNCHANGED cachedVars
    PROVE  CatalogInv'
<1>1. UNCHANGED <<tables, worker, started, overtaken, moved, entry, raced, revision>>
  BY DEF cachedVars, catalogVars, cacheVars
<1>2. CatalogTypes'
  <2>1. CatalogTypeOK' BY <1>1 DEF CatalogInv, CatalogTypes, CachedTypeOK, CatalogTypeOK, tables, Exists
  <2> QED BY <1>1, <2>1 DEF CatalogInv, CatalogTypes, CachedTypeOK, IsRequest
<1>3. Requests'
  <2> SUFFICES ASSUME NEW v \in Worker PROVE Honest(worker[v], v \in overtaken)'
    BY DEF Requests
  <2>1. PICK m : m = worker[v] /\ m = worker'[v] /\ Honest(m, v \in overtaken)
    BY <1>1 DEF CatalogInv, Requests
  <2>2. HonestRead(worker[v], v \in overtaken)'
    <3>1. \A j : Rows(j)' = Rows(j) /\ Answer(j)' = Answer(j)
      BY <1>1 DEF Answer, WithRest, Rows, ShownBy, Published, Structure, Metadata, tables
    <3> QED BY <1>1, <2>1, <3>1 DEF Honest, HonestRead, Fetched, Whole, Published, tables
  <2>3. HonestRevision(worker[v], v \in overtaken)'
    BY <1>1, <2>1 DEF Honest, HonestRevision, tables
  <2>4. HonestWrite(worker[v], v \in overtaken)'
    BY <1>1, <2>1 DEF Honest, HonestWrite, Exists, tables
  <2> QED BY <2>2, <2>3, <2>4 DEF Honest
<1>4. Entries'
  <2> SUFFICES ASSUME NEW j \in Asked, entry[j] # None
               PROVE  /\ Whole(j, entry[j])'
                      /\ j \in raced \/ Pending(j)' \/
                            /\ (entry[j] = Answer(j))'
                            /\ j.view = "course-structure" => Published(j.course)'
    BY <1>1 DEF Entries
  <2>1. /\ Whole(j, entry[j])
        /\ j \in raced \/ Pending(j) \/
              /\ entry[j] = Answer(j)
              /\ j.view = "course-structure" => Published(j.course)
    BY DEF CatalogInv, Entries
  <2>2. Pending(j) => Pending(j)' BY <1>1 DEF Pending
  <2> QED BY <1>1, <2>1, <2>2, Kept DEF Whole, Fetched
<1>5. Revisions' BY <1>1 DEF CatalogInv, Revisions
<1>6. Linked' BY <1>1 DEF CatalogInv, Linked, tables
<1>7. PICK scope \in [Term -> Scope] : ScopedBy(scope) BY DEF CatalogInv, Scoped
<1>8. ScopedBy(scope)' BY <1>1, <1>7 DEF ScopedBy, Exists, tables
<1> QED BY <1>2, <1>3, <1>4, <1>5, <1>6, <1>8 DEF CatalogInv, Scoped

\* The steps of the catalog are those of requests of the catalog.
CatalogStep(w) ==
    worker[w].op \in CatalogOp /\ \E m : m.op \in CatalogOp /\ worker' = [worker EXCEPT ![w] = m]

LEMMA CommitSteps ==
    ASSUME NEW w \in Worker, Commits(w), worker[w].op \in CatalogOp
    PROVE  CatalogStep(w)
<1>1. PICK m : m = [op |-> "invalidate", left |-> Asked] OBVIOUS
<1>2. m.op \in CatalogOp BY <1>1 DEF CatalogOp
<1>3. worker' = [worker EXCEPT ![w] = m] BY <1>1 DEF Commits, Moves
<1> QED BY <1>2, <1>3 DEF CatalogStep

LEMMA ContinueSteps ==
    ASSUME NEW w \in Worker, NEW m, Continues(w, m), m.op \in CatalogOp, worker[w].op \in CatalogOp
    PROVE  CatalogStep(w)
BY DEF Continues, Moves, CatalogStep

LEMMA ManagerSteps ==
    ASSUME NEW w \in Worker, ManagerNext(w)
    PROVE  CatalogStep(w)
<1>1. Resting.op \in CatalogOp BY RequestOps DEF CatalogOp
<1>2. MayBegin(w) => worker[w].op \in CatalogOp BY <1>1 DEF MayBegin
<1>3. ASSUME NEW c \in Course, NEW change \in Change, CreateCourse(w, c, change)
      PROVE  CatalogStep(w)
  BY <1>2, <1>3, CommitSteps DEF CreateCourse
<1>4. ASSUME NEW c \in Course, NEW change \in Change, LoadForUpdate(w, c, change)
      PROVE  CatalogStep(w)
  <2>1. PICK m : /\ Continues(w, m)
                 /\ m = [op |-> "update", course |-> c, row |-> Merged(course[c], change),
                         change |-> change]
    BY <1>4 DEF LoadForUpdate
  <2>2. m.op \in CatalogOp BY <2>1 DEF CatalogOp
  <2>3. MayBegin(w) BY <1>4 DEF LoadForUpdate
  <2> QED BY <1>2, <2>1, <2>2, <2>3, ContinueSteps
<1>5. ASSUME NEW c \in Course, NEW op \in {"publish", "archive", "delete"}, LoadForStatus(w, c, op)
      PROVE  CatalogStep(w)
  <2>1. PICK m : Continues(w, m) /\ m = [op |-> op, course |-> c] BY <1>5 DEF LoadForStatus
  <2>2. m.op \in CatalogOp BY <2>1 DEF CatalogOp
  <2>3. MayBegin(w) BY <1>5 DEF LoadForStatus
  <2> QED BY <1>2, <2>1, <2>2, <2>3, ContinueSteps
<1>6. ASSUME NEW c \in Course, Restructure(w, c) PROVE CatalogStep(w)
  BY <1>2, <1>6, CommitSteps DEF Restructure
<1>7. CASE SaveCourse(w)
  <2>1. worker[w].op \in CatalogOp /\ Commits(w) BY <1>7 DEF SaveCourse, CatalogOp
  <2> QED BY <2>1, CommitSteps
<1>8. CASE PublishCourse(w) \/ ArchiveCourse(w) \/ DeleteCourse(w)
  <2>1. worker[w].op \in CatalogOp /\ Commits(w)
    BY <1>8 DEF PublishCourse, ArchiveCourse, DeleteCourse, Writes, CatalogOp
  <2> QED BY <2>1, CommitSteps
<1>9. ASSUME NEW t \in Term, NEW m, Continues(w, m), MayChangeTerm(w, t), m.op = "term"
      PROVE  CatalogStep(w)
  <2>1. m.op \in CatalogOp BY <1>9 DEF CatalogOp
  <2>2. Continues(w, m) /\ MayBegin(w) BY <1>9 DEF MayChangeTerm
  <2> QED BY <1>2, <2>1, <2>2, ContinueSteps
<1>10. ASSUME NEW t \in Term, NEW change \in TermChange, LoadCategory(w, t, change)
       PROVE  CatalogStep(w)
  BY <1>9, <1>10 DEF LoadCategory
<1>11. ASSUME NEW t \in Term, NEW slug \in TagSlug, LoadTag(w, t, slug) PROVE CatalogStep(w)
  BY <1>9, <1>11 DEF LoadTag
<1>12. ASSUME NEW t \in Term, NEW change \in TermChange, NEW scope \in Scope,
              CreateCategory(w, t, scope, change)
       PROVE  CatalogStep(w)
  BY <1>2, <1>12, CommitSteps DEF CreateCategory, MayCreateTerm, StoresAtOnce
<1>13. ASSUME NEW t \in Term, NEW slug \in TagSlug, NEW scope \in Scope, CreateTag(w, t, scope, slug)
       PROVE  CatalogStep(w)
  BY <1>2, <1>13, CommitSteps DEF CreateTag, MayCreateTerm, StoresAtOnce
<1>14. ASSUME NEW t \in Term, DeleteTerm(w, t) PROVE CatalogStep(w)
  BY <1>2, <1>14, CommitSteps DEF DeleteTerm, MayChangeTerm
<1>15. CASE SaveTerm(w)
  <2>1. worker[w].op \in CatalogOp /\ Commits(w) BY <1>15 DEF SaveTerm, StoresAtOnce, CatalogOp
  <2> QED BY <2>1, CommitSteps
<1> QED BY <1>3, <1>4, <1>5, <1>6, <1>7, <1>8, <1>10, <1>11, <1>12, <1>13, <1>14, <1>15
        DEF ManagerNext

LEMMA ReaderSteps ==
    ASSUME NEW w \in Worker, ReaderNext(w)
    PROVE  CatalogStep(w)
<1>1. Resting.op \in CatalogOp BY RequestOps DEF CatalogOp
<1>2. MayBegin(w) => worker[w].op \in CatalogOp BY <1>1 DEF MayBegin
<1>3. ASSUME NEW k, NEW step, NEW data, Continues(w, Reading(k, step, data)), worker[w].op \in CatalogOp
      PROVE  CatalogStep(w)
  <2>1. PICK m : m = Reading(k, step, data) OBVIOUS
  <2>2. m.op \in CatalogOp BY <2>1 DEF Reading, CatalogOp
  <2> QED BY <1>3, <2>1, <2>2, ContinueSteps
<1>4. ASSUME NEW c, NEW row, NEW version, NEW drawn, Continues(w, Revising(c, row, version, drawn)),
             worker[w].op \in CatalogOp
      PROVE  CatalogStep(w)
  <2>1. PICK m : m = Revising(c, row, version, drawn) OBVIOUS
  <2>2. m.op \in CatalogOp BY <2>1 DEF Revising, CatalogOp
  <2> QED BY <1>4, <2>1, <2>2, ContinueSteps
<1>5. ASSUME NEW k \in Asked, AskList(w, k) \/ AskDetail(w, k) \/ AskStructure(w, k)
      PROVE  CatalogStep(w)
  BY <1>2, <1>3, <1>5 DEF AskList, AskDetail, AskStructure
<1>6. CASE ReadRows(w) \/ ReadRest(w)
  <2>1. worker[w].op \in CatalogOp BY <1>6 DEF ReadRows, ReadRest, CatalogOp
  <2> QED BY <1>3, <1>6, <2>1 DEF ReadRows, ReadRest
<1>7. CASE StoreEntry(w) \/ Stop(w) \/ InsertRevision(w)
  <2>1. worker[w].op \in CatalogOp BY <1>7 DEF StoreEntry, Stop, Loaded, InsertRevision, CatalogOp
  <2> QED BY <1>1, <1>7, <2>1, ContinueSteps DEF StoreEntry, Stop, InsertRevision
<1>8. CASE Invalidate(w)
  <2>1. worker[w].op \in CatalogOp BY <1>8 DEF Invalidate, CatalogOp
  <2>2. PICK left : Continues(w, IF left = {} THEN Resting ELSE [op |-> "invalidate", left |-> left])
    BY <1>8 DEF Invalidate
  <2>3. PICK m : m = IF left = {} THEN Resting ELSE [op |-> "invalidate", left |-> left] OBVIOUS
  <2>4. m.op \in CatalogOp BY <1>1, <2>3 DEF CatalogOp
  <2>5. Continues(w, m) BY <2>2, <2>3
  <2> QED BY <2>1, <2>4, <2>5, ContinueSteps
<1>9. ASSUME NEW c \in Course, LoadForRevision(w, c) PROVE CatalogStep(w)
  BY <1>2, <1>4, <1>9 DEF LoadForRevision
<1>10. CASE NumberRevision(w) \/ TakeSnapshot(w)
  <2>1. worker[w].op \in CatalogOp BY <1>10 DEF NumberRevision, TakeSnapshot, CatalogOp
  <2> QED BY <1>4, <1>10, <2>1 DEF NumberRevision, TakeSnapshot
<1> QED BY <1>5, <1>6, <1>7, <1>8, <1>9, <1>10 DEF ReaderNext

LEMMA CatalogMoves ==
    ASSUME CatalogInv, CachedNext
    PROVE  \A v \in Worker :
               worker'[v] = worker[v] \/ (worker[v].op \in CatalogOp /\ worker'[v].op \in CatalogOp)
<1>1. ASSUME NEW w \in Worker, CatalogStep(w)
      PROVE  \A v \in Worker :
                 worker'[v] = worker[v] \/ (worker[v].op \in CatalogOp /\ worker'[v].op \in CatalogOp)
  <2>1. PICK m : m.op \in CatalogOp /\ worker' = [worker EXCEPT ![w] = m] BY <1>1 DEF CatalogStep
  <2>2. DOMAIN worker = Worker BY DEF CatalogInv, CatalogTypes
  <2>3. worker'[w] = m /\ \A v \in Worker : v # w => worker'[v] = worker[v] BY <2>1, <2>2, Moved
  <2> QED BY <1>1, <2>1, <2>3 DEF CatalogStep
<1>2. ASSUME NEW k \in Asked, Expire(k) PROVE worker' = worker
  BY <1>2 DEF Expire, catalogVars
<1> QED BY <1>1, <1>2, ManagerSteps, ReaderSteps DEF CachedNext
-----------------------------------------------------------------------------
(* Rows that are got *)

\* The rows of the student are there once they are got, and stay as they are.
Kindly ==
    /\ \A l \in Lesson : lesson[l] # None => lesson'[l] = lesson[l]
    /\ video # None => video' = video
    /\ \A a \in Assessment : assessment[a] # None => assessment'[a] = assessment[a]
    /\ CompletedLessons' = CompletedLessons /\ CompletedAssessments' = CompletedAssessments

\* What a request has read stays right while rows are only got.
LEMMA StillSound ==
    ASSUME NEW m, NEW late, m \in StudyState => Sound(m, late), IsRequest(m), Kindly,
           summary # None => summary' # None
    PROVE  Sound(m, late)'
<1>1. CASE m \in StudyState
  <2>1. /\ m.op = "lesson" => m.lesson \in Lesson
        /\ m.op = "assessment" => m.assessment \in Assessment
    BY <1>1, StudyFields DEF OfLesson, OfAssessment
  <2>2. SoundCopy(m, late)' BY <1>1, <2>1 DEF Sound, SoundCopy, Kindly
  <2>3. SoundCount(m, late)' BY <1>1 DEF Sound, SoundCount, Kindly
  <2> QED BY <2>2, <2>3 DEF Sound
<1>2. CASE m \notin StudyState
  <2>1. m.op \notin StudyOp BY <1>2, RequestFields
  <2> QED BY <2>1 DEF Sound, SoundCopy, SoundCount, StudyOp
<1> QED BY <1>1, <1>2

\* A request that starts or goes on, and saves nothing.
LEMMA ReadStep ==
    ASSUME CatalogInv, StudyInv, NEW w \in Worker, NEW m \in StudyState, Reads(w, m),
           UNCHANGED <<cacheVars, revision, seen, current>>,
           MayBegin(w) \/ Studying(w), worker[w].op # "announce",
           worker[w].op \in {"lessons", "assessments", "summary", "save"} =>
               m.op \in {"lessons", "assessments", "summary", "save"},
           StudyTypes', Kindly, Sound(m, w \in outrun)',
           summary' = summary \/ (summary = None /\ summary' = NewSummary /\ m.op = "save")
    PROVE  CatalogInv' /\ StudyInv'
<1>1. /\ CatalogInv' /\ UNCHANGED <<course, outline>>
      /\ worker'[w] = m /\ \A v \in Worker : v # w => worker'[v] = worker[v]
      /\ UNCHANGED <<outrun, unsure, told, muddled, trusted, seen, current>>
  BY Proceeding DEF Reads
<1>2. /\ summary # None => summary' = summary
      /\ summary = None /\ summary' # None => summary'.status = "in_progress" /\ m.op = "save"
  BY DEF NewSummary
<1>3. Students'
  <2> SUFFICES ASSUME NEW v \in Worker PROVE Sound(worker[v], v \in outrun)'
    BY DEF Students
  <2>1. CASE v = w BY <1>1, <2>1 DEF Sound, SoundCopy, SoundCount
  <2>2. CASE v # w
    <3>1. PICK n : /\ n = worker[v] /\ n = worker'[v] /\ Sound(n, v \in outrun) /\ IsRequest(n)
                   /\ (v \in outrun' <=> v \in outrun)
      BY <1>1, <2>2 DEF StudyInv, Students, CatalogInv, CatalogTypes
    <3>2. Sound(n, v \in outrun)' BY <1>1, <1>2, <3>1, StillSound
    <3> QED BY <3>1, <3>2 DEF Sound, SoundCopy, SoundCount
  <2> QED BY <2>1, <2>2
<1>4. Seen' /\ Trusted' BY <1>1, <1>2 DEF StudyInv, Seen, Trusted
<1>5. SummaryAddsUp'
  BY <1>1, <1>2 DEF StudyInv, SummaryAddsUp, Kindly
<1>6. CompletionAnnounced' BY <1>1, <1>2 DEF StudyInv, CompletionAnnounced
<1>7. CompletedIsWhole' BY <1>1, <1>2 DEF StudyInv, CompletedIsWhole, Trusted
<1> QED BY <1>1, <1>3, <1>4, <1>5, <1>6, <1>7 DEF StudyInv

\* A new row is not completed.
LEMMA GotLesson ==
    ASSUME CatalogInv, StudyInv, NEW w \in Worker, NEW l \in Lesson,
           NEW status \in LessonProgressStatus, NEW total \in Total, GetLesson(w, l, status, total),
           UNCHANGED <<cacheVars, revision, seen, current>>,
           MayBegin(w) \/ (Studying(w) /\ worker[w].op = "event")
    PROVE  CatalogInv' /\ StudyInv'
<1>1. /\ lesson \in [Lesson -> LessonProgress \cup {None}]
      /\ NewLesson \in LessonProgress /\ None \notin LessonProgress /\ None # NewLesson
  <2>1. NewLesson \in LessonProgress BY DEF NewLesson, LessonProgress, LessonProgressStatus
  <2>2. None \notin LessonProgress BY ProgressAssumption
  <2> QED BY <2>1, <2>2 DEF StudyInv, StudyTypes
<1>2. PICK row \in LessonProgress : /\ row = Got(lesson[l], NewLesson)
                                    /\ lesson[l] # None => row = lesson[l]
                                    /\ lesson[l] = None => row = NewLesson
  BY <1>1 DEF Got
<1>3. PICK m : m = [op |-> "lesson", lesson |-> l, total |-> total,
                    row |-> [status |-> status, views |-> row.views + 1,
                             dated |-> row.dated \/ status = "completed"]]
  OBVIOUS
<1>4. /\ lesson' = [lesson EXCEPT ![l] = row] /\ Reads(w, m)
      /\ UNCHANGED <<video, assessment, summary, logged>>
  BY <1>2, <1>3 DEF GetLesson
<1>5. row.views \in Nat /\ row.dated \in BOOLEAN BY DEF LessonProgress
<1>6. m \in OfLesson /\ m.op = "lesson"
  <2>1. (row.dated \/ status = "completed") \in BOOLEAN OBVIOUS
  <2>2. row.views + 1 \in Nat BY <1>5
  <2>3. [status |-> status, views |-> row.views + 1, dated |-> row.dated \/ status = "completed"]
            \in LessonProgress
    BY <2>1, <2>2 DEF LessonProgress
  <2> QED BY <1>3, <2>3 DEF OfLesson
<1>7. /\ lesson' \in [Lesson -> LessonProgress \cup {None}] /\ lesson'[l] = row
      /\ \A k \in Lesson : k # l => lesson'[k] = lesson[k]
  BY <1>1, <1>4
<1>8. CompletedLessons' = CompletedLessons
  BY <1>1, <1>2, <1>7 DEF CompletedLessons, NewLesson
<1>9. Kindly BY <1>2, <1>4, <1>7, <1>8 DEF Kindly, CompletedAssessments
<1>10. StudyTypes' BY <1>4, <1>7 DEF Reads, StudyInv, StudyTypes
<1>11. Sound(m, w \in outrun)'
  <2>1. m.lesson = l /\ m.row.views = row.views + 1 /\ (row.dated => m.row.dated) BY <1>3
  <2>2. row # None BY <1>1
  <2> QED BY <1>5, <1>6, <1>7, <2>1, <2>2 DEF Sound, SoundCopy, SoundCount
<1>12. worker[w].op \in {"resting", "event"} BY RequestOps DEF MayBegin
<1> QED BY <1>4, <1>6, <1>9, <1>10, <1>11, <1>12, StudyRequests, ReadStep

LEMMA GreaterOf ==
    ASSUME NEW a \in Nat, NEW b \in Nat
    PROVE  Max({a, b}) \in {a, b} /\ Max({a, b}) >= a /\ Max({a, b}) >= b
<1>1. \E x \in {a, b} : \A y \in {a, b} : x >= y
  <2>1. CASE a >= b BY <2>1
  <2>2. CASE b >= a BY <2>2
  <2> QED BY <2>1, <2>2
<1> QED BY <1>1 DEF Max

LEMMA GotVideo ==
    ASSUME CatalogInv, StudyInv, NEW w \in Worker, NEW position \in Nat, NEW whole \in BOOLEAN,
           NEW total \in Total, GetVideo(w, position, whole, total),
           UNCHANGED <<cacheVars, revision, seen, current>>,
           MayBegin(w) \/ (Studying(w) /\ worker[w].op = "event")
    PROVE  CatalogInv' /\ StudyInv'
<1>1. video \in VideoProgress \cup {None} /\ NewVideo \in VideoProgress /\ None \notin VideoProgress
  BY ProgressAssumption DEF StudyInv, StudyTypes, NewVideo, VideoProgress
<1>2. PICK row \in VideoProgress : row = Got(video, NewVideo) /\ (video # None => row = video)
  BY <1>1 DEF Got
<1>3. PICK m : m = [op |-> "video", row |-> Watched(row, position, whole), total |-> total]
  OBVIOUS
<1>4. video' = row /\ Reads(w, m) /\ UNCHANGED <<lesson, assessment, summary, logged>>
  BY <1>2, <1>3 DEF GetVideo
<1>5. row.position \in Nat /\ row.whole \in BOOLEAN /\ row.dated \in BOOLEAN BY DEF VideoProgress
<1>6. PICK next : /\ next = Max({row.position, position}) /\ next \in Nat /\ next >= row.position
  BY <1>5, GreaterOf
<1>7. m.row = [position |-> next, whole |-> row.whole \/ whole, dated |-> row.dated \/ whole]
  BY <1>3, <1>6 DEF Watched
<1>8. m \in OfVideo /\ m.op = "video"
  <2>1. (row.whole \/ whole) \in BOOLEAN /\ (row.dated \/ whole) \in BOOLEAN OBVIOUS
  <2>2. m.row \in VideoProgress BY <1>6, <1>7, <2>1 DEF VideoProgress
  <2> QED BY <1>3, <2>2 DEF OfVideo
<1>9. Kindly
  <2>1. CompletedLessons' = CompletedLessons /\ CompletedAssessments' = CompletedAssessments
    BY <1>4 DEF CompletedLessons, CompletedAssessments
  <2>2. lesson' = lesson /\ assessment' = assessment /\ (video # None => video' = video)
    BY <1>2, <1>4
  <2> QED BY <2>1, <2>2 DEF Kindly
<1>10. StudyTypes' BY <1>4 DEF Reads, StudyInv, StudyTypes
<1>11. Sound(m, w \in outrun)'
  <2>1. m.row.position >= row.position /\ (row.dated => m.row.dated)
    <3>1. m.row.position = next /\ m.row.dated = (row.dated \/ whole) BY <1>7
    <3> QED BY <1>5, <1>6, <3>1
  <2>2. row # None BY <1>1
  <2> QED BY <1>4, <1>8, <2>1, <2>2 DEF Sound, SoundCopy, SoundCount
<1>12. worker[w].op \in {"resting", "event"} BY RequestOps DEF MayBegin
<1> QED BY <1>4, <1>8, <1>9, <1>10, <1>11, <1>12, StudyRequests, ReadStep

LEMMA GotAssessment ==
    ASSUME CatalogInv, StudyInv, NEW w \in Worker, NEW a \in Assessment,
           NEW status \in AssessmentProgressStatus, NEW total \in Total,
           GetAssessment(w, a, status, total),
           UNCHANGED <<cacheVars, revision, seen, current>>,
           MayBegin(w) \/ (Studying(w) /\ worker[w].op = "event")
    PROVE  CatalogInv' /\ StudyInv'
<1>1. /\ assessment \in [Assessment -> AssessmentProgress \cup {None}]
      /\ NewAssessment \in AssessmentProgress /\ None \notin AssessmentProgress
  BY ProgressAssumption DEF StudyInv, StudyTypes, NewAssessment, AssessmentProgress,
                            AssessmentProgressStatus
<1>2. PICK row \in AssessmentProgress : /\ row = Got(assessment[a], NewAssessment)
                                        /\ assessment[a] # None => row = assessment[a]
                                        /\ assessment[a] = None => row = NewAssessment
  BY <1>1 DEF Got
<1>3. PICK m : m = [op |-> "assessment", assessment |-> a, total |-> total,
                    row |-> [status |-> status, attempts |-> row.attempts + 1]]
  OBVIOUS
<1>4. /\ assessment' = [assessment EXCEPT ![a] = row] /\ Reads(w, m)
      /\ UNCHANGED <<lesson, video, summary, logged>>
  BY <1>2, <1>3 DEF GetAssessment
<1>5. row.attempts \in Nat BY DEF AssessmentProgress
<1>6. m \in OfAssessment /\ m.op = "assessment"
  BY <1>3, <1>5 DEF OfAssessment, AssessmentProgress
<1>7. /\ assessment' \in [Assessment -> AssessmentProgress \cup {None}] /\ assessment'[a] = row
      /\ \A k \in Assessment : k # a => assessment'[k] = assessment[k]
  BY <1>1, <1>4
<1>8. CompletedAssessments' = CompletedAssessments
  BY <1>1, <1>2, <1>7 DEF CompletedAssessments, NewAssessment
<1>9. Kindly BY <1>2, <1>4, <1>7, <1>8 DEF Kindly, CompletedLessons
<1>10. StudyTypes' BY <1>4, <1>7 DEF Reads, StudyInv, StudyTypes
<1>11. Sound(m, w \in outrun)'
  <2>1. m.assessment = a /\ m.row.attempts = row.attempts + 1 BY <1>3
  <2>2. row # None BY <1>1
  <2> QED BY <1>5, <1>6, <1>7, <2>1, <2>2 DEF Sound, SoundCopy, SoundCount
<1>12. worker[w].op \in {"resting", "event"} BY RequestOps DEF MayBegin
<1> QED BY <1>4, <1>6, <1>9, <1>10, <1>11, <1>12, StudyRequests, ReadStep

LEMMA Posts ==
    ASSUME CatalogInv, StudyInv, NEW w \in Worker, UNCHANGED <<cacheVars, revision, seen, current>>,
           \/ PostVideo(w) \/ \E l \in Lesson : PostLesson(w, l)
           \/ \E a \in Assessment : PostAssessment(w, a)
    PROVE  CatalogInv' /\ StudyInv'
<1>1. None \in Total /\ seen \in Total BY DEF StudyInv, StudyTypes, Total
<1>2. ASSUME NEW l \in Lesson, PostLesson(w, l) PROVE CatalogInv' /\ StudyInv'
  <2>1. MayBegin(w) BY <1>2 DEF PostLesson
  <2>2. PICK status \in LessonSent, total \in {None, seen} : GetLesson(w, l, status, total)
    BY <1>2 DEF PostLesson
  <2>3. status \in LessonProgressStatus /\ total \in Total BY <1>1, ProgressAssumption
  <2> QED BY <2>1, <2>2, <2>3, GotLesson
<1>3. ASSUME NEW a \in Assessment, PostAssessment(w, a) PROVE CatalogInv' /\ StudyInv'
  <2>1. MayBegin(w) BY <1>3 DEF PostAssessment
  <2>2. PICK status \in AssessmentSent : GetAssessment(w, a, status, None)
    BY <1>3 DEF PostAssessment
  <2>3. status \in AssessmentProgressStatus BY ProgressAssumption
  <2> QED BY <1>1, <2>1, <2>2, <2>3, GotAssessment
<1>4. CASE PostVideo(w)
  <2>1. MayBegin(w) BY <1>4 DEF PostVideo
  <2>2. PICK position \in Position, whole \in BOOLEAN : GetVideo(w, position, whole, None)
    BY <1>4 DEF PostVideo
  <2>3. position \in Nat BY ProgressAssumption
  <2> QED BY <1>1, <2>1, <2>2, <2>3, GotVideo
<1> QED BY <1>2, <1>3, <1>4

\* What a request is, from what it does.
LEMMA StudyingFields ==
    ASSUME CatalogInv, NEW w \in Worker, worker[w].op \in StudyOp
    PROVE  worker[w] \in StudyState /\ Studying(w)
BY RequestFields DEF CatalogInv, CatalogTypes, Studying

\* An event stores nothing but its id before it is applied.
LEMMA Events ==
    ASSUME CatalogInv, StudyInv, NEW w \in Worker, UNCHANGED <<cacheVars, revision, seen, current>>,
           (\E e \in Event : TakeEvent(w, e)) \/ RecordEvent(w) \/ ApplyEvent(w)
    PROVE  CatalogInv' /\ StudyInv'
<1>1. ASSUME NEW m \in Handling, Reads(w, m), MayBegin(w) \/ Studying(w),
             worker[w].op \in {"resting", "event"},
             UNCHANGED <<lesson, video, assessment, summary>>, logged' \subseteq Event
      PROVE  CatalogInv' /\ StudyInv'
  <2>1. Kindly BY <1>1 DEF Kindly, CompletedLessons, CompletedAssessments
  <2>2. StudyTypes' BY <1>1 DEF Reads, StudyInv, StudyTypes
  <2>3. Sound(m, w \in outrun)' BY DEF Handling, Sound, SoundCopy, SoundCount
  <2>4. m \in StudyState BY StudyRequests
  <2> QED BY <1>1, <2>1, <2>2, <2>3, <2>4, ReadStep
<1>2. ASSUME NEW e \in Event, TakeEvent(w, e) PROVE CatalogInv' /\ StudyInv'
  <2>1. PICK m : m = [op |-> "event", event |-> e, step |-> "record"] OBVIOUS
  <2>2. m \in Handling BY <2>1 DEF Handling
  <2>3. MayBegin(w) /\ Reads(w, m) /\ UNCHANGED studyRows BY <1>2, <2>1 DEF TakeEvent
  <2>4. worker[w].op = "resting" BY <2>3, RequestOps DEF MayBegin
  <2> QED BY <1>1, <2>2, <2>3, <2>4 DEF studyRows, StudyInv, StudyTypes
<1>3. CASE RecordEvent(w)
  <2>1. PICK old : old = worker[w] OBVIOUS
  <2>2. /\ old.op = "event" /\ old.step = "record" /\ logged' = logged \cup {old.event}
        /\ Reads(w, [old EXCEPT !.step = "apply"])
        /\ UNCHANGED <<lesson, video, assessment, summary>>
    BY <1>3, <2>1 DEF RecordEvent
  <2>3. old \in StudyState /\ Studying(w) BY <2>1, <2>2, StudyingFields DEF StudyOp
  <2>4. old \in Handling BY <2>2, <2>3, StudyFields
  <2>5. PICK m : m = [old EXCEPT !.step = "apply"] OBVIOUS
  <2>6. m \in Handling /\ old.event \in Event BY <2>4, <2>5 DEF Handling
  <2>7. logged' \subseteq Event BY <2>2, <2>6 DEF StudyInv, StudyTypes
  <2> QED BY <1>1, <2>1, <2>2, <2>3, <2>5, <2>6, <2>7
<1>4. CASE ApplyEvent(w)
  <2>1. worker[w].op = "event" BY <1>4 DEF ApplyEvent
  <2>2. Studying(w) BY <2>1, StudyingFields DEF StudyOp
  <2>3. None \in Total /\ 0 \in Nat /\ TRUE \in BOOLEAN BY DEF Total
  <2>4. "in_progress" \in LessonProgressStatus /\ "submitted" \in AssessmentProgressStatus
    BY DEF LessonProgressStatus, AssessmentProgressStatus
  <2>5. ASSUME NEW l \in Lesson, GetLesson(w, l, "in_progress", None) PROVE CatalogInv' /\ StudyInv'
    BY <2>1, <2>2, <2>3, <2>4, <2>5, GotLesson
  <2>6. CASE GetVideo(w, 0, TRUE, None) BY <2>1, <2>2, <2>3, <2>6, GotVideo
  <2>7. ASSUME NEW a \in Assessment, GetAssessment(w, a, "submitted", None)
        PROVE  CatalogInv' /\ StudyInv'
    BY <2>1, <2>2, <2>3, <2>4, <2>7, GotAssessment
  <2> QED BY <1>4, <2>5, <2>6, <2>7 DEF ApplyEvent
<1> QED BY <1>2, <1>3, <1>4
-----------------------------------------------------------------------------
(* Rows that are saved *)

\* Every other request is outrun.
LEMMA OutrunStep ==
    ASSUME CatalogInv, StudyInv, NEW w \in Worker, NEW m \in StudyState, Outruns(w, m),
           UNCHANGED <<cacheVars, revision, seen, current>>, Studying(w),
           Sound(m, w \in outrun)', summary # None => summary' # None
    PROVE  /\ CatalogInv' /\ Students' /\ Seen' /\ outrun' \subseteq Worker
           /\ UNCHANGED <<course, outline>> /\ outrun \subseteq outrun'
           /\ worker'[w] = m /\ \A v \in Worker : v # w => worker'[v] = worker[v]
<1>1. /\ CatalogInv' /\ UNCHANGED <<course, outline>>
      /\ worker'[w] = m /\ \A v \in Worker : v # w => worker'[v] = worker[v]
  BY Proceeding DEF Outruns
<1>2. m # Resting BY StudyFields, RequestOps DEF StudyOp
<1>3. outrun' = outrun \cup {v \in Worker \ {w} : Studying(v)} BY <1>2 DEF Outruns
<1>4. Students'
  <2> SUFFICES ASSUME NEW v \in Worker PROVE Sound(worker[v], v \in outrun)'
    BY DEF Students
  <2>1. CASE v = w BY <1>1, <2>1 DEF Sound, SoundCopy, SoundCount
  <2>2. CASE v # w
    <3>1. PICK n : n = worker[v] /\ n = worker'[v] /\ Sound(n, v \in outrun) /\ IsRequest(n)
      BY <1>1, <2>2 DEF StudyInv, Students, CatalogInv, CatalogTypes
    <3>2. CASE n \in StudyState
      <4>1. v \in outrun' BY <1>3, <2>2, <3>1, <3>2 DEF Studying
      <4> QED BY <3>1, <4>1 DEF Sound, SoundCopy, SoundCount
    <3>3. CASE n \notin StudyState
      <4>1. n.op \notin StudyOp BY <3>1, <3>3, RequestFields
      <4> QED BY <3>1, <4>1 DEF Sound, SoundCopy, SoundCount, StudyOp
    <3> QED BY <3>2, <3>3
  <2> QED BY <2>1, <2>2
<1>5. Seen' BY <1>1 DEF StudyInv, Seen
<1>6. outrun' \subseteq Worker BY <1>3 DEF StudyInv, StudyTypes
<1> QED BY <1>1, <1>3, <1>4, <1>5, <1>6

\* The request goes on to count, so that the row of the course may differ.
LEMMA SavedRows ==
    ASSUME CatalogInv, StudyInv, NEW w \in Worker, SaveLesson(w) \/ SaveVideo(w) \/ SaveAssessment(w),
           UNCHANGED <<cacheVars, revision, seen, current>>
    PROVE  CatalogInv' /\ StudyInv'
<1>1. PICK old, m : old = worker[w] /\ m = [op |-> "lessons", total |-> old.total] OBVIOUS
<1>2. /\ old.op \in {"lesson", "video", "assessment"} /\ Outruns(w, m)
      /\ UNCHANGED <<summary, logged, unsure, told, muddled, trusted>>
  BY <1>1 DEF SaveLesson, SaveVideo, SaveAssessment, Saved
<1>3. old \in StudyState /\ Studying(w) BY <1>1, <1>2, StudyingFields DEF StudyOp
<1>4. old.total \in Total BY <1>2, <1>3, StudyFields DEF OfLesson, OfVideo, OfAssessment
<1>5. m \in Counting BY <1>1, <1>4 DEF Counting
<1>6. m \in StudyState /\ m.op = "lessons" BY <1>5, StudyRequests DEF Counting
<1>7. Sound(m, w \in outrun)' BY <1>6 DEF Sound, SoundCopy, SoundCount
<1>8. /\ CatalogInv' /\ Students' /\ Seen' /\ outrun' \subseteq Worker
      /\ UNCHANGED <<course, outline>>
      /\ worker'[w] = m /\ \A v \in Worker : v # w => worker'[v] = worker[v]
  BY <1>2, <1>3, <1>6, <1>7, OutrunStep
<1>9. StudyTypes'
  <2>1. CASE SaveLesson(w)
    <3>1. old.lesson \in Lesson /\ old.row \in LessonProgress
      BY <1>1, <1>3, <2>1, StudyFields DEF SaveLesson, OfLesson
    <3>2. lesson' = [lesson EXCEPT ![old.lesson] = old.row] /\ UNCHANGED <<video, assessment>>
      BY <1>1, <2>1 DEF SaveLesson
    <3> QED BY <1>2, <1>8, <3>1, <3>2 DEF StudyInv, StudyTypes
  <2>2. CASE SaveVideo(w)
    <3>1. old.row \in VideoProgress BY <1>1, <1>3, <2>2, StudyFields DEF SaveVideo, OfVideo
    <3>2. video' = old.row /\ UNCHANGED <<lesson, assessment>> BY <1>1, <2>2 DEF SaveVideo
    <3> QED BY <1>2, <1>8, <3>1, <3>2 DEF StudyInv, StudyTypes
  <2>3. CASE SaveAssessment(w)
    <3>1. old.assessment \in Assessment /\ old.row \in AssessmentProgress
      BY <1>1, <1>3, <2>3, StudyFields DEF SaveAssessment, OfAssessment
    <3>2. assessment' = [assessment EXCEPT ![old.assessment] = old.row] /\ UNCHANGED <<lesson, video>>
      BY <1>1, <2>3 DEF SaveAssessment
    <3> QED BY <1>2, <1>8, <3>1, <3>2 DEF StudyInv, StudyTypes
  <2> QED BY <2>1, <2>2, <2>3
<1>10. SummaryAddsUp' BY <1>6, <1>8 DEF SummaryAddsUp
<1>11. CompletionAnnounced' BY <1>1, <1>2, <1>8 DEF StudyInv, CompletionAnnounced
<1>12. CompletedIsWhole' /\ Trusted' BY <1>2, <1>8 DEF StudyInv, CompletedIsWhole, Trusted
<1> QED BY <1>8, <1>9, <1>10, <1>11, <1>12 DEF StudyInv
-----------------------------------------------------------------------------
(* The row of the course *)

LEMMA CompletedBounds ==
    /\ Cardinality(CompletedLessons) \in 0 .. Cardinality(Lesson)
    /\ Cardinality(CompletedAssessments) \in 0 .. Cardinality(Assessment)
    /\ Cardinality(Lesson) \in Nat /\ Cardinality(Assessment) \in Nat
<1>1. IsFiniteSet(Lesson) /\ IsFiniteSet(Assessment) BY ProgressAssumption
<1>2. CompletedLessons \subseteq Lesson BY DEF CompletedLessons
<1>3. CompletedAssessments \subseteq Assessment BY DEF CompletedAssessments
<1>4. /\ Cardinality(CompletedLessons) <= Cardinality(Lesson)
      /\ IsFiniteSet(CompletedLessons)
  BY <1>1, <1>2, FS_Subset
<1>5. /\ Cardinality(CompletedAssessments) <= Cardinality(Assessment)
      /\ IsFiniteSet(CompletedAssessments)
  BY <1>1, <1>3, FS_Subset
<1>6. /\ Cardinality(Lesson) \in Nat /\ Cardinality(Assessment) \in Nat
      /\ Cardinality(CompletedLessons) \in Nat /\ Cardinality(CompletedAssessments) \in Nat
  BY <1>1, <1>4, <1>5, FS_CardinalityType
<1> QED BY <1>4, <1>5, <1>6

\* The two counts, one after the other.
LEMMA Counts ==
    ASSUME CatalogInv, StudyInv, NEW w \in Worker, CountLessons(w) \/ CountAssessments(w),
           UNCHANGED <<cacheVars, revision, seen, current>>
    PROVE  CatalogInv' /\ StudyInv'
<1>1. PICK old : old = worker[w] OBVIOUS
<1>2. old.op \in {"lessons", "assessments"} /\ UNCHANGED studyRows
  BY <1>1 DEF CountLessons, CountAssessments
<1>3. old \in StudyState /\ Studying(w) BY <1>1, <1>2, StudyingFields DEF StudyOp
<1>4. old.total \in Total BY <1>2, <1>3, StudyFields DEF Counting, CountingOn
<1>5. /\ CompletedLessons' = CompletedLessons /\ CompletedAssessments' = CompletedAssessments
      /\ UNCHANGED <<lesson, video, assessment, summary, logged>>
  BY <1>2 DEF studyRows, CompletedLessons, CompletedAssessments
<1>6. Kindly BY <1>5 DEF Kindly
<1>7. ASSUME NEW m \in StudyState, Reads(w, m), m.op \in {"assessments", "summary"},
             Sound(m, w \in outrun)'
      PROVE  CatalogInv' /\ StudyInv'
  <2>1. StudyTypes' BY <1>5, <1>7 DEF Reads, StudyInv, StudyTypes
  <2> QED BY <1>1, <1>2, <1>3, <1>5, <1>6, <1>7, <2>1, ReadStep
<1>8. CASE CountLessons(w)
  <2>1. PICK n \in 0 .. Cardinality(Lesson) : n = Cardinality(CompletedLessons)
    BY CompletedBounds
  <2>2. PICK m : m = [op |-> "assessments", lessons |-> n, total |-> old.total] OBVIOUS
  <2>3. Reads(w, m) BY <1>1, <1>8, <2>1, <2>2 DEF CountLessons
  <2>4. m \in CountingOn BY <1>4, <2>2, CompletedBounds DEF CountingOn
  <2>5. m \in StudyState /\ m.op = "assessments" /\ m.lessons = n BY <2>2, <2>4, StudyRequests
  <2>6. Sound(m, w \in outrun)' BY <1>5, <2>1, <2>5 DEF Sound, SoundCopy, SoundCount
  <2> QED BY <1>7, <2>3, <2>5, <2>6
<1>9. CASE CountAssessments(w)
  <2>1. PICK n \in 0 .. Cardinality(Assessment) : n = Cardinality(CompletedAssessments)
    BY CompletedBounds
  <2>2. /\ old.op = "assessments" /\ old.lessons \in 0 .. Cardinality(Lesson)
        /\ w \in outrun \/ old.lessons = Cardinality(CompletedLessons)
    BY <1>1, <1>9 DEF CountAssessments, StudyInv, Students, Sound, SoundCount
  <2>3. PICK m : m = [op |-> "summary", lessons |-> old.lessons, total |-> old.total,
                      assessments |-> n]
    OBVIOUS
  <2>4. Reads(w, m) BY <1>1, <1>9, <2>1, <2>3 DEF CountAssessments
  <2>5. m \in Counted BY <1>4, <2>2, <2>3, CompletedBounds DEF Counted
  <2>6. m \in StudyState /\ m.op = "summary" /\ m.lessons = old.lessons /\ m.assessments = n
    BY <2>3, <2>5, StudyRequests
  <2>7. outrun' = outrun BY <2>4 DEF Reads
  <2>8. Sound(m, w \in outrun)' BY <1>5, <2>1, <2>2, <2>6, <2>7 DEF Sound, SoundCopy, SoundCount
  <2> QED BY <1>7, <2>4, <2>6, <2>8
<1> QED BY <1>8, <1>9

\* The copy of the row of the course is whole only with all lessons that were told.
LEMMA SummaryGot ==
    ASSUME CatalogInv, StudyInv, NEW w \in Worker, GetSummary(w),
           UNCHANGED <<cacheVars, revision, seen, current>>
    PROVE  CatalogInv' /\ StudyInv'
<1>1. PICK old, row : old = worker[w] /\ row = Got(summary, NewSummary) OBVIOUS
<1>2. PICK status, m :
         /\ status = StatusOf(old)
         /\ m = [op |-> "save", previous |-> row.status, total |-> old.total,
                 row |-> [status |-> status, lessons |-> old.lessons,
                          assessments |-> old.assessments, dated |-> status = "completed"]]
  OBVIOUS
<1>3. /\ old.op = "summary" /\ summary' = row /\ Reads(w, m)
      /\ UNCHANGED <<lesson, video, assessment, logged>>
  BY <1>1, <1>2 DEF GetSummary
<1>4. old \in StudyState /\ Studying(w) BY <1>1, <1>3, StudyingFields DEF StudyOp
<1>5. old.total \in Total BY <1>3, <1>4, StudyFields DEF Counted
<1>6. /\ old.lessons \in 0 .. Cardinality(Lesson) /\ old.assessments \in 0 .. Cardinality(Assessment)
      /\ \/ w \in outrun
         \/ /\ old.lessons = Cardinality(CompletedLessons)
            /\ old.assessments = Cardinality(CompletedAssessments)
  BY <1>1, <1>3 DEF StudyInv, Students, Sound, SoundCount
<1>7. summary \in CourseProgress \cup {None} /\ None \notin CourseProgress
  BY ProgressAssumption DEF StudyInv, StudyTypes
<1>8. row \in CourseProgress /\ (summary # None => row = summary)
      /\ (summary = None => row = NewSummary)
  <2>1. NewSummary \in CourseProgress
    BY CompletedBounds DEF NewSummary, CourseProgress, CourseProgressStatus
  <2> QED BY <1>1, <1>7, <2>1 DEF Got
<1>9. status \in CourseProgressStatus BY <1>2 DEF StatusOf, CourseProgressStatus
<1>10. ASSUME status = "completed", old.total # None PROVE old.lessons >= old.total
  <2>1. PICK i \in Nat, j \in Nat : i = old.lessons /\ j = old.total
    BY <1>5, <1>6, <1>10, CatalogAssumption, CompletedBounds DEF Total
  <2>2. old.lessons = LessonTotal(old) BY <1>2, <1>10 DEF StatusOf
  <2>3. LessonTotal(old) = Max({i, j}) BY <1>10, <2>1 DEF LessonTotal
  <2> QED BY <2>1, <2>2, <2>3, GreaterOf
<1>11. m \in Saving
  <2>1. (status = "completed") \in BOOLEAN /\ row.status \in CourseProgressStatus
    BY <1>8 DEF CourseProgress
  <2>2. [status |-> status, lessons |-> old.lessons, assessments |-> old.assessments,
         dated |-> status = "completed"] \in CourseProgress
    BY <1>6, <1>9, <2>1 DEF CourseProgress
  <2> QED BY <1>2, <1>5, <2>1, <2>2 DEF Saving
<1>12. m \in StudyState /\ m.op = "save" BY <1>2, <1>11, StudyRequests
<1>13. CompletedLessons' = CompletedLessons /\ CompletedAssessments' = CompletedAssessments
  BY <1>3 DEF CompletedLessons, CompletedAssessments
<1>14. Kindly BY <1>3, <1>13 DEF Kindly
<1>15. StudyTypes' BY <1>3, <1>8 DEF Reads, StudyInv, StudyTypes
<1>16. Sound(m, w \in outrun)'
  <2>1. /\ m.row.lessons = old.lessons /\ m.row.assessments = old.assessments
        /\ m.row.status = status /\ m.total = old.total
    BY <1>2
  <2>2. summary' # None BY <1>3, <1>7, <1>8
  <2>3. outrun' = outrun BY <1>3 DEF Reads
  <2> QED BY <1>6, <1>10, <1>12, <1>13, <2>1, <2>2, <2>3 DEF Sound, SoundCopy, SoundCount
<1>17. summary' = summary \/ (summary = None /\ summary' = NewSummary /\ m.op = "save")
  BY <1>3, <1>8, <1>12
<1> QED BY <1>1, <1>3, <1>4, <1>12, <1>14, <1>15, <1>16, <1>17, ReadStep

LEMMA SummarySaved ==
    ASSUME CatalogInv, StudyInv, NEW w \in Worker, SaveSummary(w),
           UNCHANGED <<cacheVars, revision, seen, current>>
    PROVE  CatalogInv' /\ StudyInv'
<1>1. PICK old, m : old = worker[w] /\ m = [op |-> "announce", completed |-> Completes(old)] OBVIOUS
<1>2. /\ old.op = "save" /\ summary' = old.row /\ Outruns(w, m)
      /\ unsure' = (w \in outrun)
      /\ told' = (old.row.status # "completed" \/ (told /\ summary.status = "completed"))
      /\ muddled' = (muddled \/ old.previous # summary.status)
      /\ trusted' = (w \notin outrun /\ current /\ old.total = seen)
      /\ UNCHANGED <<lesson, video, assessment, logged>>
  BY <1>1 DEF SaveSummary
<1>3. old \in StudyState /\ Studying(w) BY <1>1, <1>2, StudyingFields DEF StudyOp
<1>4. old \in Saving BY <1>2, <1>3, StudyFields
<1>5. old.row \in CourseProgress /\ old.total \in Total BY <1>4 DEF Saving
<1>6. /\ summary # None
      /\ \/ w \in outrun
         \/ /\ old.row.lessons = Cardinality(CompletedLessons)
            /\ old.row.assessments = Cardinality(CompletedAssessments)
      /\ old.row.status = "completed" /\ old.total # None => old.row.lessons >= old.total
  BY <1>1, <1>2 DEF StudyInv, Students, Sound, SoundCount
<1>7. Completes(old) \in BOOLEAN BY DEF Completes
<1>8. m \in Announcing BY <1>1, <1>7 DEF Announcing
<1>9. m \in StudyState /\ m.op = "announce" /\ m.completed = Completes(old)
  BY <1>1, <1>8, StudyRequests
<1>10. Sound(m, w \in outrun)' BY <1>9 DEF Sound, SoundCopy, SoundCount
<1>11. summary' \in CourseProgress /\ summary' # None BY <1>2, <1>5, ProgressAssumption
<1>12. /\ CatalogInv' /\ Students' /\ Seen' /\ outrun' \subseteq Worker
       /\ UNCHANGED <<course, outline>>
       /\ worker'[w] = m /\ \A v \in Worker : v # w => worker'[v] = worker[v]
  BY <1>2, <1>3, <1>9, <1>10, <1>11, OutrunStep
<1>13. StudyTypes' BY <1>2, <1>11, <1>12 DEF StudyInv, StudyTypes
<1>14. SummaryAddsUp'
  <2>1. CompletedLessons' = CompletedLessons /\ CompletedAssessments' = CompletedAssessments
    BY <1>2 DEF CompletedLessons, CompletedAssessments
  <2> QED BY <1>2, <1>6, <1>11, <2>1 DEF SummaryAddsUp
<1>15. CompletionAnnounced'
  <2>1. CASE old.row.status # "completed" BY <1>2, <2>1 DEF CompletionAnnounced
  <2>2. CASE old.row.status = "completed" /\ old.previous # "completed"
    <3>1. m.completed BY <1>9, <2>2 DEF Completes
    <3> QED BY <1>9, <1>12, <3>1 DEF CompletionAnnounced
  <2>3. CASE old.previous = "completed" /\ summary.status # "completed"
    <3>1. muddled' BY <1>2, <2>3
    <3> QED BY <3>1 DEF CompletionAnnounced
  <2>4. CASE summary.status = "completed"
    <3>1. \/ told \/ muddled
          \/ \E v \in Worker : worker[v].op = "announce" /\ worker[v].completed
      BY <1>6, <2>4 DEF StudyInv, CompletionAnnounced
    <3>2. told => told' BY <1>2, <2>4
    <3>3. muddled => muddled' BY <1>2
    <3>4. ASSUME NEW v \in Worker, worker[v].op = "announce", worker[v].completed
          PROVE  CompletionAnnounced'
      <4>1. v # w BY <1>1, <1>2, <3>4
      <4>2. worker'[v] = worker[v] BY <1>12, <4>1
      <4> QED BY <3>4, <4>2 DEF CompletionAnnounced
    <3> QED BY <3>1, <3>2, <3>3, <3>4 DEF CompletionAnnounced
  <2> QED BY <2>1, <2>2, <2>3, <2>4
<1>16. CompletedIsWhole'
  <2> SUFFICES ASSUME trusted', summary'.status = "completed"
               PROVE  summary'.lessons >= outline'[Studied]
    BY DEF CompletedIsWhole
  <2>1. current /\ old.total = seen BY <1>2
  <2>2. old.total = outline[Studied] BY <2>1 DEF StudyInv, Seen
  <2>3. outline[Studied] # None
    BY ProgressAssumption DEF CatalogInv, CatalogTypes, CachedTypeOK, CatalogTypeOK
  <2> QED BY <1>2, <1>6, <1>12, <2>2, <2>3
<1>17. Trusted' BY <1>11 DEF Trusted
<1> QED BY <1>12, <1>13, <1>14, <1>15, <1>16, <1>17 DEF StudyInv

\* A request ends, whether it was through or not.
LEMMA EndStep ==
    ASSUME CatalogInv, StudyInv, NEW w \in Worker, Proceeds(w, Resting), outrun' = outrun \ {w},
           UNCHANGED <<cacheVars, revision, seen, current, studyRows, trusted>>, Studying(w),
           unsure \/ worker[w].op \in {"lessons", "assessments", "summary", "save"} => unsure',
           told \/ muddled \/ (worker[w].op = "announce" /\ worker[w].completed) => told' \/ muddled'
    PROVE  CatalogInv' /\ StudyInv'
<1>1. /\ CatalogInv' /\ UNCHANGED <<course, outline>>
      /\ worker'[w] = Resting /\ \A v \in Worker : v # w => worker'[v] = worker[v]
  BY Proceeding
<1>2. /\ CompletedLessons' = CompletedLessons /\ CompletedAssessments' = CompletedAssessments
      /\ UNCHANGED <<lesson, video, assessment, summary, logged>>
  BY DEF studyRows, CompletedLessons, CompletedAssessments
<1>3. StudyTypes' BY <1>2 DEF StudyInv, StudyTypes
<1>4. Kindly BY <1>2 DEF Kindly
<1>5. Students'
  <2> SUFFICES ASSUME NEW v \in Worker PROVE Sound(worker[v], v \in outrun)'
    BY DEF Students
  <2>1. CASE v = w BY <1>1, <2>1 DEF Sound, SoundCopy, SoundCount, Resting
  <2>2. CASE v # w
    <3>1. PICK n : /\ n = worker[v] /\ n = worker'[v] /\ Sound(n, v \in outrun) /\ IsRequest(n)
                   /\ (v \in outrun' <=> v \in outrun)
      BY <1>1, <2>2 DEF StudyInv, Students, CatalogInv, CatalogTypes
    <3>2. Sound(n, v \in outrun)' BY <1>2, <1>4, <3>1, StillSound
    <3> QED BY <3>1, <3>2 DEF Sound, SoundCopy, SoundCount
  <2> QED BY <2>1, <2>2
<1>6. Seen' /\ Trusted' BY <1>1, <1>2 DEF StudyInv, Seen, Trusted
<1>7. SummaryAddsUp' BY <1>1, <1>2 DEF StudyInv, SummaryAddsUp
<1>8. CompletionAnnounced' BY <1>1, <1>2 DEF StudyInv, CompletionAnnounced
<1>9. CompletedIsWhole' BY <1>1, <1>2 DEF StudyInv, CompletedIsWhole
<1> QED BY <1>1, <1>3, <1>5, <1>6, <1>7, <1>8, <1>9 DEF StudyInv

LEMMA Ends ==
    ASSUME CatalogInv, StudyInv, NEW w \in Worker, Publish(w) \/ CutShort(w),
           UNCHANGED <<cacheVars, revision, seen, current>>
    PROVE  CatalogInv' /\ StudyInv'
<1>1. /\ Proceeds(w, Resting) /\ outrun' = outrun \ {w} /\ UNCHANGED <<studyRows, trusted>>
  BY DEF Publish, CutShort
<1>2. CASE Publish(w)
  <2>1. /\ worker[w].op = "announce" /\ unsure' = unsure
        /\ told' = (told \/ worker[w].completed) /\ muddled' = (muddled /\ ~worker[w].completed)
    BY <1>2 DEF Publish
  <2>2. Studying(w) BY <2>1, StudyingFields DEF StudyOp
  <2>3. unsure \/ worker[w].op \in {"lessons", "assessments", "summary", "save"} => unsure'
    BY <2>1
  <2>4. told \/ muddled \/ (worker[w].op = "announce" /\ worker[w].completed) => told' \/ muddled'
    BY <2>1
  <2> QED BY <1>1, <2>2, <2>3, <2>4, EndStep
<1>3. CASE CutShort(w)
  <2>1. /\ Studying(w)
        /\ unsure' = (unsure \/ worker[w].op \in {"lessons", "assessments", "summary", "save"})
        /\ muddled' = (muddled \/ worker[w].op = "announce") /\ told' = told
    BY <1>3 DEF CutShort
  <2>2. told \/ muddled \/ (worker[w].op = "announce" /\ worker[w].completed) => told' \/ muddled'
    BY <2>1
  <2>3. unsure \/ worker[w].op \in {"lessons", "assessments", "summary", "save"} => unsure'
    BY <2>1
  <2> QED BY <1>1, <2>1, <2>2, <2>3, EndStep
<1> QED BY <1>2, <1>3
-----------------------------------------------------------------------------
(* Steps of the catalog, and the player *)

LEMMA CatalogBeside ==
    ASSUME CatalogInv, StudyInv, CachedNext,
           current' = (current /\ outline' = outline), trusted' = (trusted /\ outline' = outline),
           UNCHANGED <<studyRows, outrun, unsure, told, muddled, seen>>
    PROVE  StudyInv'
<1>1. \A v \in Worker :
          worker'[v] = worker[v] \/ (worker[v].op \in CatalogOp /\ worker'[v].op \in CatalogOp)
  BY CatalogMoves
<1>2. \A op \in StudyOp : op \notin CatalogOp BY DEF StudyOp, CatalogOp
<1>3. \A v \in Worker : worker'[v].op \in StudyOp \/ worker[v].op \in StudyOp => worker'[v] = worker[v]
  BY <1>1, <1>2
<1>4. /\ CompletedLessons' = CompletedLessons /\ CompletedAssessments' = CompletedAssessments
      /\ UNCHANGED <<lesson, video, assessment, summary, logged>>
  BY DEF studyRows, CompletedLessons, CompletedAssessments
<1>5. StudyTypes' BY <1>4 DEF StudyInv, StudyTypes
<1>6. Students'
  <2> SUFFICES ASSUME NEW v \in Worker PROVE Sound(worker[v], v \in outrun)'
    BY DEF Students
  <2>1. CASE worker'[v].op \in StudyOp
    <3>1. PICK n : n = worker[v] /\ n = worker'[v] /\ Sound(n, v \in outrun)
      BY <1>3, <2>1 DEF StudyInv, Students
    <3>2. SoundCopy(worker[v], v \in outrun)' BY <1>4, <3>1 DEF Sound, SoundCopy
    <3>3. SoundCount(worker[v], v \in outrun)' BY <1>4, <3>1 DEF Sound, SoundCount
    <3> QED BY <3>2, <3>3 DEF Sound
  <2>2. CASE worker'[v].op \notin StudyOp
    BY <2>2 DEF Sound, SoundCopy, SoundCount, StudyOp
  <2> QED BY <2>1, <2>2
<1>7. Seen' BY DEF StudyInv, Seen
<1>8. Trusted' BY <1>4 DEF StudyInv, Trusted
<1>9. SummaryAddsUp'
  <2>1. \A v \in Worker : worker[v].op \in {"lessons", "assessments", "summary", "save"} =>
            worker'[v].op = worker[v].op
    BY <1>3 DEF StudyOp
  <2> QED BY <1>4, <2>1 DEF StudyInv, SummaryAddsUp
<1>10. CompletionAnnounced'
  <2>1. \A v \in Worker : worker[v].op = "announce" => worker'[v] = worker[v] BY <1>3 DEF StudyOp
  <2> QED BY <1>4, <2>1 DEF StudyInv, CompletionAnnounced
<1>11. CompletedIsWhole' BY <1>4 DEF StudyInv, CompletedIsWhole
<1> QED BY <1>5, <1>6, <1>7, <1>8, <1>9, <1>10, <1>11 DEF StudyInv

\* A structure that the database would answer shows the lessons that are published.
LEMMA AnswerOutline ==
    ASSUME CatalogTypes, NEW k \in Asked, k.view = "course-structure"
    PROVE  Answer(k)[k.course].rest.outline = outline[k.course]
<1>1. /\ DOMAIN Rows(k) = {k.course} /\ Rows(k)[k.course] = [row |-> course[k.course], rest |-> None]
  BY DEF Rows, ShownBy
<1>2. Answer(k)[k.course] = [Rows(k)[k.course] EXCEPT !.rest = Structure(k.course)]
  BY <1>1 DEF Answer, WithRest
<1>3. PICK r1, r2, r3 : /\ Rows(k)[k.course] = [row |-> r1, rest |-> r2]
                        /\ r3 = Structure(k.course)
  BY <1>1
<1>4. Answer(k)[k.course] = [[row |-> r1, rest |-> r2] EXCEPT !.rest = r3] BY <1>2, <1>3
<1>5. Answer(k)[k.course].rest = r3 BY <1>4
<1> QED BY <1>3, <1>5 DEF Structure

LEMMA LookStep ==
    ASSUME CatalogInv, StudyInv, NEW k \in Asked, Look(k)
    PROVE  CatalogInv' /\ StudyInv'
<1>1. /\ entry[k] # None /\ k.view = "course-structure" /\ k.course = Studied
      /\ seen' = entry[k][Studied].rest.outline
      /\ current' = (k \notin raced /\ ~Pending(k))
      /\ UNCHANGED <<cachedVars, studyVars>>
  BY DEF Look
<1>2. CatalogInv' BY <1>1, Looking
<1>3. UNCHANGED <<worker, outline, lesson, video, assessment, summary, logged, outrun, unsure, told,
                  muddled, trusted>>
  BY <1>1 DEF cachedVars, catalogVars, tables, studyVars, studyRows
<1>4. /\ Whole(k, entry[k])
      /\ k \in raced \/ Pending(k) \/ entry[k] = Answer(k)
  BY <1>1 DEF CatalogInv, Entries
<1>5. seen' \in 0 .. MaxLessons BY <1>1, <1>4 DEF Whole
<1>6. Seen'
  <2>1. Answer(k)[Studied].rest.outline = outline[Studied]
    BY <1>1, AnswerOutline DEF CatalogInv
  <2>2. current' => entry[k] = Answer(k) BY <1>1, <1>4
  <2> QED BY <1>1, <1>3, <2>1, <2>2 DEF Seen
<1>7. StudyTypes' BY <1>3, <1>5 DEF StudyInv, StudyTypes, Total
<1>8. CompletedLessons' = CompletedLessons /\ CompletedAssessments' = CompletedAssessments
  BY <1>3 DEF CompletedLessons, CompletedAssessments
<1>9. Students'
  <2> SUFFICES ASSUME NEW v \in Worker PROVE Sound(worker[v], v \in outrun)'
    BY DEF Students
  <2>1. PICK n : n = worker[v] /\ n = worker'[v] /\ Sound(n, v \in outrun)
    BY <1>3 DEF StudyInv, Students
  <2>2. SoundCopy(worker[v], v \in outrun)' BY <1>3, <2>1 DEF Sound, SoundCopy
  <2>3. SoundCount(worker[v], v \in outrun)' BY <1>3, <1>8, <2>1 DEF Sound, SoundCount
  <2> QED BY <2>2, <2>3 DEF Sound
<1>10. Trusted' BY <1>3 DEF StudyInv, Trusted
<1>11. SummaryAddsUp' BY <1>3, <1>8 DEF StudyInv, SummaryAddsUp
<1>12. CompletionAnnounced' BY <1>3 DEF StudyInv, CompletionAnnounced
<1>13. CompletedIsWhole' BY <1>3 DEF StudyInv, CompletedIsWhole
<1> QED BY <1>2, <1>6, <1>7, <1>9, <1>10, <1>11, <1>12, <1>13 DEF StudyInv

LEMMA NextKeeps ==
    ASSUME IInv, [Next]_vars
    PROVE  IInv'
<1>1. CatalogInv /\ StudyInv BY DEF IInv
<1>2. CASE UNCHANGED vars
  <2>1. UNCHANGED <<cachedVars, studyVars, seen, current>> BY <1>2 DEF vars
  <2>2. CatalogInv' BY <1>1, <2>1, Looking
  <2>3. UNCHANGED <<worker, outline, lesson, video, assessment, summary, logged, outrun, unsure,
                    told, muddled, trusted, seen, current>>
    BY <2>1 DEF cachedVars, catalogVars, tables, studyVars, studyRows
  <2>4. CompletedLessons' = CompletedLessons /\ CompletedAssessments' = CompletedAssessments
    BY <2>3 DEF CompletedLessons, CompletedAssessments
  <2>5. Students'
    <3> SUFFICES ASSUME NEW v \in Worker PROVE Sound(worker[v], v \in outrun)'
      BY DEF Students
    <3>1. PICK n : n = worker[v] /\ n = worker'[v] /\ Sound(n, v \in outrun)
      BY <1>1, <2>3 DEF StudyInv, Students
    <3>2. SoundCopy(worker[v], v \in outrun)' BY <2>3, <3>1 DEF Sound, SoundCopy
    <3>3. SoundCount(worker[v], v \in outrun)' BY <2>3, <2>4, <3>1 DEF Sound, SoundCount
    <3> QED BY <3>2, <3>3 DEF Sound
  <2>6. StudyTypes' BY <1>1, <2>3 DEF StudyInv, StudyTypes
  <2>7. Seen' /\ Trusted' BY <1>1, <2>3 DEF StudyInv, Seen, Trusted
  <2>8. SummaryAddsUp' BY <1>1, <2>3, <2>4 DEF StudyInv, SummaryAddsUp
  <2>9. CompletionAnnounced' BY <1>1, <2>3 DEF StudyInv, CompletionAnnounced
  <2>10. CompletedIsWhole' BY <1>1, <2>3 DEF StudyInv, CompletedIsWhole
  <2> QED BY <2>2, <2>5, <2>6, <2>7, <2>8, <2>9, <2>10 DEF IInv, StudyInv
<1>3. ASSUME CachedNext, current' = (current /\ outline' = outline),
             trusted' = (trusted /\ outline' = outline),
             UNCHANGED <<studyRows, outrun, unsure, told, muddled, seen>>
      PROVE  IInv'
  BY <1>1, <1>3, CatalogSteps, CatalogBeside DEF IInv
<1>4. ASSUME NEW w \in Worker, StudyNext(w), UNCHANGED <<cacheVars, revision, seen, current>>
      PROVE  IInv'
  BY <1>1, <1>4, Posts, Events, SavedRows, Counts, SummaryGot, SummarySaved, Ends DEF StudyNext, IInv
<1>5. ASSUME NEW k \in Asked, Look(k) PROVE IInv'
  BY <1>1, <1>5, LookStep DEF IInv
<1> QED BY <1>2, <1>3, <1>4, <1>5 DEF Next
-----------------------------------------------------------------------------
(* The initial states *)

LEMMA InitTables ==
    ASSUME CatalogInit
    PROVE  /\ CatalogTypeOK /\ Linked
           /\ \E scope \in [Term -> Scope] : \A t \in Term : Exists(term, t) =>
                  term[t].scope = scope[t] /\ term[t].parent = {}
           /\ \A w \in Worker : worker[w] = Resting
<1>1. /\ started \in 0 .. MaxStarted + 1 /\ overtaken \subseteq Worker /\ moved = {}
      /\ worker = [w \in Worker |-> Resting] /\ overtaken = {}
  BY CatalogAssumption DEF CatalogInit
<1>2. NoLinks \in Links BY DEF NoLinks, Links
<1>3. CASE /\ course = [c \in Course |-> None] /\ term = [t \in Term |-> None]
           /\ links = [c \in Course |-> NoLinks] /\ outline = [c \in Course |-> 0]
  <2>1. UniqueSlugs(course) BY <1>3 DEF UniqueSlugs
  <2>2. \A t \in Term : ~Exists(term, t) BY <1>3 DEF Exists
  <2>3. UniqueTermSlugs(term) BY <2>2 DEF UniqueTermSlugs
  <2>4. \A c \in Course : links[c] = NoLinks /\ links[c].terms = {} /\ links[c].prerequisites = {}
    BY <1>3 DEF NoLinks
  <2>5. outline \in [Course -> 0 .. MaxLessons] BY <1>3, CatalogAssumption
  <2>6. CatalogTypeOK
    BY <1>1, <1>2, <1>3, <2>1, <2>3, <2>4, <2>5 DEF CatalogTypeOK
  <2>7. Linked BY <2>4 DEF Linked
  <2>8. [t \in Term |-> None] \in [Term -> Scope] BY DEF Scope
  <2> QED BY <1>1, <2>2, <2>6, <2>7, <2>8
<1>4. CASE Seeded
  <2> DEFINE first == SeedCourse(Seed.institution, Seed.slugs[1])
             second == SeedCourse(Seed.institution, Seed.slugs[2])
             row == [scope |-> Seed.institution, slug |-> Seed.slugs[1], parent |-> {}]
             linked == [terms |-> {Seed.term}, prerequisites |-> {Seed.prerequisite}]
  <2>1. /\ Seed.prerequisite \in Course /\ Seed.main \in Course /\ Seed.main # Seed.prerequisite
        /\ Seed.institution \in Institution /\ Seed.term \in Term
        /\ Seed.slugs[1] \in Slug /\ Seed.slugs[2] \in Slug /\ Seed.slugs[2] # Seed.slugs[1]
    BY CatalogAssumption
  <2>2. /\ first \in CourseRow /\ second \in CourseRow
        /\ first.institution = Seed.institution /\ second.institution = Seed.institution
        /\ first.slug = Seed.slugs[1] /\ second.slug = Seed.slugs[2]
    BY <2>1 DEF SeedCourse, CourseRow, CourseStatus
  <2>3. row \in TermRow /\ row.scope = Seed.institution /\ row.parent = {}
    BY <2>1 DEF TermRow, Scope
  <2>4. linked \in Links /\ linked.terms = {Seed.term} /\ linked.prerequisites = {Seed.prerequisite}
    BY <2>1 DEF Links
  <2>5. NoLinks.terms = {} /\ NoLinks.prerequisites = {} BY DEF NoLinks
  <2>6. first # None /\ second # None /\ row \notin {None, Gone} BY <2>2, <2>3, Markers
  <2>7. /\ course = [c \in Course |-> IF c = Seed.prerequisite THEN first
                                      ELSE IF c = Seed.main THEN second ELSE None]
        /\ term = [t \in Term |-> IF t = Seed.term THEN row ELSE None]
        /\ links = [[c \in Course |-> NoLinks] EXCEPT ![Seed.main] = linked]
        /\ outline = [c \in Course |-> IF c = Seed.main THEN 1 ELSE 0]
    BY <1>4 DEF Seeded
  <2> HIDE DEF first, second, row, linked
  <2>8. /\ course \in [Course -> CourseRow \cup {None}]
        /\ course[Seed.prerequisite] = first /\ course[Seed.main] = second
        /\ \A c \in Course \ {Seed.prerequisite, Seed.main} : course[c] = None
    BY <2>1, <2>2, <2>7
  <2>9. /\ term \in [Term -> TermRow \cup {None, Gone}]
        /\ term[Seed.term] = row /\ \A t \in Term \ {Seed.term} : term[t] = None
    BY <2>1, <2>3, <2>7
  <2>10. /\ links \in [Course -> Links] /\ links[Seed.main] = linked
         /\ \A c \in Course \ {Seed.main} : links[c] = NoLinks
    BY <1>2, <2>1, <2>4, <2>7
  <2>11. outline \in [Course -> 0 .. MaxLessons]
    <3>1. 0 \in 0 .. MaxLessons /\ 1 \in 0 .. MaxLessons BY CatalogAssumption
    <3> QED BY <2>7, <3>1
  <2>12. \A t \in Term : Exists(term, t) <=> t = Seed.term BY <2>1, <2>6, <2>9 DEF Exists
  <2>13. UniqueSlugs(course) BY <2>1, <2>2, <2>8 DEF UniqueSlugs
  <2>14. UniqueTermSlugs(term) BY <2>12 DEF UniqueTermSlugs
  <2>15. \A c \in Course : \A t \in links[c].terms : Exists(term, t)
    BY <2>1, <2>4, <2>5, <2>10, <2>12
  <2>16. CatalogTypeOK
    BY <1>1, <2>8, <2>9, <2>10, <2>11, <2>13, <2>14, <2>15 DEF CatalogTypeOK
  <2>17. Linked
    BY <2>1, <2>2, <2>3, <2>4, <2>5, <2>6, <2>8, <2>9, <2>10 DEF Linked
  <2>18. /\ [t \in Term |-> Seed.institution] \in [Term -> Scope]
         /\ \A t \in Term : Exists(term, t) =>
                term[t].scope = [u \in Term |-> Seed.institution][t] /\ term[t].parent = {}
    BY <2>1, <2>3, <2>9, <2>12 DEF Scope
  <2> QED BY <1>1, <2>16, <2>17, <2>18
<1> QED BY <1>3, <1>4 DEF CatalogInit

LEMMA InitCatalog ==
    ASSUME CachedInit
    PROVE  CatalogInv
<1>1. /\ CatalogTypeOK /\ Linked /\ \A w \in Worker : worker[w] = Resting
      /\ \E scope \in [Term -> Scope] : \A t \in Term : Exists(term, t) =>
             term[t].scope = scope[t] /\ term[t].parent = {}
  BY InitTables DEF CachedInit
<1>2. /\ entry = [k \in Asked |-> None] /\ revision = [c \in Course |-> {}] /\ raced = {}
      /\ worker = [w \in Worker |-> Resting]
  BY DEF CachedInit, CatalogInit
<1>3. CatalogTypes
  BY <1>1, <1>2, RequestOps DEF CatalogTypes, CachedTypeOK
<1>4. Requests
  BY <1>1 DEF Requests, Honest, HonestRead, HonestRevision, HonestWrite, Resting
<1>5. Entries BY <1>2 DEF Entries
<1>6. Revisions
  <2>1. IsFiniteSet({}) /\ Cardinality({}) = 0 BY FS_EmptySet
  <2>2. \A c \in Course : revision[c] = {} BY <1>2
  <2>3. {r.version : r \in {}} = 1 .. 0 OBVIOUS
  <2> QED BY <2>1, <2>2, <2>3 DEF Revisions
<1>7. Scoped BY <1>1, RequestOps DEF Scoped, ScopedBy
<1> QED BY <1>1, <1>3, <1>4, <1>5, <1>6, <1>7 DEF CatalogInv

LEMMA InitIInv ==
    ASSUME Init
    PROVE  IInv
<1>1. CatalogInv /\ \A w \in Worker : worker[w] = Resting
  BY InitCatalog, InitTables DEF Init, CachedInit
<1>2. /\ logged = {} /\ seen = None /\ current = FALSE /\ outrun = {}
      /\ told = TRUE /\ trusted = FALSE
  BY DEF Init
<1>3. Students
  BY <1>1 DEF Students, Sound, SoundCopy, SoundCount, Resting
<1>4. Seen /\ Trusted /\ CompletionAnnounced /\ CompletedIsWhole
  BY <1>2 DEF Seen, Trusted, CompletionAnnounced, CompletedIsWhole
<1>5. StudyTypes /\ SummaryAddsUp
  <2>1. CASE /\ lesson = [l \in Lesson |-> None] /\ video = None
             /\ assessment = [a \in Assessment |-> None] /\ summary = None
    <3>1. CompletedLessons = {} /\ CompletedAssessments = {}
      BY <2>1 DEF CompletedLessons, CompletedAssessments
    <3> QED BY <1>2, <2>1, <3>1 DEF StudyTypes, Total, SummaryAddsUp
  <2>2. CASE StudySeeded
    <3>1. lesson = [l \in Lesson |-> [status |-> "completed", views |-> 0, dated |-> TRUE]]
      BY <2>2 DEF StudySeeded
    <3>2. assessment = [a \in Assessment |-> [status |-> "graded", attempts |-> 0]]
      BY <2>2 DEF StudySeeded
    <3>3. /\ summary = [status |-> "completed", lessons |-> Cardinality(Lesson),
                        assessments |-> Cardinality(Assessment), dated |-> TRUE]
          /\ video = [position |-> Max(Position), whole |-> TRUE, dated |-> TRUE]
      BY <2>2 DEF StudySeeded, SeedSummary
    <3>4. lesson \in [Lesson -> LessonProgress \cup {None}]
      <4>1. [status |-> "completed", views |-> 0, dated |-> TRUE] \in LessonProgress
        BY DEF LessonProgress, LessonProgressStatus
      <4> QED BY <3>1, <4>1
    <3>5. assessment \in [Assessment -> AssessmentProgress \cup {None}]
      <4>1. [status |-> "graded", attempts |-> 0] \in AssessmentProgress
        BY DEF AssessmentProgress, AssessmentProgressStatus
      <4> QED BY <3>2, <4>1
    <3>6. Max(Position) \in Nat
      <4>1. \E last \in Position : \A p \in Position : last >= p BY ProgressAssumption
      <4>2. Max(Position) \in Position BY <4>1 DEF Max
      <4> QED BY <4>2, ProgressAssumption
    <3>7. video \in VideoProgress BY <3>3, <3>6 DEF VideoProgress
    <3>8. summary \in CourseProgress
      BY <3>3, CompletedBounds DEF CourseProgress, CourseProgressStatus
    <3>9. StudyTypes BY <1>2, <3>4, <3>5, <3>7, <3>8 DEF StudyTypes, Total
    <3>10. CompletedLessons = Lesson /\ CompletedAssessments = Assessment
      <4>1. \A l \in Lesson : lesson[l] # None /\ lesson[l].status = "completed"
        <5>1. \A l \in Lesson : lesson[l] \in LessonProgress
          BY <3>1 DEF LessonProgress, LessonProgressStatus
        <5>2. None \notin LessonProgress BY ProgressAssumption
        <5> QED BY <3>1, <5>1, <5>2
      <4>2. \A a \in Assessment : assessment[a] # None /\ assessment[a].status = "graded"
        <5>1. \A a \in Assessment : assessment[a] \in AssessmentProgress
          BY <3>2 DEF AssessmentProgress, AssessmentProgressStatus
        <5>2. None \notin AssessmentProgress BY ProgressAssumption
        <5> QED BY <3>2, <5>1, <5>2
      <4> QED BY <4>1, <4>2 DEF CompletedLessons, CompletedAssessments
    <3>11. summary # None /\ summary.lessons = Cardinality(Lesson)
           /\ summary.assessments = Cardinality(Assessment)
      BY <3>3, <3>8, ProgressAssumption
    <3> QED BY <3>9, <3>10, <3>11 DEF SummaryAddsUp
  <2> QED BY <2>1, <2>2 DEF Init
<1> QED BY <1>1, <1>3, <1>4, <1>5 DEF IInv, StudyInv
-----------------------------------------------------------------------------
(* Invariants *)

LEMMA Invariance == Spec => []IInv
<1>1. Init => IInv BY InitIInv
<1>2. IInv /\ [Next]_vars => IInv' BY NextKeeps
<1> QED BY <1>1, <1>2, PTL DEF Spec

\* What Redis holds is what the database would answer, or is about to be deleted, unless
\* a write overtook it: with any number of readers and writers.
THEOREM CacheSound == Spec => []CacheTruthful
<1>1. IInv => CacheTruthful BY DEF IInv, CatalogInv, Entries, CacheTruthful
<1> QED BY <1>1, Invariance, PTL

LEMMA AnswerRow ==
    ASSUME NEW k \in Asked, k.view = "course-structure"
    PROVE  Answer(k)[k.course].row = course[k.course]
<1>1. /\ DOMAIN Rows(k) = {k.course} /\ Rows(k)[k.course] = [row |-> course[k.course], rest |-> None]
  BY DEF Rows, ShownBy
<1>2. Answer(k)[k.course] = [Rows(k)[k.course] EXCEPT !.rest = Structure(k.course)]
  BY <1>1 DEF Answer, WithRest
<1>3. PICK r1, r2, r3 : /\ Rows(k)[k.course] = [row |-> r1, rest |-> r2]
                        /\ r3 = Structure(k.course) /\ r1 = course[k.course]
  BY <1>1
<1>4. Answer(k)[k.course] = [[row |-> r1, rest |-> r2] EXCEPT !.rest = r3] BY <1>2, <1>3
<1>5. Answer(k)[k.course].row = r1 BY <1>4
<1> QED BY <1>3, <1>5

\* Courses, terms, revisions and the cached lists of them tell the same, always: no cached
\* list shows what is not published, revisions have no gaps, links stay in scope.
THEOREM CatalogSound == Spec => []CatalogAgrees
<1>1. CatalogInv => EntriesPublished
  <2> SUFFICES ASSUME CatalogInv, NEW k \in Asked, entry[k] # None,
                      k.view = "course-structure" => k \notin raced /\ ~Pending(k),
                      NEW c \in DOMAIN entry[k]
               PROVE  entry[k][c].row.status = "published" /\ ~entry[k][c].row.deleted
    BY DEF EntriesPublished
  <2>1. /\ Whole(k, entry[k])
        /\ k \in raced \/ Pending(k) \/
              /\ entry[k] = Answer(k)
              /\ k.view = "course-structure" => Published(k.course)
    BY DEF CatalogInv, Entries
  <2>2. CASE k.view # "course-structure" BY <2>1, <2>2 DEF Whole, Fetched
  <2>3. CASE k.view = "course-structure"
    <3>1. c = k.course /\ entry[k] = Answer(k) /\ Published(k.course)
      BY <2>1, <2>3 DEF Whole, Fetched
    <3>2. entry[k][c].row = course[k.course] BY <2>3, <3>1, AnswerRow
    <3> QED BY <3>1, <3>2 DEF Published
  <2> QED BY <2>2, <2>3
<1>2. CatalogInv => RevisionsConsecutive BY DEF CatalogInv, Revisions, RevisionsConsecutive
<1>3. CatalogInv => LinksInScope
  <2> SUFFICES ASSUME CatalogInv PROVE LinksInScope
    OBVIOUS
  <2>1. PICK scope \in [Term -> Scope] : ScopedBy(scope) BY DEF CatalogInv, Scoped
  <2>2. \A t \in Term : Exists(term, t) => \A p \in term[t].parent : p \in Term
    BY TermTypes DEF TermRow
  <2>3. \A t \in Term : Exists(term, t) =>
            \A p \in term[t].parent : Exists(term, p) /\ term[p].scope = term[t].scope
    BY <2>1, <2>2 DEF ScopedBy
  <2> QED BY <2>3 DEF CatalogInv, Linked, LinksInScope
<1>4. IInv => CatalogAgrees
  BY <1>1, <1>2, <1>3 DEF IInv, CatalogAgrees, CatalogInv, CatalogTypes
<1> QED BY <1>4, Invariance, PTL

\* The row of a course counts what the student completed, its completion is announced, and
\* a stale catalog completes no course early: with any number of lessons, events and requests.
THEOREM ProgressSound == Spec => []ProgressAgrees
<1>1. IInv => TypeOK
  BY DEF IInv, CatalogInv, CatalogTypes, StudyInv, StudyTypes, TypeOK, IsRequest
<1>2. IInv => ProgressAgrees
  BY <1>1 DEF IInv, StudyInv, ProgressAgrees
<1> QED BY <1>2, Invariance, PTL
-----------------------------------------------------------------------------
(* What no request that was not overtaken puts back *)

\* Of the requests that loaded something, only those that save it begin to delete keys.
LEMMA Saves ==
    ASSUME CatalogInv, CachedNext, NEW w \in Worker, Loaded(w), worker'[w].op = "invalidate"
    PROVE  SaveCourse(w) \/ PublishCourse(w) \/ ArchiveCourse(w) \/ DeleteCourse(w) \/ SaveTerm(w)
<1>1. worker[w].op # "invalidate" /\ ~MayBegin(w) /\ worker' # worker
  BY DEF Loaded, MayBegin, Resting
<1>2. \A k \in Asked : ~Expire(k) BY <1>1 DEF Expire, catalogVars
<1>3. PICK v \in Worker : ManagerNext(v) \/ ReaderNext(v) BY <1>2 DEF CachedNext
<1>4. v = w
  <2>1. CatalogStep(v) BY <1>3, ManagerSteps, ReaderSteps
  <2>2. PICK m : worker' = [worker EXCEPT ![v] = m] BY <2>1 DEF CatalogStep
  <2>3. v # w => worker'[w] = worker[w]
    BY <2>2, Moved DEF CatalogInv, CatalogTypes
  <2> QED BY <1>1, <2>3
<1>5. ASSUME NEW m, Continues(w, m), m.op # "invalidate" PROVE FALSE
  <2>1. worker' = [worker EXCEPT ![w] = m] BY <1>5 DEF Continues, Moves
  <2>2. worker'[w] = m BY <2>1, Moved DEF CatalogInv, CatalogTypes
  <2> QED BY <1>5, <2>2
<1>6. CASE ReaderNext(w)
  <2>1. \A k \in Asked : ~AskList(w, k) /\ ~AskDetail(w, k) /\ ~AskStructure(w, k)
    BY <1>1 DEF AskList, AskDetail, AskStructure
  <2>2. \A c \in Course : ~LoadForRevision(w, c) BY <1>1 DEF LoadForRevision
  <2>3. ~Invalidate(w) BY <1>1 DEF Invalidate
  <2>4. Resting.op # "invalidate" BY DEF Resting
  <2>5. ~StoreEntry(w) /\ ~Stop(w) /\ ~InsertRevision(w)
    BY <1>5, <2>4 DEF StoreEntry, Stop, InsertRevision
  <2>6. ASSUME NEW k, NEW step, NEW data, Continues(w, Reading(k, step, data)) PROVE FALSE
    <3>1. PICK m : m = Reading(k, step, data) OBVIOUS
    <3>2. m.op # "invalidate" BY <3>1 DEF Reading
    <3> QED BY <1>5, <2>6, <3>1, <3>2
  <2>7. ASSUME NEW c, NEW row, NEW n, NEW drawn, Continues(w, Revising(c, row, n, drawn)) PROVE FALSE
    <3>1. PICK m : m = Revising(c, row, n, drawn) OBVIOUS
    <3>2. m.op # "invalidate" BY <3>1 DEF Revising
    <3> QED BY <1>5, <2>7, <3>1, <3>2
  <2>8. ~ReadRows(w) /\ ~ReadRest(w) BY <2>6 DEF ReadRows, ReadRest
  <2>9. ~NumberRevision(w) /\ ~TakeSnapshot(w) BY <2>7 DEF NumberRevision, TakeSnapshot
  <2> QED BY <1>6, <2>1, <2>2, <2>3, <2>5, <2>8, <2>9 DEF ReaderNext
<1>7. CASE ManagerNext(w)
  <2>1. \A c \in Course : /\ \A change \in Change : /\ ~CreateCourse(w, c, change)
                                                    /\ ~LoadForUpdate(w, c, change)
                          /\ \A op \in {"publish", "archive", "delete"} : ~LoadForStatus(w, c, op)
                          /\ ~Restructure(w, c)
    BY <1>1 DEF CreateCourse, LoadForUpdate, LoadForStatus, Restructure
  <2>2. \A t \in Term : /\ \A change \in TermChange :
                              /\ ~LoadCategory(w, t, change)
                              /\ \A scope \in Scope : ~CreateCategory(w, t, scope, change)
                        /\ \A slug \in TagSlug :
                              /\ ~LoadTag(w, t, slug)
                              /\ \A scope \in Scope : ~CreateTag(w, t, scope, slug)
                        /\ ~DeleteTerm(w, t)
    BY <1>1 DEF LoadCategory, CreateCategory, LoadTag, CreateTag, DeleteTerm, MayChangeTerm, MayCreateTerm
  <2> QED BY <1>7, <2>1, <2>2 DEF ManagerNext
<1> QED BY <1>3, <1>4, <1>6, <1>7

LEMMA SavesRevertNothing ==
    ASSUME CatalogInv, CachedNext, NEW w \in Worker, Loaded(w), worker'[w].op = "invalidate",
           w \notin overtaken
    PROVE  /\ \A c \in Course : course[c] # None =>
                  /\ course[c].released => course'[c].released
                  /\ course[c].deleted => course'[c].deleted
           /\ worker[w].op = "term" => Exists(term, worker[w].term)
<1>1. course \in [Course -> CourseRow \cup {None}]
  BY DEF CatalogInv, CatalogTypes, CachedTypeOK, CatalogTypeOK
<1>2. HonestWrite(worker[w], FALSE)
  BY DEF CatalogInv, Requests, Honest, HonestWrite
<1>3. worker[w].op = "term" => Exists(term, worker[w].term) BY <1>2 DEF HonestWrite
<1>4. CASE SaveTerm(w)
  <2>1. course' = course BY <1>4 DEF SaveTerm, StoresAtOnce
  <2> QED BY <1>3, <2>1
<1>5. ASSUME NEW c \in Course, NEW row, course' = [course EXCEPT ![c] = row],
             course[c].released => row.released, course[c].deleted => row.deleted
      PROVE  \A d \in Course : course[d] # None =>
                 /\ course[d].released => course'[d].released
                 /\ course[d].deleted => course'[d].deleted
  <2>1. course'[c] = row /\ \A d \in Course : d # c => course'[d] = course[d] BY <1>1, <1>5
  <2> QED BY <1>5, <2>1
<1>6. CASE SaveCourse(w)
  <2>1. worker[w].op = "update" BY <1>6 DEF SaveCourse
  <2>2. worker[w] \in Update
    BY <2>1, RequestFields, ManagerFields DEF CatalogInv, CatalogTypes, CatalogOp
  <2>3. PICK c, row : c \in Course /\ c = worker[w].course /\ row = worker[w].row
    BY <2>2 DEF Update
  <2>4. course' = [course EXCEPT ![c] = row] BY <1>6, <2>3 DEF SaveCourse, Stores
  <2>5. row.released = course[c].released /\ row.deleted = course[c].deleted
    BY <1>2, <2>1, <2>3 DEF HonestWrite
  <2> QED BY <1>3, <1>5, <2>4, <2>5
<1>7. CASE PublishCourse(w) \/ ArchiveCourse(w) \/ DeleteCourse(w)
  <2>1. worker[w].op \in {"publish", "archive", "delete"}
    BY <1>7 DEF PublishCourse, ArchiveCourse, DeleteCourse
  <2>2. worker[w] \in Statuses
    BY <2>1, RequestFields, ManagerFields DEF CatalogInv, CatalogTypes, CatalogOp
  <2>3. PICK c \in Course : c = worker[w].course BY <2>2 DEF Statuses
  <2>4. course[c] # None /\ ~course[c].deleted BY <1>2, <2>1, <2>3 DEF HonestWrite
  <2>5. PICK old \in CourseRow : old = course[c] BY <1>1, <2>4
  <2>6. CASE PublishCourse(w)
    <3>1. PICK row : /\ row = [old EXCEPT !.status = "published", !.released = TRUE, !.deleted = FALSE]
                     /\ course' = [course EXCEPT ![c] = row]
      BY <2>3, <2>5, <2>6 DEF PublishCourse, Writes
    <3>2. row.released BY <3>1 DEF CourseRow
    <3> QED BY <1>3, <1>5, <2>4, <3>1, <3>2
  <2>7. CASE ArchiveCourse(w)
    <3>1. PICK row : row = [old EXCEPT !.status = "archived"] /\ course' = [course EXCEPT ![c] = row]
      BY <2>3, <2>5, <2>7 DEF ArchiveCourse, Writes
    <3>2. row.released = old.released /\ row.deleted = old.deleted BY <3>1 DEF CourseRow
    <3> QED BY <1>3, <1>5, <2>5, <3>1, <3>2
  <2>8. CASE DeleteCourse(w)
    <3>1. PICK row : /\ row = [old EXCEPT !.status = "deleted", !.deleted = TRUE]
                     /\ course' = [course EXCEPT ![c] = row]
      BY <2>3, <2>5, <2>8 DEF DeleteCourse, Writes
    <3>2. row.released = old.released /\ row.deleted = TRUE BY <3>1 DEF CourseRow
    <3> QED BY <1>3, <1>5, <2>5, <3>1, <3>2
  <2> QED BY <1>7, <2>6, <2>7, <2>8
<1> QED BY <1>4, <1>6, <1>7, Saves

\* The steps of the student neither write the catalog nor begin to delete its keys.
LEMMA StudentsAside ==
    ASSUME CatalogInv, NEW v \in Worker, StudyNext(v), UNCHANGED <<cacheVars, revision>>
    PROVE  /\ UNCHANGED <<course, outline, term, revision>>
           /\ \A w \in Worker : \/ worker'[w] = worker[w]
                                \/ w = v /\ worker'[w].op \in StudyOp \cup {"resting"}
<1>1. ASSUME NEW m, m.op \in StudyOp \cup {"resting"}, Proceeds(v, m)
      PROVE  /\ UNCHANGED <<course, outline, term, revision>>
             /\ \A w \in Worker : \/ worker'[w] = worker[w]
                                  \/ w = v /\ worker'[w].op \in StudyOp \cup {"resting"}
  <2>1. worker' = [worker EXCEPT ![v] = m] /\ UNCHANGED tables BY <1>1 DEF Proceeds
  <2>2. worker'[v] = m /\ \A w \in Worker : w # v => worker'[w] = worker[w]
    BY <2>1, Moved DEF CatalogInv, CatalogTypes
  <2> QED BY <1>1, <2>1, <2>2 DEF tables
<1>2. \E m : m.op \in StudyOp \cup {"resting"} /\ Proceeds(v, m)
  <2>1. ASSUME NEW l, NEW status, NEW total, GetLesson(v, l, status, total)
        PROVE  \E m : m.op = "lesson" /\ Proceeds(v, m)
    BY <2>1 DEF GetLesson, Reads
  <2>2. ASSUME NEW position, NEW whole, NEW total, GetVideo(v, position, whole, total)
        PROVE  \E m : m.op = "video" /\ Proceeds(v, m)
    BY <2>2 DEF GetVideo, Reads
  <2>3. ASSUME NEW a, NEW status, NEW total, GetAssessment(v, a, status, total)
        PROVE  \E m : m.op = "assessment" /\ Proceeds(v, m)
    BY <2>3 DEF GetAssessment, Reads
  <2>4. ASSUME NEW e \in Event, TakeEvent(v, e) PROVE \E m : m.op = "event" /\ Proceeds(v, m)
    BY <2>4 DEF TakeEvent, Reads
  <2>5. CASE RecordEvent(v)
    <3>1. worker[v].op = "event" BY <2>5 DEF RecordEvent
    <3>2. worker[v] \in Handling BY <3>1, StudyingFields, StudyFields DEF StudyOp
    <3>3. PICK m : m = [worker[v] EXCEPT !.step = "apply"] OBVIOUS
    <3>4. m.op = "event" BY <3>1, <3>2, <3>3 DEF Handling
    <3>5. Proceeds(v, m) BY <2>5, <3>3 DEF RecordEvent, Reads
    <3> QED BY <3>4, <3>5 DEF StudyOp
  <2>6. CASE SaveLesson(v) \/ SaveVideo(v) \/ SaveAssessment(v)
    <3>1. \E m : m.op = "lessons" /\ Proceeds(v, m)
      BY <2>6 DEF SaveLesson, SaveVideo, SaveAssessment, Saved, Outruns
    <3> QED BY <3>1 DEF StudyOp
  <2>7. CASE CountLessons(v) \/ CountAssessments(v)
    <3>1. \E m : m.op \in {"assessments", "summary"} /\ Proceeds(v, m)
      BY <2>7 DEF CountLessons, CountAssessments, Reads
    <3> QED BY <3>1 DEF StudyOp
  <2>8. CASE GetSummary(v)
    <3>1. \E m : m.op = "save" /\ Proceeds(v, m) BY <2>8 DEF GetSummary, Reads
    <3> QED BY <3>1 DEF StudyOp
  <2>9. CASE SaveSummary(v)
    <3>1. \E m : m.op = "announce" /\ Proceeds(v, m) BY <2>9 DEF SaveSummary, Outruns
    <3> QED BY <3>1 DEF StudyOp
  <2>10. CASE Publish(v) \/ CutShort(v)
    <3>1. Resting.op = "resting" BY DEF Resting
    <3> QED BY <2>10, <3>1 DEF Publish, CutShort
  <2>11. CASE PostVideo(v) \/ (\E l \in Lesson : PostLesson(v, l))
              \/ (\E a \in Assessment : PostAssessment(v, a)) \/ ApplyEvent(v)
    <3>1. \/ \E l, status, total : GetLesson(v, l, status, total)
          \/ \E position, whole, total : GetVideo(v, position, whole, total)
          \/ \E a, status, total : GetAssessment(v, a, status, total)
      <4>1. CASE PostVideo(v) BY <4>1 DEF PostVideo
      <4>2. ASSUME NEW l \in Lesson, PostLesson(v, l)
            PROVE  \E k, status, total : GetLesson(v, k, status, total)
        BY <4>2 DEF PostLesson
      <4>3. ASSUME NEW a \in Assessment, PostAssessment(v, a)
            PROVE  \E k, status, total : GetAssessment(v, k, status, total)
        BY <4>3 DEF PostAssessment
      <4>4. CASE ApplyEvent(v) BY <4>4 DEF ApplyEvent
      <4> QED BY <2>11, <4>1, <4>2, <4>3, <4>4
    <3>2. \E m : m.op \in {"lesson", "video", "assessment"} /\ Proceeds(v, m)
      BY <2>1, <2>2, <2>3, <3>1
    <3> QED BY <3>2 DEF StudyOp
  <2>12. CASE \E e \in Event : TakeEvent(v, e) BY <2>4, <2>12 DEF StudyOp
  <2> QED BY <2>5, <2>6, <2>7, <2>8, <2>9, <2>10, <2>11, <2>12 DEF StudyNext
<1> QED BY <1>1, <1>2

\* A revision is recorded as it was loaded, by a request that nothing overtook.
LEMMA RevisionsHonest ==
    ASSUME CatalogInv, CachedNext, NEW c \in Course, NEW r \in revision'[c], r \notin revision[c]
    PROVE  \/ r.row = course[c] /\ r.outline = outline[c]
           \/ \E w \in overtaken : worker[w].op = "revise" /\ worker[w].course = c
<1>1. revision' # revision OBVIOUS
<1>2. PICK w \in Worker : InsertRevision(w)
  BY <1>1 DEF CachedNext, ReaderNext, AskList, AskDetail, AskStructure, ReadRows, ReadRest,
     StoreEntry, Invalidate, Stop, Expire, LoadForRevision, NumberRevision, TakeSnapshot
<1>3. PICK d, new : /\ d = worker[w].course /\ new = Recorded(worker[w])
                    /\ revision' = [revision EXCEPT ![d] = revision[d] \cup {new}]
  BY <1>2 DEF InsertRevision
<1>4. worker[w].op = "revise" /\ worker[w].outline # None BY <1>2 DEF InsertRevision
<1>5. HonestRevision(worker[w], w \in overtaken) BY <1>4, RevisingFields
<1>6. c = d /\ r = new
  <2>1. revision \in [Course -> SUBSET CourseRevision]
    BY DEF CatalogInv, CatalogTypes, CachedTypeOK
  <2> QED BY <1>3, <2>1
<1>7. r.row = worker[w].row /\ r.outline = worker[w].outline BY <1>3, <1>6 DEF Recorded
<1>8. CASE w \in overtaken BY <1>3, <1>4, <1>6, <1>8
<1>9. CASE w \notin overtaken BY <1>3, <1>4, <1>5, <1>6, <1>7, <1>9 DEF HonestRevision
<1> QED BY <1>8, <1>9

LEMMA RowSaves ==
    ASSUME IInv, Next, NEW w \in Worker, worker[w].op \in {"lesson", "video", "assessment"},
           worker'[w].op = "lessons"
    PROVE  /\ worker[w].op = "lesson" => SaveLesson(w)
           /\ worker[w].op = "video" => SaveVideo(w)
           /\ worker[w].op = "assessment" => SaveAssessment(w)
<1>1. CatalogInv /\ StudyInv BY DEF IInv
<1>2. worker'[w] # worker[w] OBVIOUS
<1>3. ~CachedNext BY <1>1, <1>2, CatalogMoves DEF CatalogOp
<1>4. \A k \in Asked : ~Look(k) BY <1>2 DEF Look, cachedVars, catalogVars
<1>5. PICK v \in Worker : StudyNext(v) /\ UNCHANGED <<cacheVars, revision>> BY <1>3, <1>4 DEF Next
<1>6. v = w BY <1>1, <1>2, <1>5, StudentsAside
<1>7. ~MayBegin(w) BY DEF MayBegin, Resting
<1>8. ~CutShort(w) /\ ~Publish(w)
  <2>1. ASSUME Proceeds(w, Resting) PROVE FALSE
    <3>1. worker' = [worker EXCEPT ![w] = Resting] BY <2>1 DEF Proceeds
    <3>2. worker'[w] = Resting BY <1>1, <3>1, Moved DEF CatalogInv, CatalogTypes
    <3> QED BY <3>2 DEF Resting
  <2> QED BY <2>1 DEF CutShort, Publish
<1>9. /\ ~PostVideo(w) /\ \A l \in Lesson : ~PostLesson(w, l)
      /\ \A a \in Assessment : ~PostAssessment(w, a)
      /\ \A e \in Event : ~TakeEvent(w, e)
  BY <1>7 DEF PostVideo, PostLesson, PostAssessment, TakeEvent
<1>10. /\ ~RecordEvent(w) /\ ~ApplyEvent(w) /\ ~CountLessons(w) /\ ~CountAssessments(w)
       /\ ~GetSummary(w) /\ ~SaveSummary(w)
  <2>1. RecordEvent(w) => worker[w].op = "event" BY DEF RecordEvent
  <2>2. ApplyEvent(w) => worker[w].op = "event" BY DEF ApplyEvent
  <2>3. CountLessons(w) => worker[w].op = "lessons" BY DEF CountLessons
  <2>4. CountAssessments(w) => worker[w].op = "assessments" BY DEF CountAssessments
  <2>5. GetSummary(w) => worker[w].op = "summary" BY DEF GetSummary
  <2>6. SaveSummary(w) => worker[w].op = "save" BY DEF SaveSummary
  <2> QED BY <2>1, <2>2, <2>3, <2>4, <2>5, <2>6
<1>11. SaveLesson(w) \/ SaveVideo(w) \/ SaveAssessment(w)
  BY <1>5, <1>6, <1>8, <1>9, <1>10 DEF StudyNext
<1> QED BY <1>11 DEF SaveLesson, SaveVideo, SaveAssessment

\* A row that is saved goes on from the one it replaces.
LEMMA SavesKeepProgress ==
    ASSUME IInv, Next, NEW w \in Worker \ outrun
    PROVE  /\ worker[w].op = "lesson" /\ worker'[w].op = "lessons" =>
                  LET l == worker[w].lesson IN
                  lesson'[l].views > lesson[l].views /\ (lesson[l].dated => lesson'[l].dated)
           /\ worker[w].op = "video" /\ worker'[w].op = "lessons" =>
                  video'.position >= video.position /\ (video.dated => video'.dated)
           /\ worker[w].op = "assessment" /\ worker'[w].op = "lessons" =>
                  LET a == worker[w].assessment IN assessment'[a].attempts > assessment[a].attempts
<1>1. PICK m : m = worker[w] OBVIOUS
<1>2. SoundCopy(m, FALSE) BY <1>1 DEF IInv, StudyInv, Students, Sound, SoundCopy
<1>3. m.op \in StudyOp => m \in StudyState BY <1>1, StudyingFields DEF IInv
<1>4. /\ lesson \in [Lesson -> LessonProgress \cup {None}]
      /\ assessment \in [Assessment -> AssessmentProgress \cup {None}]
  BY DEF IInv, StudyInv, StudyTypes
<1>5. ASSUME m.op = "lesson", worker'[w].op = "lessons"
      PROVE  lesson'[m.lesson].views > lesson[m.lesson].views
             /\ (lesson[m.lesson].dated => lesson'[m.lesson].dated)
  <2>1. m.lesson \in Lesson BY <1>3, <1>5, StudyFields DEF StudyOp, OfLesson
  <2>2. SaveLesson(w) BY <1>1, <1>5, RowSaves
  <2>3. lesson'[m.lesson] = m.row BY <1>1, <1>4, <2>1, <2>2 DEF SaveLesson
  <2> QED BY <1>2, <1>5, <2>3 DEF SoundCopy
<1>6. ASSUME m.op = "video", worker'[w].op = "lessons"
      PROVE  video'.position >= video.position /\ (video.dated => video'.dated)
  <2>1. SaveVideo(w) BY <1>1, <1>6, RowSaves
  <2>2. video' = m.row BY <1>1, <2>1 DEF SaveVideo
  <2> QED BY <1>2, <1>6, <2>2 DEF SoundCopy
<1>7. ASSUME m.op = "assessment", worker'[w].op = "lessons"
      PROVE  assessment'[m.assessment].attempts > assessment[m.assessment].attempts
  <2>1. m.assessment \in Assessment BY <1>3, <1>7, StudyFields DEF StudyOp, OfAssessment
  <2>2. SaveAssessment(w) BY <1>1, <1>7, RowSaves
  <2>3. assessment'[m.assessment] = m.row BY <1>1, <1>4, <2>1, <2>2 DEF SaveAssessment
  <2> QED BY <1>2, <1>7, <2>3 DEF SoundCopy
<1> QED BY <1>1, <1>5, <1>6, <1>7

\* Nothing of a course, a term, a revision or the progress of a student is put back by a
\* request that no other overtook, whatever the requests in progress and their order.
THEOREM LossesOvertaken == Spec => OnlyOvertakenLose
<1>1. IInv /\ [Next]_vars =>
          [\A w \in Worker : Loaded(w) /\ worker'[w].op = "invalidate" /\ w \notin overtaken =>
               /\ \A c \in Course : course[c] # None =>
                      /\ course[c].released => course'[c].released
                      /\ course[c].deleted => course'[c].deleted
               /\ worker[w].op = "term" => Exists(term, worker[w].term)]_cachedVars
  <2> SUFFICES ASSUME IInv, [Next]_vars, cachedVars' # cachedVars,
                      NEW w \in Worker, Loaded(w), worker'[w].op = "invalidate", w \notin overtaken
               PROVE  /\ \A c \in Course : course[c] # None =>
                             /\ course[c].released => course'[c].released
                             /\ course[c].deleted => course'[c].deleted
                      /\ worker[w].op = "term" => Exists(term, worker[w].term)
    OBVIOUS
  <2>1. Next BY DEF vars
  <2>2. CatalogInv BY DEF IInv
  <2>3. CASE CachedNext BY <2>2, <2>3, SavesRevertNothing
  <2>4. CASE ~CachedNext
    <3>1. PICK v \in Worker : StudyNext(v) /\ UNCHANGED <<cacheVars, revision>>
      BY <2>1, <2>4 DEF Next, Look
    <3>2. worker'[w] = worker[w] \/ worker'[w].op \in StudyOp \cup {"resting"}
      BY <2>2, <3>1, StudentsAside
    <3> QED BY <3>2 DEF Loaded, StudyOp
  <2> QED BY <2>3, <2>4
<1>2. IInv /\ [Next]_vars =>
          [\A c \in Course : \A r \in revision'[c] \ revision[c] :
               \/ r.row = course[c] /\ r.outline = outline[c]
               \/ \E w \in overtaken : worker[w].op = "revise" /\ worker[w].course = c]_cachedVars
  <2> SUFFICES ASSUME IInv, [Next]_vars, cachedVars' # cachedVars,
                      NEW c \in Course, NEW r \in revision'[c] \ revision[c]
               PROVE  \/ r.row = course[c] /\ r.outline = outline[c]
                      \/ \E w \in overtaken : worker[w].op = "revise" /\ worker[w].course = c
    OBVIOUS
  <2>1. Next BY DEF vars
  <2>2. CatalogInv BY DEF IInv
  <2>3. CASE CachedNext BY <2>2, <2>3, RevisionsHonest
  <2>4. CASE ~CachedNext
    <3>1. revision' = revision BY <2>1, <2>4 DEF Next, Look
    <3> QED BY <3>1
  <2> QED BY <2>3, <2>4
<1>3. IInv /\ [Next]_vars =>
          [\A w \in Worker \ outrun :
               /\ worker[w].op = "lesson" /\ worker'[w].op = "lessons" =>
                      LET l == worker[w].lesson IN
                      lesson'[l].views > lesson[l].views /\ (lesson[l].dated => lesson'[l].dated)
               /\ worker[w].op = "video" /\ worker'[w].op = "lessons" =>
                      video'.position >= video.position /\ (video.dated => video'.dated)
               /\ worker[w].op = "assessment" /\ worker'[w].op = "lessons" =>
                      LET a == worker[w].assessment IN
                      assessment'[a].attempts > assessment[a].attempts]_vars
  BY SavesKeepProgress
<1> QED BY <1>1, <1>2, <1>3, Invariance, PTL
        DEF Spec, OnlyOvertakenLose, OnlyOvertakenRevert, RevisionTellsPresent, ProgressKept

=============================================================================
