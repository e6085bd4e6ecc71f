----------------------------- MODULE CatalogCache ------------------------------
(***************************************************************************)
(* The catalog as students read it, from Redis when it is there, and the   *)
(* numbered revisions of a course.                                         *)
(*                                                                         *)
(* A read that finds no entry queries the database in several statements   *)
(* and stores what it saw.  A write deletes the entries after its commit,  *)
(* unless Redis fails or the process stops, and then they stay until they  *)
(* expire.                                                                 *)
(***************************************************************************)
EXTENDS CourseCatalog, FiniteSetsExt

VARIABLES
    entry,         \* what Redis holds under each key, None if nothing
    revision,      \* the revisions of each course
    raced          \* history: keys whose entry a write overtook, or failed to delete

cacheVars == <<entry, raced>>
cachedVars == <<catalogVars, cacheVars, revision>>

CatalogKey ==
    [view : {"course-list"}, course : {None}]
    \cup [view : {"course-detail", "course-structure"}, course : Course]

ASSUME CacheAssumption == Asked \subseteq CatalogKey

CourseRevision == [version : Nat, row : CourseRow, outline : 0 .. MaxLessons]

\* A read, and the creation of a revision, from its first query to its last statement.
IsRead(state) ==
    /\ DOMAIN state = {"op", "key", "step", "data"}
    /\ state.op = "read" /\ state.key \in Asked /\ state.step \in {"rows", "rest", "store"}
    /\ DOMAIN state.data \subseteq Course

RevisionState ==
    [op : {"revise"}, course : Course, row : CourseRow, version : Nat \cup {None},
     outline : 0 .. MaxLessons \cup {None}]

CachedTypeOK ==
    /\ CatalogTypeOK
    /\ DOMAIN entry = Asked
    /\ revision \in [Course -> SUBSET CourseRevision]
    /\ raced \subseteq Asked

CachedInit ==
    /\ CatalogInit
    /\ entry = [k \in Asked |-> None]
    /\ revision = [c \in Course |-> {}]
    /\ raced = {}

-----------------------------------------------------------------------------
(* Reads *)

Published(c) == course[c] # None /\ course[c].status = "published" /\ ~course[c].deleted

\* search_courses for students, or the course that was asked for.
ShownBy(k) == IF k.view = "course-list" THEN {c \in Course : Published(c)} ELSE {k.course}

\* The fields of the course that every view serializes.
Rows(k) == [c \in ShownBy(k) |-> [row |-> course[c], rest |-> None]]

\* CourseSerializer: the categories and tags with their names, and the ids of prerequisites.
Metadata(c) == [terms |-> [t \in links[c].terms |-> term[t]],
                prerequisites |-> links[c].prerequisites]

\* CourseStructureSerializer: the published modules and lessons.
Structure(c) == [outline |-> outline[c]]

WithRest(k, data) ==
    [c \in DOMAIN data |->
        [data[c] EXCEPT !.rest = IF k.view = "course-structure" THEN Structure(c) ELSE Metadata(c)]]

\* What a read in one moment would answer.
Answer(k) == WithRest(k, Rows(k))

Reading(k, step, data) == [op |-> "read", key |-> k, step |-> step, data |-> data]

\* A user who may see the course and not manage it; those who may are not answered from Redis.
StudentOf(c) ==
    \E u \in User : HasOnCourse(u, "course.view", c) /\ ~HasOnCourse(u, "course.manage", c)

\* CourseListCreateView.get
AskList(w, k) ==
    /\ MayBegin(w) /\ k.view = "course-list"
    /\ \E u \in User, scope \in Scope : /\ HasCoursePermission(u, "course.view", scope)
                                        /\ ~HasCoursePermission(u, "course.manage", scope)
    /\ Continues(w, Reading(k, "rows", <<>>))
    /\ UNCHANGED <<cacheVars, revision>>

\* CourseDetailView.get: the course is queried before Redis is.
AskDetail(w, k) ==
    /\ MayBegin(w) /\ k.view = "course-detail"
    /\ Published(k.course) /\ StudentOf(k.course)
    /\ Continues(w, Reading(k, "rest", Rows(k)))
    /\ UNCHANGED <<cacheVars, revision>>

\* CourseStructureView.get up to the query of the structure; _require_structure_read.
AskStructure(w, k) ==
    /\ MayBegin(w) /\ k.view = "course-structure"
    /\ Published(k.course) /\ StudentOf(k.course)
    /\ Continues(w, Reading(k, "rows", <<>>))
    /\ UNCHANGED <<cacheVars, revision>>

\* The query of the courses, which the one for the structure does not restrict to
\* published ones.
ReadRows(w) ==
    /\ worker[w].op = "read" /\ worker[w].step = "rows"
    /\ Continues(w, Reading(worker[w].key, "rest", Rows(worker[w].key)))
    /\ UNCHANGED <<cacheVars, revision>>

\* prefetch_related: one more query for what belongs to the rows.
ReadRest(w) ==
    /\ worker[w].op = "read" /\ worker[w].step = "rest"
    /\ Continues(w, Reading(worker[w].key, "store", WithRest(worker[w].key, worker[w].data)))
    /\ UNCHANGED <<cacheVars, revision>>

\* set_catalog_cache
StoreEntry(w) ==
    LET k == worker[w].key IN
    /\ worker[w].op = "read" /\ worker[w].step = "store"
    /\ entry' = [entry EXCEPT ![k] = worker[w].data]
    /\ raced' = IF w \in overtaken THEN raced \cup {k} ELSE raced \ {k}
    /\ Continues(w, Resting)
    /\ UNCHANGED revision

-----------------------------------------------------------------------------
(* Invalidation *)

\* Mutation of Invalidate: the structure of a course keeps its entry.
InvalidateLists(w) ==
    /\ worker[w].op = "invalidate"
    /\ \E k \in worker[w].left :
          /\ entry' = IF k.view = "course-structure" THEN entry ELSE [entry EXCEPT ![k] = None]
          /\ raced' = raced \ {k}
          /\ LET left == worker[w].left \ {k} IN
             Continues(w, IF left = {} THEN Resting ELSE [op |-> "invalidate", left |-> left])
    /\ UNCHANGED revision

\* invalidate_catalog_cache: a scan, in any order, that deletes one key at a time.
Invalidate(w) ==
    /\ worker[w].op = "invalidate"
    /\ \E k \in worker[w].left :
          /\ entry' = [entry EXCEPT ![k] = None]
          /\ raced' = raced \ {k}
          /\ LET left == worker[w].left \ {k} IN
             Continues(w, IF left = {} THEN Resting ELSE [op |-> "invalidate", left |-> left])
    /\ UNCHANGED revision

\* setex: 300 seconds after it was stored.
Expire(k) ==
    /\ entry[k] # None
    /\ entry' = [entry EXCEPT ![k] = None]
    /\ raced' = raced \ {k}
    /\ UNCHANGED <<catalogVars, revision>>

\* Redis cannot be reached, a transaction is rolled back, or the process stops.
Stop(w) ==
    /\ Loaded(w) \/ worker[w].op = "invalidate"
    /\ raced' = IF worker[w].op = "invalidate"
                THEN raced \cup {k \in worker[w].left : entry[k] # None} ELSE raced
    /\ Continues(w, Resting)
    /\ UNCHANGED <<entry, revision>>

-----------------------------------------------------------------------------
(* Revisions *)

Revising(c, row, version, drawn) ==
    [op |-> "revise", course |-> c, row |-> row, version |-> version, outline |-> drawn]

\* CourseRevisionListCreateView.post
LoadForRevision(w, c) ==
    /\ MayBegin(w) /\ Live(c) /\ Manageable(course[c].institution)
    /\ Continues(w, Revising(c, course[c], None, None))
    /\ UNCHANGED <<cacheVars, revision>>

\* The greatest version_number of the course, plus one.
NextVersion(c) == Max({r.version : r \in revision[c]} \cup {0}) + 1

NumberRevision(w) ==
    LET c == worker[w].course IN
    /\ worker[w].op = "revise" /\ worker[w].version = None
    /\ Continues(w, Revising(c, worker[w].row, NextVersion(c), None))
    /\ UNCHANGED <<cacheVars, revision>>

\* course_structure_snapshot: the course as it was loaded, its structure as it is now.
TakeSnapshot(w) ==
    LET c == worker[w].course IN
    /\ worker[w].op = "revise" /\ worker[w].version # None /\ worker[w].outline = None
    /\ Continues(w, Revising(c, worker[w].row, worker[w].version, outline[c]))
    /\ UNCHANGED <<cacheVars, revision>>

Recorded(state) == [version |-> state.version, row |-> state.row, outline |-> state.outline]

\* Mutation of InsertRevision: two revisions may have the same number.
InsertRevisionAnyway(w) ==
    LET c == worker[w].course IN
    /\ worker[w].op = "revise" /\ worker[w].outline # None
    /\ revision' = [revision EXCEPT ![c] = @ \cup {Recorded(worker[w])}]
    /\ Continues(w, Resting)
    /\ UNCHANGED cacheVars

\* uq_course_revisions_course_version
InsertRevision(w) ==
    LET c == worker[w].course IN
    /\ worker[w].op = "revise" /\ worker[w].outline # None
    /\ \A r \in revision[c] : r.version # worker[w].version
    /\ revision' = [revision EXCEPT ![c] = @ \cup {Recorded(worker[w])}]
    /\ Continues(w, Resting)
    /\ UNCHANGED cacheVars

ReaderNext(w) ==
    \/ \E k \in Asked : AskList(w, k) \/ AskDetail(w, k) \/ AskStructure(w, k)
    \/ ReadRows(w) \/ ReadRest(w) \/ StoreEntry(w) \/ Invalidate(w) \/ Stop(w)
    \/ \E c \in Course : LoadForRevision(w, c)
    \/ NumberRevision(w) \/ TakeSnapshot(w) \/ InsertRevision(w)

CachedNext ==
    \/ \E w \in Worker : \/ ManagerNext(w) /\ UNCHANGED <<cacheVars, revision>>
                         \/ ReaderNext(w)
    \/ \E k \in Asked : Expire(k)

-----------------------------------------------------------------------------
(* Properties *)

Pending(k) == \E w \in Worker : worker[w].op = "invalidate" /\ k \in worker[w].left

\* What Redis holds is what the database would answer now, or is about to be deleted,
\* unless a write committed during the read that stored it, or failed to delete it.
CacheTruthful ==
    \A k \in Asked : entry[k] # None /\ k \notin raced => entry[k] = Answer(k) \/ Pending(k)

\* The list and the page of a course never show one as it is not published, however reads
\* and writes overlap; a structure does only when a write overtook its read.
EntriesPublished ==
    \A k \in Asked :
        entry[k] # None /\ (k.view = "course-structure" => k \notin raced /\ ~Pending(k))
        => \A c \in DOMAIN entry[k] :
               entry[k][c].row.status = "published" /\ ~entry[k][c].row.deleted

\* The revisions of a course are numbered from 1 without gaps or repetitions, however many
\* are created at a time or are given up.
RevisionsConsecutive ==
    \A c \in Course : {r.version : r \in revision[c]} = 1 .. Cardinality(revision[c])

\* A revision is the course with its structure as both are when it is recorded, unless a
\* write committed since its request began.
RevisionTellsPresent ==
    [][\A c \in Course : \A r \in revision'[c] \ revision[c] :
           \/ r.row = course[c] /\ r.outline = outline[c]
           \/ \E w \in overtaken : worker[w].op = "revise" /\ worker[w].course = c]_cachedVars

\* Categories, tags and prerequisites are of the institution of the course, or global,
\* unless a course moved to another institution; so are the parents of categories.
LinksInScope ==
    /\ \A c \in Course \ moved :
          /\ \A t \in links[c].terms : term[t].scope \in {None, course[c].institution}
          /\ \A p \in links[c].prerequisites \ moved :
                 p # c /\ course[p].institution = course[c].institution
    /\ \A t \in Term : Exists(term, t) =>
           \A p \in term[t].parent : Exists(term, p) /\ term[p].scope = term[t].scope

\* Only a request that another one overtook brings back a deleted course, takes away the
\* date of a publication, or brings back a deleted category or tag.
OnlyOvertakenRevert ==
    [][\A w \in Worker : Loaded(w) /\ worker'[w].op = "invalidate" /\ w \notin overtaken =>
           /\ \A c \in Course : course[c] # None =>
                  /\ course[c].released => course'[c].released
                  /\ course[c].deleted => course'[c].deleted
           /\ worker[w].op = "term" => Exists(term, worker[w].term)]_cachedVars

\* Courses, their categories, tags, prerequisites and revisions, and the cached lists of
\* them tell the same, however updates, revisions and reads overlap.
CatalogAgrees == CachedTypeOK /\ EntriesPublished /\ RevisionsConsecutive /\ LinksInScope

=============================================================================
