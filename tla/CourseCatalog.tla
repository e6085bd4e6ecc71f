----------------------------- MODULE CourseCatalog -----------------------------
(***************************************************************************)
(* The courses, categories and tags of course-service as their managers    *)
(* write them.                                                             *)
(*                                                                         *)
(* A request keeps the copy of the row its view loaded.  An update writes  *)
(* every column of that copy and replaces the metadata it was sent, in one *)
(* transaction; publishing, archiving and deleting write some columns.     *)
(* After its commit each request deletes the keys of the catalog from      *)
(* Redis, one at a time: CatalogCache.                                     *)
(***************************************************************************)
EXTENDS Naturals, FiniteSets

CONSTANTS
    Course, Institution, Slug,
    Term, Tag,     \* categories and tags; those that are tags
    Change,        \* what requests on courses carry
    TermChange,    \* what requests on categories carry
    TagSlug,       \* what requests on tags carry
    Asked,         \* the keys of the catalog that students ask for
    Seed,          \* the courses, the institution, the slugs and the term of the seed data
    User,
    Granted,       \* what the tokens of each user may do, and in which scope
    Worker,        \* requests in progress
    None,
    Gone,          \* what a deleted category or tag leaves: ids are not used again
    MaxLessons,    \* bound on the lessons of a course
    MaxStarted     \* bound on the requests begun

VARIABLES
    course, links, term,
    outline,       \* how many published lessons each course has
    worker, started,
    overtaken,     \* history: requests in progress since before another one's commit
    moved          \* history: courses that changed institution

tables == <<course, links, term, outline>>
catalogVars == <<tables, worker, started, overtaken, moved>>

CourseStatus == {"draft", "published", "archived", "deleted"}

\* released: has it a published_at.
CourseRow == [institution : Institution, slug : Slug, status : CourseStatus,
              released : BOOLEAN, deleted : BOOLEAN]

\* A term of no institution is global.
Scope == Institution \cup {None}
Exists(terms, t) == terms[t] \notin {None, Gone}
TermRow == [scope : Scope, slug : Slug, parent : SUBSET (Term \ Tag)]

Links == [terms : SUBSET Term, prerequisites : SUBSET Course]
NoLinks == [terms |-> {}, prerequisites |-> {}]

\* A field that was not sent is None.
Sent(set) == set \cup {None}
\* _pop_metadata; categories and tags are sent together.
Changes == [institution : Sent(Institution), slug : Sent(Slug),
            terms : Sent(SUBSET Term), prerequisites : Sent(SUBSET Course)]
TermChanges == [slug : Sent(Slug), parent : Sent(SUBSET (Term \ Tag))]

CoursePermission == {"course.view", "course.manage", "progress.manage"} \X (Scope \cup Course)

ASSUME CatalogAssumption ==
    /\ Change \subseteq Changes /\ Tag \subseteq Term /\ TagSlug \subseteq Slug
    /\ TermChange \subseteq TermChanges
    /\ \A change \in TermChange : change.parent # None => Cardinality(change.parent) <= 1
    /\ Granted \in [User -> SUBSET CoursePermission]
    /\ Seed.prerequisite \in Course /\ Seed.main \in Course \ {Seed.prerequisite}
    /\ Seed.institution \in Institution /\ Seed.term \in Term
    /\ Seed.slugs[1] \in Slug /\ Seed.slugs[2] \in Slug \ {Seed.slugs[1]}
    /\ {None, Gone} \cap (Course \cup Institution \cup Slug \cup Term) = {}
    /\ {None, Gone} \cap (CourseRow \cup TermRow) = {} /\ None # Gone
    /\ MaxLessons \in Nat \ {0} /\ MaxStarted \in Nat

Resting == [op |-> "resting"]

ManagerState ==
    {Resting}
    \cup [op : {"update"}, course : Course, row : CourseRow, change : Change]
    \cup [op : {"publish", "archive", "delete"}, course : Course]
    \cup [op : {"term"}, term : Term, row : TermRow]
    \cup [op : {"invalidate"}, left : SUBSET Asked]

UniqueSlugs(courses) ==
    \A c1, c2 \in Course :
        /\ courses[c1] # None /\ courses[c2] # None /\ c1 # c2
        => <<courses[c1].institution, courses[c1].slug>> # <<courses[c2].institution, courses[c2].slug>>

UniqueTermSlugs(terms) ==
    \A t1, t2 \in Term :
        /\ Exists(terms, t1) /\ Exists(terms, t2) /\ t1 # t2 /\ (t1 \in Tag <=> t2 \in Tag)
        => <<terms[t1].scope, terms[t1].slug>> # <<terms[t2].scope, terms[t2].slug>>

CatalogTypeOK ==
    /\ course \in [Course -> CourseRow \cup {None}] /\ UniqueSlugs(course)
    /\ term \in [Term -> TermRow \cup {None, Gone}] /\ UniqueTermSlugs(term)
    /\ links \in [Course -> Links]
    /\ \A c \in Course : \A t \in links[c].terms : Exists(term, t)
    /\ outline \in [Course -> 0 .. MaxLessons]
    /\ started \in 0 .. MaxStarted + 1
    /\ overtaken \subseteq Worker /\ moved \subseteq Course

\* The seed data: one institution, its terms without parents, a published course and
\* another one that requires it.
SeedCourse(i, s) == [institution |-> i, slug |-> s, status |-> "published",
                     released |-> TRUE, deleted |-> FALSE]

Seeded ==
    /\ course = [c \in Course |->
           IF c = Seed.prerequisite THEN SeedCourse(Seed.institution, Seed.slugs[1])
           ELSE IF c = Seed.main THEN SeedCourse(Seed.institution, Seed.slugs[2]) ELSE None]
    /\ term = [t \in Term |->
           IF t = Seed.term THEN [scope |-> Seed.institution, slug |-> Seed.slugs[1], parent |-> {}]
           ELSE None]
    /\ links = [[c \in Course |-> NoLinks] EXCEPT
                    ![Seed.main] = [terms |-> {Seed.term}, prerequisites |-> {Seed.prerequisite}]]
    /\ outline = [c \in Course |-> IF c = Seed.main THEN 1 ELSE 0]

CatalogInit ==
    /\ \/ /\ course = [c \in Course |-> None]
          /\ term = [t \in Term |-> None]
          /\ links = [c \in Course |-> NoLinks]
          /\ outline = [c \in Course |-> 0]
       \/ Seeded
    /\ worker = [w \in Worker |-> Resting]
    /\ started = 0 /\ overtaken = {} /\ moved = {}

-----------------------------------------------------------------------------
(* Requests *)

\* has_course_permission: asks auth-service about the institution, or the platform if None.
HasCoursePermission(u, permission, scope) == <<permission, scope>> \in Granted[u]

Manageable(scope) == \E u \in User : HasCoursePermission(u, "course.manage", scope)

\* _has_course_manage and _has_course_view: in the institution, or assigned to the course.
HasOnCourse(u, permission, c) ==
    \/ HasCoursePermission(u, permission, course[c].institution)
    \/ HasCoursePermission(u, permission, c)

\* course_queryset
Live(c) == course[c] # None /\ course[c].status # "deleted" /\ ~course[c].deleted

\* Requests of the catalog between what they read and what they write.
Loaded(w) == worker[w].op \in {"read", "revise", "update", "publish", "archive", "delete", "term"}

MayBegin(w) == worker[w] = Resting /\ started < MaxStarted

Moves(w, state) ==
    /\ worker' = [worker EXCEPT ![w] = state]
    /\ started' = IF worker[w] = Resting THEN started + 1 ELSE started

\* A request that goes on without a commit, or ends.
Continues(w, state) ==
    /\ Moves(w, state)
    /\ overtaken' = IF state = Resting THEN overtaken \ {w} ELSE overtaken
    /\ UNCHANGED <<tables, moved>>

\* Every loaded copy is from before this commit.
Commits(w) ==
    /\ Moves(w, [op |-> "invalidate", left |-> Asked])
    /\ overtaken' = (overtaken \cup {v \in Worker : Loaded(v)}) \ {w}

-----------------------------------------------------------------------------
(* Metadata of courses: _replace_categories, _replace_tags, _replace_prerequisites *)

\* _scoped_objects
TermsFit(institution, terms) ==
    \A t \in terms : Exists(term, t) /\ term[t].scope \in {None, institution}

\* What is required may require the course in turn.
PrerequisitesFit(c, institution, courses) ==
    /\ c \notin courses
    /\ \A p \in courses : Live(p) /\ course[p].institution = institution

MetadataFits(c, row, change) ==
    /\ change.terms # None => TermsFit(row.institution, change.terms)
    /\ change.prerequisites # None =>
           PrerequisitesFit(c, row.institution, change.prerequisites)

Replaced(old, change) ==
    [terms |-> IF change.terms = None THEN old.terms ELSE change.terms,
     prerequisites |->
         IF change.prerequisites = None THEN old.prerequisites ELSE change.prerequisites]

-----------------------------------------------------------------------------
(* Courses *)

\* The columns of the row that the request carries.
Merged(row, change) ==
    [row EXCEPT !.institution = IF change.institution = None THEN @ ELSE change.institution,
                !.slug = IF change.slug = None THEN @ ELSE change.slug]

\* uq_courses_institution_slug, and replace_course_metadata in the same transaction.
Stores(c, row, change) ==
    /\ course' = [course EXCEPT ![c] = row] /\ UniqueSlugs(course')
    /\ MetadataFits(c, row, change)
    /\ links' = [links EXCEPT ![c] = Replaced(@, change)]

FreeSlug(c, institution, slug) ==
    \A d \in Course \ {c} :
        course[d] # None => <<course[d].institution, course[d].slug>> # <<institution, slug>>

\* CourseCreateSerializer
Creates(c, change) ==
    /\ change.institution # None /\ change.slug # None
    /\ FreeSlug(c, change.institution, change.slug)

\* create_course
NewCourse(change) == [institution |-> change.institution, slug |-> change.slug,
                      status |-> "draft", released |-> FALSE, deleted |-> FALSE]

\* CourseListCreateView.post
CreateCourse(w, c, change) ==
    /\ MayBegin(w) /\ course[c] = None
    /\ Creates(c, change) /\ Manageable(change.institution)
    /\ Commits(w) /\ Stores(c, NewCourse(change), change)
    /\ UNCHANGED <<term, outline, moved>>

\* CourseUpdateSerializer
Updates(c, change) ==
    LET row == Merged(course[c], change) IN FreeSlug(c, row.institution, row.slug)

\* CourseDetailView.patch: the permission is asked for both institutions.
LoadForUpdate(w, c, change) ==
    /\ MayBegin(w) /\ Live(c) /\ Updates(c, change)
    /\ Manageable(course[c].institution)
    /\ change.institution # None => Manageable(change.institution)
    /\ Continues(w, [op |-> "update", course |-> c, row |-> Merged(course[c], change),
                     change |-> change])

\* update_course
SaveCourse(w) ==
    LET c == worker[w].course
        row == worker[w].row
    IN  /\ worker[w].op = "update"
        /\ Commits(w) /\ Stores(c, row, worker[w].change)
        /\ moved' = IF row.institution # course[c].institution THEN moved \cup {c} ELSE moved
        /\ UNCHANGED <<term, outline>>

\* CoursePublishView, CourseArchiveView, CourseDetailView.delete.
LoadForStatus(w, c, op) ==
    /\ MayBegin(w) /\ Live(c) /\ Manageable(course[c].institution)
    /\ Continues(w, [op |-> op, course |-> c])

Writes(w, row) ==
    /\ Commits(w)
    /\ course' = [course EXCEPT ![worker[w].course] = row]
    /\ UNCHANGED <<links, term, outline, moved>>

\* publish_course
PublishCourse(w) ==
    /\ worker[w].op = "publish"
    /\ Writes(w, [course[worker[w].course] EXCEPT !.status = "published", !.released = TRUE,
                                                  !.deleted = FALSE])

\* archive_course
ArchiveCourse(w) ==
    /\ worker[w].op = "archive"
    /\ Writes(w, [course[worker[w].course] EXCEPT !.status = "archived"])

\* delete_course
DeleteCourse(w) ==
    /\ worker[w].op = "delete"
    /\ Writes(w, [course[worker[w].course] EXCEPT !.status = "deleted", !.deleted = TRUE])

\* The writes of CourseStructure that publish or archive a lesson.
Restructure(w, c) ==
    /\ MayBegin(w) /\ Live(c)
    /\ \E u \in User : HasOnCourse(u, "course.manage", c)
    /\ Commits(w)
    /\ \E n \in 0 .. MaxLessons :
          /\ n + 1 = outline[c] \/ n = outline[c] + 1
          /\ outline' = [outline EXCEPT ![c] = n]
    /\ UNCHANGED <<course, links, term, moved>>

-----------------------------------------------------------------------------
(* Categories and tags *)

\* _validate_category_scope
ParentFits(t, scope, parent) ==
    \A p \in parent : p # t /\ Exists(term, p) /\ term[p].scope = scope

\* The unique constraints and the foreign key of the parent.
StoresTerm(t, row) ==
    /\ term' = [term EXCEPT ![t] = row] /\ UniqueTermSlugs(term')
    /\ \A p \in row.parent : Exists(term, p)

FreeTermSlug(t, scope, slug) ==
    \A u \in Term \ {t} :
        Exists(term, u) /\ (u \in Tag <=> t \in Tag) => <<term[u].scope, term[u].slug>> # <<scope, slug>>

\* CategoryCreateSerializer
CreatesCategory(t, scope, change) ==
    /\ change.slug # None /\ change.parent # None
    /\ ParentFits(t, scope, change.parent)
    /\ FreeTermSlug(t, scope, change.slug)

\* create_category
NewCategory(scope, change) == [scope |-> scope, slug |-> change.slug, parent |-> change.parent]

\* create_tag
NewTag(scope, slug) == [scope |-> scope, slug |-> slug, parent |-> {}]

MayCreateTerm(w, t, scope) == MayBegin(w) /\ term[t] = None /\ Manageable(scope)

StoresAtOnce(w, t, row) ==
    /\ Commits(w) /\ StoresTerm(t, row)
    /\ UNCHANGED <<course, links, outline, moved>>

\* CategoryListCreateView.post
CreateCategory(w, t, scope, change) ==
    /\ t \notin Tag /\ MayCreateTerm(w, t, scope) /\ CreatesCategory(t, scope, change)
    /\ StoresAtOnce(w, t, NewCategory(scope, change))

\* TagListCreateView.post and TagCreateSerializer.
CreateTag(w, t, scope, slug) ==
    /\ t \in Tag /\ MayCreateTerm(w, t, scope) /\ FreeTermSlug(t, scope, slug)
    /\ StoresAtOnce(w, t, NewTag(scope, slug))

MayChangeTerm(w, t) == MayBegin(w) /\ Exists(term, t) /\ Manageable(term[t].scope)

MergedCategory(row, change) ==
    [row EXCEPT !.slug = IF change.slug = None THEN @ ELSE change.slug,
                !.parent = IF change.parent = None THEN @ ELSE change.parent]

\* CategoryUpdateSerializer: the scope of a category does not change.
UpdatesCategory(t, change) ==
    /\ change.parent # None => ParentFits(t, term[t].scope, change.parent)
    /\ FreeTermSlug(t, term[t].scope, MergedCategory(term[t], change).slug)

\* CategoryDetailView.patch
LoadCategory(w, t, change) ==
    /\ t \notin Tag /\ MayChangeTerm(w, t) /\ UpdatesCategory(t, change)
    /\ Continues(w, [op |-> "term", term |-> t, row |-> MergedCategory(term[t], change)])

\* TagDetailView.patch and TagUpdateSerializer.
LoadTag(w, t, slug) ==
    /\ t \in Tag /\ MayChangeTerm(w, t) /\ FreeTermSlug(t, term[t].scope, slug)
    /\ Continues(w, [op |-> "term", term |-> t, row |-> [term[t] EXCEPT !.slug = slug]])

\* update_category, update_tag: save() inserts the row again if it was deleted meanwhile.
SaveTerm(w) ==
    /\ worker[w].op = "term"
    /\ StoresAtOnce(w, worker[w].term, worker[w].row)

\* on_delete of the foreign keys: children lose their parent, and courses their link.
DeletesTerm(t) ==
    /\ term' = [u \in Term |-> IF u = t THEN Gone
                               ELSE IF ~Exists(term, u) THEN term[u]
                               ELSE [term[u] EXCEPT !.parent = @ \ {t}]]
    /\ links' = [c \in Course |-> [links[c] EXCEPT !.terms = @ \ {t}]]

\* CategoryDetailView.delete, TagDetailView.delete.
DeleteTerm(w, t) ==
    /\ MayChangeTerm(w, t)
    /\ Commits(w) /\ DeletesTerm(t)
    /\ UNCHANGED <<course, outline, moved>>

ManagerNext(w) ==
    \/ \E c \in Course : \/ \E change \in Change : CreateCourse(w, c, change)
                                                   \/ LoadForUpdate(w, c, change)
                         \/ \E op \in {"publish", "archive", "delete"} : LoadForStatus(w, c, op)
                         \/ Restructure(w, c)
    \/ SaveCourse(w) \/ PublishCourse(w) \/ ArchiveCourse(w) \/ DeleteCourse(w)
    \/ \E t \in Term : \/ \E change \in TermChange :
                             \/ LoadCategory(w, t, change)
                             \/ \E scope \in Scope : CreateCategory(w, t, scope, change)
                       \/ \E slug \in TagSlug : \/ LoadTag(w, t, slug)
                                                \/ \E scope \in Scope : CreateTag(w, t, scope, slug)
                       \/ DeleteTerm(w, t)
    \/ SaveTerm(w)

=============================================================================
