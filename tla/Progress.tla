------------------------------- MODULE Progress --------------------------------
(***************************************************************************)
(* The progress of one student in one course, in progress-service, and the *)
(* catalog from which the player of the student portal takes how many      *)
(* lessons there are.                                                      *)
(*                                                                         *)
(* Nothing here is a transaction.  A request reads the row of a lesson, a  *)
(* video or an assessment, saves every column of its copy, counts what is  *)
(* completed, reads and saves the row of the course, and sends an event.   *)
(* Others may run between any two of these, and it may stop.               *)
(***************************************************************************)
EXTENDS CatalogCache

CONSTANTS
    Studied,       \* the course
    Lesson, Assessment,
    Event,         \* events from other services
    EventType,     \* the type of each
    LessonSent, AssessmentSent,  \* the statuses that requests carry
    Position       \* positions in the video that players report

VARIABLES
    lesson, video, assessment,
    summary,       \* the row of the course
    logged,        \* progress_events
    seen,          \* how many lessons the player of the student shows
    current,       \* history: it showed the truth, and the structure has not changed since
    outrun,        \* history: requests in progress since before a write of another
    unsure,        \* history: the row of the course was saved by such a request, or not saved
    told,          \* history: CourseCompleted was sent since the course was last completed
    muddled,       \* history: a completion was not noticed, or its request was cut short
    trusted        \* history: the row of the course counts the lessons of the structure

studyRows == <<lesson, video, assessment, summary, logged>>
studyVars == <<studyRows, outrun, unsure, told, muddled, trusted>>
vars == <<cachedVars, studyVars, seen, current>>

LessonProgressStatus == {"not_started", "in_progress", "completed"}
AssessmentProgressStatus == {"not_started", "started", "submitted", "graded"}
CourseProgressStatus == {"not_started", "in_progress", "completed"}

\* dated: has it a completed_at.
LessonProgress == [status : LessonProgressStatus, views : Nat, dated : BOOLEAN]

\* percent_complete is that of the position, or 100.
VideoProgress == [position : Nat, whole : BOOLEAN, dated : BOOLEAN]

AssessmentProgress == [status : AssessmentProgressStatus, attempts : Nat]

CourseProgress == [status : CourseProgressStatus, lessons : 0 .. Cardinality(Lesson),
                   assessments : 0 .. Cardinality(Assessment), dated : BOOLEAN]

ASSUME ProgressAssumption ==
    /\ LessonSent \subseteq LessonProgressStatus /\ AssessmentSent \subseteq AssessmentProgressStatus
    /\ Studied \in Course /\ IsFiniteSet(Lesson) /\ IsFiniteSet(Assessment)
    /\ Position \subseteq Nat /\ \E last \in Position : \A p \in Position : p <= last
    /\ None \notin LessonProgress \cup AssessmentProgress \cup VideoProgress \cup CourseProgress
    /\ None \notin 0 .. MaxLessons
    /\ EventType \in [Event -> {"LessonViewed", "VideoCompleted", "QuizSubmitted"}]

Total == 0 .. MaxLessons \cup {None}

StudyState ==
    [op : {"event"}, event : Event, step : {"record", "apply"}]
    \cup [op : {"lesson"}, lesson : Lesson, row : LessonProgress, total : Total]
    \cup [op : {"video"}, row : VideoProgress, total : Total]
    \cup [op : {"assessment"}, assessment : Assessment, row : AssessmentProgress, total : Total]
    \cup [op : {"lessons"}, total : Total]
    \cup [op : {"assessments"}, lessons : Nat, total : Total]
    \cup [op : {"summary"}, lessons : Nat, assessments : Nat, total : Total]
    \cup [op : {"save"}, row : CourseProgress, previous : CourseProgressStatus, total : Total]
    \cup [op : {"announce"}, completed : BOOLEAN]

\* Every variable has its type, slugs are unique in their scope, and no course has a
\* category or a tag that does not exist.
TypeOK ==
    /\ CachedTypeOK
    /\ \A w \in Worker :
           worker[w] \in ManagerState \cup RevisionState \cup StudyState \/ IsRead(worker[w])
    /\ lesson \in [Lesson -> LessonProgress \cup {None}]
    /\ video \in VideoProgress \cup {None}
    /\ assessment \in [Assessment -> AssessmentProgress \cup {None}]
    /\ summary \in CourseProgress \cup {None}
    /\ logged \subseteq Event /\ outrun \subseteq Worker
    /\ seen \in Total

\* The seed data: a lesson and an assessment that the student has completed.
SeedSummary == [status |-> "completed", lessons |-> Cardinality(Lesson),
                assessments |-> Cardinality(Assessment), dated |-> TRUE]

StudySeeded ==
    /\ Seeded
    /\ lesson = [l \in Lesson |-> [status |-> "completed", views |-> 0, dated |-> TRUE]]
    /\ video = [position |-> Max(Position), whole |-> TRUE, dated |-> TRUE]
    /\ assessment = [a \in Assessment |-> [status |-> "graded", attempts |-> 0]]
    /\ summary = SeedSummary

Init ==
    /\ CachedInit
    /\ \/ /\ ~Seeded
          /\ lesson = [l \in Lesson |-> None]
          /\ video = None
          /\ assessment = [a \in Assessment |-> None]
          /\ summary = None
       \/ StudySeeded
    /\ logged = {} /\ seen = None
    /\ current = FALSE /\ outrun = {} /\ unsure = FALSE
    /\ told = TRUE /\ muddled = FALSE /\ trusted = FALSE

-----------------------------------------------------------------------------
(* The player, and requests *)

\* The player is answered from Redis; one that finds nothing there stores it first.
\* It posts as many lessons as it shows.
Look(k) ==
    /\ entry[k] # None /\ k.view = "course-structure" /\ k.course = Studied
    /\ seen' = entry[k][Studied].rest.outline
    /\ current' = (k \notin raced /\ ~Pending(k))
    /\ UNCHANGED <<cachedVars, studyVars>>

Studying(w) == worker[w] \in StudyState

\* require_progress_permission: in the scope of the course.
MayPost == \E u \in User : HasCoursePermission(u, "progress.manage", Studied)

\* Against the bound on requests, one on progress counts for two of the catalog.
Proceeds(w, state) ==
    /\ worker' = [worker EXCEPT ![w] = state]
    /\ started' = IF worker[w] = Resting THEN started + 2 ELSE started
    /\ UNCHANGED <<tables, moved, overtaken>>

\* The other requests on this progress have read what this one changes.
Outruns(w, state) ==
    /\ Proceeds(w, state)
    /\ outrun' = (outrun \cup {v \in Worker \ {w} : Studying(v)}) \ (IF state = Resting THEN {w} ELSE {})

Reads(w, state) == Proceeds(w, state) /\ UNCHANGED <<outrun, unsure, told, muddled, trusted>>

NewLesson == [status |-> "not_started", views |-> 0, dated |-> FALSE]
NewVideo == [position |-> 0, whole |-> FALSE, dated |-> FALSE]
NewAssessment == [status |-> "not_started", attempts |-> 0]

Got(row, new) == IF row = None THEN new ELSE row

\* update_lesson_progress up to save().
GetLesson(w, l, status, total) ==
    LET row == Got(lesson[l], NewLesson) IN
    /\ lesson' = [lesson EXCEPT ![l] = row]
    /\ Reads(w, [op |-> "lesson", lesson |-> l, total |-> total,
                 row |-> [status |-> status, views |-> row.views + 1,
                          dated |-> row.dated \/ status = "completed"]])
    /\ UNCHANGED <<video, assessment, summary, logged>>

\* Mutation of Watched: the position that was sent replaces the one of the row.
WatchedAnew(row, position, whole) ==
    [position |-> position, whole |-> whole, dated |-> row.dated \/ whole]

\* The greater of what was sent and what was there.
Watched(row, position, whole) ==
    [position |-> Max({row.position, position}), whole |-> row.whole \/ whole,
     dated |-> row.dated \/ whole]

\* update_video_progress up to save(); whole: the end of the video, or 100 percent sent.
GetVideo(w, position, whole, total) ==
    LET row == Got(video, NewVideo) IN
    /\ video' = row
    /\ Reads(w, [op |-> "video", row |-> Watched(row, position, whole), total |-> total])
    /\ UNCHANGED <<lesson, assessment, summary, logged>>

\* update_assessment_progress up to save().
GetAssessment(w, a, status, total) ==
    LET row == Got(assessment[a], NewAssessment) IN
    /\ assessment' = [assessment EXCEPT ![a] = row]
    /\ Reads(w, [op |-> "assessment", assessment |-> a, total |-> total,
                 row |-> [status |-> status, attempts |-> row.attempts + 1]])
    /\ UNCHANGED <<lesson, video, summary, logged>>

\* LessonProgressUpdateView: without a status the lesson is in progress.
PostLesson(w, l) ==
    /\ MayBegin(w) /\ MayPost
    /\ \E status \in LessonSent, total \in {None, seen} : GetLesson(w, l, status, total)

\* VideoProgressUpdateView
PostVideo(w) ==
    /\ MayBegin(w) /\ MayPost
    /\ \E p \in Position : GetVideo(w, p, p = Max(Position), None)

\* AssessmentProgressUpdateView: without a status the assessment is submitted.
PostAssessment(w, a) ==
    /\ MayBegin(w) /\ MayPost
    /\ \E status \in AssessmentSent : GetAssessment(w, a, status, None)

-----------------------------------------------------------------------------
(* Events *)

\* process_progress_event, for ProgressEventIngestView and the consumer: in any order,
\* and an event may come again.
TakeEvent(w, e) ==
    /\ MayBegin(w) /\ e \notin logged
    /\ Reads(w, [op |-> "event", event |-> e, step |-> "record"])
    /\ UNCHANGED studyRows

\* event_id is unique.
RecordEvent(w) ==
    LET e == worker[w].event IN
    /\ worker[w].op = "event" /\ worker[w].step = "record"
    /\ e \notin logged
    /\ logged' = logged \cup {e}
    /\ Reads(w, [worker[w] EXCEPT !.step = "apply"])
    /\ UNCHANGED <<lesson, video, assessment, summary>>

\* What each type does; an event carries no totals.
ApplyEvent(w) ==
    LET type == EventType[worker[w].event] IN
    /\ worker[w].op = "event" /\ worker[w].step = "apply"
    /\ \/ type = "LessonViewed" /\ \E l \in Lesson : GetLesson(w, l, "in_progress", None)
       \/ type = "VideoCompleted" /\ GetVideo(w, 0, TRUE, None)
       \/ type = "QuizSubmitted" /\ \E a \in Assessment : GetAssessment(w, a, "submitted", None)

-----------------------------------------------------------------------------
(* Saving the row, and that of the course *)

Saved(w) ==
    /\ Outruns(w, [op |-> "lessons", total |-> worker[w].total])
    /\ UNCHANGED <<summary, logged, unsure, told, muddled, trusted>>

SaveLesson(w) ==
    /\ worker[w].op = "lesson"
    /\ lesson' = [lesson EXCEPT ![worker[w].lesson] = worker[w].row]
    /\ Saved(w) /\ UNCHANGED <<video, assessment>>

SaveVideo(w) ==
    /\ worker[w].op = "video"
    /\ video' = worker[w].row
    /\ Saved(w) /\ UNCHANGED <<lesson, assessment>>

SaveAssessment(w) ==
    /\ worker[w].op = "assessment"
    /\ assessment' = [assessment EXCEPT ![worker[w].assessment] = worker[w].row]
    /\ Saved(w) /\ UNCHANGED <<lesson, video>>

CompletedLessons == {l \in Lesson : lesson[l] # None /\ lesson[l].status = "completed"}
CompletedAssessments ==
    {a \in Assessment : assessment[a] # None /\ assessment[a].status \in {"submitted", "graded"}}

\* recalculate_course_progress: the two counts
CountLessons(w) ==
    /\ worker[w].op = "lessons"
    /\ Reads(w, [op |-> "assessments", lessons |-> Cardinality(CompletedLessons),
                 total |-> worker[w].total])
    /\ UNCHANGED studyRows

CountAssessments(w) ==
    /\ worker[w].op = "assessments"
    /\ Reads(w, [op |-> "summary", lessons |-> worker[w].lessons, total |-> worker[w].total,
                 assessments |-> Cardinality(CompletedAssessments)])
    /\ UNCHANGED studyRows

\* max(total_lessons or 0, lessons_completed); nobody sends total_assessments.
LessonTotal(state) == Max({state.lessons, IF state.total = None THEN 0 ELSE state.total})

StatusOf(state) ==
    IF state.lessons + state.assessments = 0 THEN "not_started"
    ELSE IF state.lessons = LessonTotal(state) THEN "completed" ELSE "in_progress"

NewSummary == [status |-> "in_progress", lessons |-> 0, assessments |-> 0, dated |-> FALSE]

\* get_or_create of the row, and what its copy becomes.
GetSummary(w) ==
    LET state == worker[w]
        row == Got(summary, NewSummary)
    IN  /\ state.op = "summary"
        /\ summary' = row
        /\ Reads(w, [op |-> "save", previous |-> row.status, total |-> state.total,
                     row |-> [status |-> StatusOf(state), lessons |-> state.lessons,
                              assessments |-> state.assessments,
                              dated |-> StatusOf(state) = "completed"]])
        /\ UNCHANGED <<lesson, video, assessment, logged>>

\* CourseCompleted, rather than CourseProgressUpdated.
Completes(state) == state.row.status = "completed" /\ state.previous # "completed"

SaveSummary(w) ==
    LET state == worker[w] IN
    /\ state.op = "save"
    /\ summary' = state.row
    /\ Outruns(w, [op |-> "announce", completed |-> Completes(state)])
    /\ unsure' = (w \in outrun)
    /\ told' = (state.row.status # "completed" \/ (told /\ summary.status = "completed"))
    /\ muddled' = (muddled \/ state.previous # summary.status)
    /\ trusted' = (w \notin outrun /\ current /\ state.total = seen)
    /\ UNCHANGED <<lesson, video, assessment, logged>>

\* publish_progress_event
Publish(w) ==
    /\ worker[w].op = "announce"
    /\ Proceeds(w, Resting)
    /\ outrun' = outrun \ {w}
    /\ told' = (told \/ worker[w].completed)
    /\ muddled' = (muddled /\ ~worker[w].completed)
    /\ UNCHANGED <<studyRows, unsure, trusted>>

\* A failure of the database, of the event, or of the process.
CutShort(w) ==
    /\ Studying(w)
    /\ Proceeds(w, Resting)
    /\ outrun' = outrun \ {w}
    /\ unsure' = (unsure \/ worker[w].op \in {"lessons", "assessments", "summary", "save"})
    /\ muddled' = (muddled \/ worker[w].op = "announce")
    /\ UNCHANGED <<studyRows, told, trusted>>

StudyNext(w) ==
    \/ PostVideo(w) \/ \E l \in Lesson : PostLesson(w, l)
    \/ \E a \in Assessment : PostAssessment(w, a)
    \/ \E e \in Event : TakeEvent(w, e)
    \/ RecordEvent(w) \/ ApplyEvent(w)
    \/ SaveLesson(w) \/ SaveVideo(w) \/ SaveAssessment(w)
    \/ CountLessons(w) \/ CountAssessments(w) \/ GetSummary(w) \/ SaveSummary(w)
    \/ Publish(w) \/ CutShort(w)

Next ==
    \/ /\ CachedNext
       /\ current' = (current /\ outline' = outline)
       /\ trusted' = (trusted /\ outline' = outline)
       /\ UNCHANGED <<studyRows, outrun, unsure, told, muddled, seen>>
    \/ (\E w \in Worker : StudyNext(w)) /\ UNCHANGED <<cacheVars, revision, seen, current>>
    \/ \E k \in Asked : Look(k)

Spec == Init /\ [][Next]_vars

-----------------------------------------------------------------------------
(* Properties *)

\* The row of the course counts what is completed, once the requests that changed it are
\* done, unless they overlapped or one was cut short since it was last saved alone.
SummaryAddsUp ==
    \/ unsure
    \/ \E w \in Worker : worker[w].op \in {"lessons", "assessments", "summary", "save"}
    \/ IF summary = None THEN CompletedLessons = {} /\ CompletedAssessments = {}
       ELSE /\ summary.lessons = Cardinality(CompletedLessons)
            /\ summary.assessments = Cardinality(CompletedAssessments)

\* A course is completed only after CourseCompleted was sent or while it is about to be,
\* unless a request was cut short or two changed the row of the course at a time.
CompletionAnnounced ==
    \/ summary = None \/ summary.status # "completed" \/ told \/ muddled
    \/ \E w \in Worker : worker[w].op = "announce" /\ worker[w].completed

\* Views, attempts, the position in a video and the dates of completion never go back,
\* unless by a request that another one overtook.
ProgressKept ==
    [][\A w \in Worker \ outrun :
           /\ worker[w].op = "lesson" /\ worker'[w].op = "lessons" =>
                  LET l == worker[w].lesson IN
                  lesson'[l].views > lesson[l].views /\ (lesson[l].dated => lesson'[l].dated)
           /\ worker[w].op = "video" /\ worker'[w].op = "lessons" =>
                  video'.position >= video.position /\ (video.dated => video'.dated)
           /\ worker[w].op = "assessment" /\ worker'[w].op = "lessons" =>
                  LET a == worker[w].assessment IN assessment'[a].attempts > assessment[a].attempts]_vars

\* A course that was completed with as many lessons as its player showed has no other
\* published lesson, when the player was right and nothing overlapped: neither a stale
\* catalog nor a late save completes it early.
CompletedIsWhole ==
    trusted /\ summary.status = "completed" => summary.lessons >= outline[Studied]

\* The row of the course tells what the student completed and was told, however the
\* events and requests of the student overlap and whatever the catalog has cached.
ProgressAgrees == TypeOK /\ SummaryAddsUp /\ CompletionAnnounced /\ CompletedIsWhole

\* Nothing of a course, a revision or the progress of a student is put back or lost by a
\* request that no other overtook: each saves all columns of the row it loaded.
OnlyOvertakenLose == OnlyOvertakenRevert /\ RevisionTellsPresent /\ ProgressKept

=============================================================================
