------------------------------ MODULE Coursework ------------------------------
(***************************************************************************)
(* Submissions for the assignment of Authoring: what students save, change *)
(* and submit, and what graders mark as graded.                            *)
(*                                                                         *)
(* No request of these is a transaction: the rows of a submission and its  *)
(* assignment are read by the view, the window of the assignment is looked *)
(* at after calls to other services, on the row that was read, and the     *)
(* submission and its entry in the audit log are written after that.  A    *)
(* draft is saved with every column of the copy that was read, while       *)
(* submitting and grading write some columns.                              *)
(***************************************************************************)
EXTENDS Authoring

CONSTANTS
    Student,       \* student profiles
    Enrolled       \* those with active access to the course

ASSUME CourseworkAssumption == Enrolled \subseteq Student /\ None \notin Student

VARIABLES
    submission,    \* the row of each student, None before it is created
    audit,         \* what the last entry of the audit log says of each
    disturbed,     \* history: submissions two requests on which overlapped or one was cut short
    settled,       \* history: what was archived or graded when no request was in progress
    offers,        \* history: the rows by which the assignment has been published since no
                   \* request was in progress
    offered        \* history: the window of one of them has been open since then

submissionVars == <<submission, audit, disturbed>>
courseworkVars == <<authoringVars, submissionVars, settled, offers, offered>>

\* withdrawn is never written.
AssignmentSubmissionStatus == {"draft", "submitted", "late", "graded"}

\* filled: has it a text or an attachment; stamped: has it a time of submission.
AssignmentSubmission ==
    [status : AssignmentSubmissionStatus, filled : BOOLEAN, stamped : BOOLEAN]

ASSUME SubmissionAssumption == None \notin AssignmentSubmission

SubmissionAuditLog == {None, "seeded", "saved", "submitted", "late", "graded"}

SaveState ==
    [op : {"save"}, step : {"get"}, student : Student, submit : BOOLEAN, config : Assignment]
SubmitState ==
    [op : {"submit"}, step : {"write"}, student : Student, row : AssignmentSubmission,
     config : Assignment]

\* One that is to be checked has a copy of the assessment, and what it does next.
StudentState ==
    [op : {"check"}, student : Student, copy : Assessment, next : SaveState \cup SubmitState]
    \cup SaveState \cup SubmitState
    \cup [op : {"draft"}, step : {"write"}, student : Student, row : AssignmentSubmission]
    \cup [op : {"grade"}, step : {"write"}, student : Student]
    \cup [op : {"log"}, student : Student, entry : SubmissionAuditLog]

CourseworkTypeOK ==
    /\ AuthoringTypeOK
    /\ worker \in [Worker -> AuthorState \cup StudentState]
    /\ submission \in [Student -> AssignmentSubmission \cup {None}]
    /\ audit \in [Student -> SubmissionAuditLog]
    /\ disturbed \subseteq Student
    /\ offers \subseteq Assessment /\ offered \in BOOLEAN

\* The parts of _validate_assignment_available: what the row says, and the window it gives.
Published(row) ==
    row # None /\ row.type = "assignment" /\ row.status = "published" /\ ~row.deleted

InWindow(row, t) ==
    (row.from # None => t >= row.from) /\ (row.until # None => t <= row.until)

\* The seed data hold one graded submission.
Seeded == [status |-> "graded", filled |-> TRUE, stamped |-> TRUE]

CourseworkInit ==
    /\ AuthoringInit
    /\ worker = [w \in Worker |-> Resting]
    /\ \E seeded \in SUBSET Student :
          /\ seeded # {} => assessment # None /\ assessment.type = "assignment"
          /\ submission = [s \in Student |-> IF s \in seeded THEN Seeded ELSE None]
          /\ audit = [s \in Student |-> IF s \in seeded THEN "seeded" ELSE None]
    /\ disturbed = {}
    /\ settled = {}
    /\ offers = {row \in {assessment} : Published(row)}
    /\ offered = (\E row \in offers : InWindow(row, now))

-----------------------------------------------------------------------------
(* Requests on submissions *)

On(w, s) == worker[w] \in StudentState /\ worker[w].student = s

Busy(s) == \E w \in Worker : "student" \in DOMAIN worker[w] /\ worker[w].student = s

Asks(w, s, permission, state) ==
    /\ Begins(w, permission, state)
    /\ disturbed' = IF Busy(s) THEN disturbed \cup {s} ELSE disturbed
    /\ UNCHANGED <<bank, question, lists, exam, now, submission, audit>>

\* has_enrollment_access: the answer of enrollment-service.
HasEnrollmentAccess(s) == s \in Enrolled

\* The statuses in which a submission can be saved or submitted.
Changeable(row) == row.status \in {"draft", "submitted", "late"}

Checked(s, next) == [op |-> "check", student |-> s, copy |-> assessment, next |-> next]

\* AssignmentSubmissionListCreateView.post; what is sent has a text or an attachment.
LoadAssignment(w, s, submit) ==
    /\ assessment # None /\ assessment.type = "assignment" /\ HasEnrollmentAccess(s)
    /\ Asks(w, s, "submission.manage",
            Checked(s, [op |-> "save", step |-> "get", student |-> s, submit |-> submit,
                        config |-> config]))

\* Mutation of CheckAvailable: the window is not looked at.
CheckPublished(w) ==
    /\ worker[w].op = "check"
    /\ Published(worker[w].copy)
    /\ Continues(w, worker[w].next)
    /\ UNCHANGED <<bank, question, lists, exam, now, started, submission, audit, disturbed>>

\* _validate_assignment_available, after the calls of the view, on the row it has loaded.
CheckAvailable(w) ==
    /\ worker[w].op = "check"
    /\ Published(worker[w].copy) /\ InWindow(worker[w].copy, now)
    /\ Continues(w, worker[w].next)
    /\ UNCHANGED <<bank, question, lists, exam, now, started, submission, audit, disturbed>>

NewSubmission == [status |-> "draft", filled |-> FALSE, stamped |-> FALSE]

Submits(s, row, c) == [op |-> "submit", step |-> "write", student |-> s, row |-> row, config |-> c]
Drafts(s, row) == [op |-> "draft", step |-> "write", student |-> s, row |-> row]

\* get_or_create, which commits the row before anything of it is filled in.  A row that was
\* there reads its assignment anew.
GetSubmission(w) ==
    LET s == worker[w].student
        row == IF submission[s] = None THEN NewSubmission ELSE submission[s]
        filled == [row EXCEPT !.filled = TRUE]
        c == IF submission[s] = None THEN worker[w].config ELSE config
    IN  /\ worker[w].op = "save"
        /\ submission' = [submission EXCEPT ![s] = row]
        /\ Continues(w, IF ~Changeable(row) THEN Resting
                        ELSE IF worker[w].submit THEN Submits(s, filled, c)
                        ELSE Drafts(s, [filled EXCEPT !.status = "draft"]))
        /\ UNCHANGED <<bank, question, lists, exam, now, started, audit, disturbed>>

\* AssignmentSubmissionDetailView.patch and update_assignment_submission: a draft of one's
\* own, whose text and attachment may be taken away.
LoadDraft(w, s, filled) ==
    /\ submission[s] # None /\ submission[s].status = "draft"
    /\ Asks(w, s, "submission.manage", Drafts(s, [submission[s] EXCEPT !.filled = filled]))

\* AssignmentSubmissionSubmitView, with the status looked at by submit_assignment_submission.
LoadToSubmit(w, s) ==
    /\ assessment # None /\ submission[s] # None /\ Changeable(submission[s])
    /\ Asks(w, s, "submission.manage", Checked(s, Submits(s, submission[s], config)))

\* AssignmentSubmissionMarkGradedView
LoadToGrade(w, s) ==
    /\ submission[s] # None
    /\ Asks(w, s, "grade.manage", [op |-> "grade", step |-> "write", student |-> s])

Writes(w, row, entry) ==
    LET s == worker[w].student IN
    /\ submission' = [submission EXCEPT ![s] = row]
    /\ Continues(w, [op |-> "log", student |-> s, entry |-> entry])
    /\ UNCHANGED <<bank, question, lists, exam, now, started, audit, disturbed>>

\* save(): every column of the copy.
SaveDraft(w) ==
    /\ worker[w].op = "draft"
    /\ Writes(w, worker[w].row, "saved")

\* Mutation of Finalized: the text and the attachment are taken to be stored already.
FinalizedStatus(s, row, status) == [submission[s] EXCEPT !.status = status, !.stamped = TRUE]

\* Every column of the copy but what nothing changes is written.
Finalized(s, row, status) == [row EXCEPT !.status = status, !.stamped = TRUE]

\* _finalize_assignment_submission
Finalize(w) ==
    LET s == worker[w].student
        c == worker[w].config
        late == c.due # None /\ now > c.due
        status == IF late THEN "late" ELSE "submitted"
    IN  /\ worker[w].op = "submit"
        /\ worker[w].row.filled
        /\ late => c.late
        /\ Writes(w, Finalized(s, worker[w].row, status), status)

\* mark_assignment_submission_graded writes the status, whatever it was.
MarkGraded(w) ==
    /\ worker[w].op = "grade"
    /\ Writes(w, [submission[worker[w].student] EXCEPT !.status = "graded"], "graded")

\* SubmissionAuditLog.objects.create
Log(w) ==
    /\ worker[w].op = "log"
    /\ audit' = [audit EXCEPT ![worker[w].student] = worker[w].entry]
    /\ Ends(w)
    /\ UNCHANGED <<bank, question, lists, exam, now, started, submission, disturbed>>

Submit(w) ==
    \/ \E s \in Student :
          \/ \E submit \in BOOLEAN : LoadAssignment(w, s, submit)
          \/ \E filled \in BOOLEAN : LoadDraft(w, s, filled)
          \/ LoadToSubmit(w, s) \/ LoadToGrade(w, s)
    \/ CheckAvailable(w) \/ GetSubmission(w) \/ SaveDraft(w) \/ Finalize(w) \/ MarkGraded(w) \/ Log(w)

-----------------------------------------------------------------------------
(* The rest of the system *)

\* An error, a refusal, or a crash: nothing of the step at hand is done.
Stop(w) ==
    /\ worker[w] # Resting /\ Ends(w)
    /\ disturbed' = IF "student" \in DOMAIN worker[w] THEN disturbed \cup {worker[w].student}
                    ELSE disturbed
    /\ UNCHANGED <<bank, question, lists, exam, now, started, submission, audit>>

Tick ==
    /\ now < MaxTime /\ now' = now + 1
    /\ UNCHANGED <<bank, question, lists, exam, worker, started, submissionVars>>

Step ==
    \/ Author /\ UNCHANGED submissionVars
    \/ \E w \in Worker : Submit(w) \/ Stop(w)
    \/ Tick

AtRest == \A w \in Worker : worker[w] = Resting

\* The banks, questions, assessments and submissions whose last status is written.
Final ==
    {b \in Bank : bank[b] = "archived"}
    \cup {q \in Question : question[q] # None /\ question[q].deleted}
    \cup {a \in {"assessment"} : assessment # None /\ assessment.status = "archived" /\ assessment.deleted}
    \cup {s \in Student : submission[s] # None /\ submission[s].status = "graded"}

CourseworkNext ==
    /\ Step
    /\ settled' = IF AtRest' THEN settled \cup Final' ELSE settled
    /\ offers' = {row \in {assessment'} \cup (IF AtRest' THEN {} ELSE offers) : Published(row)}
    /\ offered' = ((offered /\ ~AtRest') \/ \E row \in offers' : InWindow(row, now'))

CourseworkSpec == CourseworkInit /\ [][CourseworkNext]_courseworkVars

-----------------------------------------------------------------------------
(* Properties *)

\* Every question in the database could be scored, and every window has its start before
\* its end, although both are validated against a copy that others may have replaced:
\* save() puts all columns of the validated copy back.  (The seed data are not validated.)
StoredValid ==
    /\ \A q \in Question : question[q] # None =>
          WellFormed(question[q].content) \/ question[q].content = Seed[q]
    /\ assessment # None => Ordered(assessment.from, assessment.until)

\* The questions of the quiz are the ones of the last list that was stored, unless two
\* replacements overlapped, and none is there twice even then: replace_quiz_questions.
QuizHoldsOneList == Unique(links) /\ (~crossed => links = asked)

\* A published quiz has questions, unless they were taken away from it while it was
\* published or about to be: publish_assessment, replace_quiz_questions.
PublishedHasQuestions ==
    assessment # None /\ assessment.type = "quiz" /\ assessment.status = "published" /\ ~emptied =>
        Listed(links) # {}

\* A bank, a question or an assessment that is archived, or a submission that is graded,
\* while no request is in progress stays so: only a request that read it before can
\* bring it back.
FinalStays == settled \subseteq Final

\* What counts as submitted has a text or an attachment and the time of its submission,
\* however the saving of drafts and the submitting overlap:
\* _finalize_assignment_submission writes the content it has checked.
SubmittedHasContent ==
    \A s \in Student : submission[s] # None /\ submission[s].status \in {"submitted", "late"} =>
        submission[s].filled /\ submission[s].stamped

\* A submission is only turned in if, since no request was in progress, the window of a row by
\* which the assignment has been published was open.  So none is turned in when the assignment
\* is closed, archived, or out of its window and the requests from before have ended, or
\* before its window; a request may hold to a row that has been replaced, and be checked when
\* the window of that row opens: _validate_assignment_available.
TurnedIn(s) == submission[s] # None /\ submission[s].status \in {"submitted", "late"}

ShutTakesNothing ==
    [][~offered => \A s \in Student : TurnedIn(s)' => TurnedIn(s)]_courseworkVars

\* The last entry of the audit log tells the status of a submission that no requests
\* overlapped on and none was cut short.
Entry(row) == IF row = None THEN None ELSE IF row.status = "draft" THEN "saved" ELSE row.status

LogTellsStatus ==
    \A s \in Student : ~Busy(s) /\ s \notin disturbed =>
        audit[s] = Entry(submission[s]) \/ (audit[s] = "seeded" /\ submission[s] = Seeded)

\* What authors write stays usable, although they validate and save copies: a question
\* can be scored, a quiz has the questions asked for, an archived row stays archived.
AuthoringAgrees ==
    AuthoringTypeOK /\ StoredValid /\ QuizHoldsOneList /\ PublishedHasQuestions /\ FinalStays

\* A submission, what it contains and its audit log tell the same, however drafts,
\* submissions and marks overlap.
SubmissionsAgree == CourseworkTypeOK /\ SubmittedHasContent /\ LogTellsStatus

=============================================================================
