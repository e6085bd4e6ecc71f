------------------------------ MODULE Authoring ------------------------------
(***************************************************************************)
(* What authors do in assessment-service: banks, their questions, and one  *)
(* assessment, a quiz with its list of questions or an assignment with its *)
(* configuration.                                                          *)
(*                                                                         *)
(* A request keeps the copy of the row that its view loaded and, while it  *)
(* asks other services, lets others run; save() then writes every column   *)
(* of that copy.  Replacing the list of a quiz is one transaction, but the *)
(* rows it deletes are the ones its statement saw.  Requests may be cut    *)
(* short after every step.                                                 *)
(***************************************************************************)
EXTENDS AssessmentRequests, Naturals, FiniteSets

CONSTANTS
    Bank,          \* question banks
    Home,          \* the bank of each question
    Choice,        \* ids of choices
    Payload,       \* contents of questions that requests carry
    Seed,          \* the content of each question in the seed data
    Position,      \* places in a quiz
    Date,          \* dates that requests carry
    Granted,       \* what the token of each may do in the scope of the course
    None,
    MaxTime,       \* bound on the clock
    MaxStarted     \* bound on the requests begun

VARIABLES
    bank, question,
    assessment,    \* its row, None before it is created
    config,        \* its configuration as an assignment
    links,         \* the question at each position of the quiz
    now, started,
    asked,         \* history: the list that was stored last
    crossed,       \* history: two replacements of the list overlapped
    emptied        \* history: the list was emptied while the quiz was being published, or later

lists == <<links, asked, crossed, emptied>>
exam == <<assessment, config>>
authoringVars == <<bank, question, lists, exam, worker, now, started>>

\* One short answer stands for the types whose content is not checked.
QuestionType == {"multiple_choice", "multiple_select", "true_false", "short_answer", "coding"}

\* A correct answer names one choice, lists choices, is a boolean, or is anything else.
Answer == [form : {"one", "many", "boolean", "other"}, ids : SUBSET Choice]
Content == [type : QuestionType, choices : SUBSET Choice, answer : Answer]

AssessmentPermission == {"assessment.manage", "submission.manage", "grade.manage"}

ASSUME AuthoringAssumption ==
    /\ Granted \in [Worker -> SUBSET AssessmentPermission]
    /\ Question # {} /\ Home \in [Question -> Bank] /\ Payload \subseteq Content
    /\ Seed \in [Question -> Content]
    /\ Date \subseteq Nat /\ None \notin Question \cup Nat
    /\ MaxTime \in Nat /\ MaxStarted \in Nat

QuestionBank == {"absent", "live", "archived"}

\* The status of a question is only a filter of searches.
QuestionRow == [content : Content, deleted : BOOLEAN]

AssessmentType == {"quiz", "assignment"}
AssessmentStatus == {"draft", "published", "closed", "archived"}
When == Date \cup {None}

Assessment == [type : AssessmentType, status : AssessmentStatus, deleted : BOOLEAN,
               from : When, until : When]
Assignment == [due : When, late : BOOLEAN]

\* uq_qquestions_quiz_position makes it a function, uq_qquestions_quiz_question injective.
QuestionList == [Position -> Question \cup {None}]
Unique(list) ==
    \A p1, p2 \in Position : list[p1] = list[p2] /\ list[p1] # None => p1 = p2

\* None stands for a row or a list that there is not, or that a request does not carry.
ASSUME MarkerAssumption ==
    /\ None \notin QuestionRow \cup Assessment \cup Assignment
    /\ None \notin QuestionList /\ \A seen \in SUBSET Position : seen # None

Listed(list) == {list[p] : p \in Position} \ {None}
NoQuestions == [p \in Position |-> None]

Resting == [op |-> "resting"]

AuthorState ==
    {Resting}
    \cup [op : {"bank", "archive", "questions"}, bank : Bank]
    \cup [op : {"question"}, question : Question, row : QuestionRow]
    \cup [op : {"publish", "close"}]
    \cup [op : {"update"}, row : Assessment \cup {None}, config : Assignment \cup {None},
          list : QuestionList \cup {None}, doomed : (SUBSET Position) \cup {None}]

AuthoringTypeOK ==
    /\ bank \in [Bank -> QuestionBank]
    /\ question \in [Question -> QuestionRow \cup {None}]
    /\ assessment \in Assessment \cup {None}
    /\ config \in Assignment
    /\ links \in QuestionList /\ asked \in QuestionList
    /\ (assessment # None /\ assessment.type = "assignment") => Listed(links) = {}
    /\ crossed \in BOOLEAN /\ emptied \in BOOLEAN
    /\ now \in 0 .. MaxTime /\ started \in 0 .. MaxStarted

\* Nothing yet, or the seed data: a bank with its questions, and a published quiz of them
\* or a published assignment.
SeedAssessment(type) ==
    [type |-> type, status |-> "published", deleted |-> FALSE, from |-> None, until |-> None]

AuthoringInit ==
    /\ \/ /\ bank = [b \in Bank |-> "absent"]
          /\ question = [q \in Question |-> None]
          /\ assessment = None
       \/ /\ bank = [b \in Bank |-> "live"]
          /\ question = [q \in Question |-> [content |-> Seed[q], deleted |-> FALSE]]
          /\ \E type \in AssessmentType : assessment = SeedAssessment(type)
    /\ config = [due |-> None, late |-> TRUE]
    /\ links \in IF assessment # None /\ assessment.type = "quiz"
                 THEN {list \in QuestionList : Unique(list) /\ Listed(list) = Question}
                 ELSE {NoQuestions}
    /\ asked = links
    /\ crossed = FALSE /\ emptied = FALSE
    /\ now = 0 /\ started = 0

-----------------------------------------------------------------------------
(* Requests *)

\* has_assessment_permission, has_scoped_permission: the token is asked about in the scope
\* of the course or the institution.
Permitted(w, permission) == permission \in Granted[w]

MayBegin(w) == worker[w] = Resting /\ started < MaxStarted

Begins(w, permission, state) ==
    /\ MayBegin(w) /\ Permitted(w, permission)
    /\ started' = started + 1
    /\ worker' = [worker EXCEPT ![w] = state]

Manages(w, state) == Begins(w, "assessment.manage", state)

\* A request of one step.
ManagesAtOnce == \E w \in Worker : Manages(w, Resting)

Continues(w, state) == worker' = [worker EXCEPT ![w] = state]
Ends(w) == Continues(w, Resting)

\* question_bank_queryset, question_queryset, assessment_queryset
LiveBank(b) == bank[b] = "live"

LiveQuestion(q) == question[q] # None /\ ~question[q].deleted /\ LiveBank(Home[q])

\* Mutation of LiveAssessment: archived ones are found as well.
AnyAssessment == assessment # None

LiveAssessment == assessment # None /\ ~assessment.deleted

-----------------------------------------------------------------------------
(* Banks and questions *)

CreateBank(b) ==
    /\ bank[b] = "absent"
    /\ ManagesAtOnce
    /\ bank' = [bank EXCEPT ![b] = "live"]
    /\ UNCHANGED <<question, lists, exam, now>>

LoadBank(w, b, op) ==
    /\ LiveBank(b)
    /\ Manages(w, [op |-> op, bank |-> b])
    /\ UNCHANGED <<bank, question, lists, exam, now>>

\* save() writes every column of a row that was live when it was loaded.
SaveBank(w) ==
    /\ worker[w].op = "bank"
    /\ bank' = [bank EXCEPT ![worker[w].bank] = "live"]
    /\ Ends(w)
    /\ UNCHANGED <<question, lists, exam, now, started>>

\* archive_question_bank stores the time of the deletion, ...
ArchiveBank(w) ==
    /\ worker[w].op = "archive"
    /\ bank' = [bank EXCEPT ![worker[w].bank] = "archived"]
    /\ Continues(w, [op |-> "questions", bank |-> worker[w].bank])
    /\ UNCHANGED <<question, lists, exam, now, started>>

\* ... and then archives the questions in a transaction of its own.
ArchiveQuestions(w) ==
    /\ worker[w].op = "questions"
    /\ question' = [q \in Question |->
          IF question[q] # None /\ Home[q] = worker[w].bank
          THEN [question[q] EXCEPT !.deleted = TRUE] ELSE question[q]]
    /\ Ends(w)
    /\ UNCHANGED <<bank, lists, exam, now, started>>

\* validate_question_payload
WellFormed(c) ==
    /\ c.type # "coding"
    /\ c.type \in {"multiple_choice", "multiple_select"} =>
          c.choices # {} /\ c.answer.ids # {} /\ c.answer.ids \subseteq c.choices
    /\ c.type = "multiple_choice" => c.answer.form = "one"
    /\ c.type = "multiple_select" => c.answer.form = "many"
    /\ c.type = "true_false" => c.answer.form = "boolean"

\* create_question, in a bank that was live when it was loaded.
LoadBankForQuestion(w, q, c) ==
    /\ question[q] = None /\ LiveBank(Home[q]) /\ WellFormed(c)
    /\ \A other \in Worker : worker[other].op = "question" => worker[other].question # q
    /\ Manages(w, [op |-> "question", question |-> q, row |-> [content |-> c, deleted |-> FALSE]])
    /\ UNCHANGED <<bank, question, lists, exam, now>>

\* The content with the members sent.
Merged(c, sent, members) ==
    [m \in {"type", "choices", "answer"} |-> IF m \in members THEN sent[m] ELSE c[m]]

\* QuestionUpdateSerializer validates what is sent with the rest of the loaded row.
Accepted(c, sent, members) == members # {} /\ WellFormed(Merged(c, sent, members))

LoadQuestion(w, q, sent, members) ==
    /\ LiveQuestion(q) /\ Accepted(question[q].content, sent, members)
    /\ Manages(w, [op |-> "question", question |-> q,
                  row |-> [question[q] EXCEPT !.content = Merged(@, sent, members)]])
    /\ UNCHANGED <<bank, question, lists, exam, now>>

\* save() writes every column, or the row is inserted.
SaveQuestion(w) ==
    /\ worker[w].op = "question"
    /\ question' = [question EXCEPT ![worker[w].question] = worker[w].row]
    /\ Ends(w)
    /\ UNCHANGED <<bank, lists, exam, now, started>>

\* archive_question writes the same whenever its row was loaded.
ArchiveQuestion(q) ==
    /\ LiveQuestion(q)
    /\ ManagesAtOnce
    /\ question' = [question EXCEPT ![q].deleted = TRUE]
    /\ UNCHANGED <<bank, lists, exam, now>>

-----------------------------------------------------------------------------
(* The assessment *)

\* _validate_window
Ordered(from, until) == from # None /\ until # None => from < until

\* AssignmentConfigSerializer
ConfigSent == [due : When, late : BOOLEAN]

\* QuizQuestionPayloadSerializer, and the checks of replace_quiz_questions on the payload.
ListSent == {list \in QuestionList : Unique(list)}

\* create_assessment, one transaction.
CreateAssessment(type, from, until, c, list) ==
    /\ assessment = None /\ Ordered(from, until)
    /\ ManagesAtOnce
    /\ list # NoQuestions => type = "quiz" /\ \A q \in Listed(list) : LiveQuestion(q)
    /\ type = "quiz" => c = config
    /\ assessment' = [type |-> type, status |-> "draft", deleted |-> FALSE,
                      from |-> from, until |-> until]
    /\ config' = c
    /\ links' = list /\ asked' = list
    /\ UNCHANGED <<bank, question, crossed, emptied, now>>

Updating(w) == worker[w].op = "update"

\* An update that has saved its row holds the lock of it until it commits.
Locked == \E w \in Worker : Updating(w) /\ worker[w].row # None /\ worker[w].doomed # None

Update(row, c, list) ==
    [op |-> "update", row |-> row, config |-> c, list |-> list, doomed |-> None]

\* Only quizzes support ordered questions.
TakesQuestions == assessment.type = "quiz"

\* AssessmentUpdateSerializer: what is sent, and the rest of the loaded row; a date that is
\* not sent is the one that was loaded.
UpdatedRow(from, until) == [assessment EXCEPT !.from = from, !.until = until]

LoadUpdate(w, from, until, c, list) ==
    /\ LiveAssessment
    /\ (c # None => assessment.type = "assignment") /\ (list # None => TakesQuestions)
    /\ Ordered(from, until)
    /\ Manages(w, Update(UpdatedRow(from, until), c, list))
    /\ UNCHANGED <<bank, question, lists, exam, now>>

\* AssessmentQuestionReplaceView writes no other row.
LoadReplace(w, list) ==
    /\ LiveAssessment /\ TakesQuestions
    /\ Manages(w, Update(None, None, list))
    /\ UNCHANGED <<bank, question, lists, exam, now>>

Replacing == {w \in Worker : Updating(w) /\ worker[w].doomed # None}

Occupied == {p \in Position : links[p] # None}

\* replace_quiz_questions: the questions must exist, and the rows that are there go.
DeleteLinks(w) ==
    /\ Updating(w) /\ worker[w].list # None /\ worker[w].doomed = None
    /\ worker[w].row # None => ~Locked
    /\ \A q \in Listed(worker[w].list) : LiveQuestion(q)
    /\ Continues(w, [worker[w] EXCEPT !.doomed = Occupied])
    /\ crossed' = (crossed \/ Replacing # {})
    /\ UNCHANGED <<bank, question, links, asked, emptied, exam, now, started>>

\* Mutation of Remaining: no row is deleted.
RemainingAll(doomed) == links

\* What is left once the rows that were seen are deleted.
Remaining(doomed) == [p \in Position |-> IF p \in doomed THEN None ELSE links[p]]

\* The links after the rows of the list are inserted.
Stored(list, doomed) ==
    [p \in Position |-> IF list[p] # None THEN list[p] ELSE Remaining(doomed)[p]]

\* The unique constraints let both in.
NoConflict(list, doomed) ==
    /\ \A p \in Position : Remaining(doomed)[p] = None \/ list[p] = None
    /\ Listed(Remaining(doomed)) \cap Listed(list) = {}

\* Rows that are gone no other transaction deletes.
Forget(doomed) ==
    [w \in Worker |->
        IF w \in Replacing THEN [worker[w] EXCEPT !.doomed = @ \ doomed] ELSE worker[w]]

\* The last question goes while the quiz is published, or a request is in progress that
\* publishes it or read that it is published.
Emptying ==
    /\ Listed(links') = {}
    /\ \/ assessment'.status = "published"
       \/ \E w \in Worker :
             worker[w].op = "publish" \/ (Updating(w) /\ worker[w].row # None)

CommitUpdate(w) ==
    LET row == worker[w].row
        c == worker[w].config
        list == worker[w].list
        doomed == worker[w].doomed
    IN  /\ Updating(w)
        /\ list # None => doomed # None /\ NoConflict(list, doomed)
        /\ list = None => ~Locked
        /\ assessment' = IF row # None THEN row ELSE assessment
        /\ config' = IF c # None THEN c ELSE config
        /\ links' = IF list # None THEN Stored(list, doomed) ELSE links
        /\ asked' = IF list # None THEN list ELSE asked
        /\ emptied' = (emptied \/ Emptying)
        /\ worker' = [IF list # None THEN Forget(doomed) ELSE worker EXCEPT ![w] = Resting]
        /\ UNCHANGED <<bank, question, crossed, now, started>>

\* publish_assessment looks at the links that were loaded with the assessment.
Publishable == TakesQuestions => Listed(links) # {}

LoadPublish(w) ==
    /\ LiveAssessment /\ Publishable
    /\ Manages(w, [op |-> "publish"])
    /\ UNCHANGED <<bank, question, lists, exam, now>>

SavePublished(w) ==
    /\ worker[w].op = "publish" /\ ~Locked
    /\ assessment' = [assessment EXCEPT !.status = "published", !.deleted = FALSE]
    /\ Ends(w)
    /\ UNCHANGED <<bank, question, lists, config, now, started>>

LoadClose(w) ==
    /\ LiveAssessment
    /\ Manages(w, [op |-> "close"])
    /\ UNCHANGED <<bank, question, lists, exam, now>>

SaveClosed(w) ==
    /\ worker[w].op = "close" /\ ~Locked
    /\ assessment' = [assessment EXCEPT !.status = "closed"]
    /\ Ends(w)
    /\ UNCHANGED <<bank, question, lists, config, now, started>>

\* archive_assessment writes the same whenever its row was loaded.
ArchiveAssessment ==
    /\ LiveAssessment /\ ~Locked
    /\ ManagesAtOnce
    /\ assessment' = [assessment EXCEPT !.status = "archived", !.deleted = TRUE]
    /\ UNCHANGED <<bank, question, lists, config, now>>

-----------------------------------------------------------------------------
QuestionRequest(w) ==
    \/ \E b \in Bank, op \in {"bank", "archive"} : LoadBank(w, b, op)
    \/ \E q \in Question, c \in Payload : LoadBankForQuestion(w, q, c)
    \/ \E q \in Question, c \in Payload, members \in SUBSET {"type", "choices", "answer"} :
          LoadQuestion(w, q, c, members)

AssessmentRequest(w) ==
    \/ \E from, until \in When, c \in ConfigSent \cup {None}, list \in ListSent \cup {None} :
          LoadUpdate(w, from, until, c, list)
    \/ \E list \in ListSent : LoadReplace(w, list)
    \/ LoadPublish(w) \/ LoadClose(w)

RequestInOneStep ==
    \/ \E b \in Bank : CreateBank(b)
    \/ \E q \in Question : ArchiveQuestion(q)
    \/ \E type \in AssessmentType, from, until \in When, c \in ConfigSent, list \in ListSent :
          CreateAssessment(type, from, until, c, list)
    \/ ArchiveAssessment

Author ==
    \/ (\E w \in Worker : MayBegin(w)) /\ RequestInOneStep
    \/ \E w \in Worker :
          \/ MayBegin(w) /\ (QuestionRequest(w) \/ AssessmentRequest(w))
          \/ SaveBank(w) \/ ArchiveBank(w) \/ ArchiveQuestions(w) \/ SaveQuestion(w)
          \/ DeleteLinks(w) \/ CommitUpdate(w) \/ SavePublished(w) \/ SaveClosed(w)

=============================================================================
