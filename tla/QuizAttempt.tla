----------------------------- MODULE QuizAttempt -----------------------------
(***************************************************************************)
(* Attempts of one student at one quiz in assessment-service: starting an  *)
(* attempt, saving answers, submitting, and the author's edits of the quiz *)
(* meanwhile.  Attempts are numbered from 1; attempt n is the n-th row.    *)
(*                                                                         *)
(* A request loads the attempt or the quiz in its view, calls other        *)
(* services to authorise itself, and then acts on the object it loaded;    *)
(* its writes are one transaction, without locks on what it read.          *)
(***************************************************************************)
EXTENDS AssessmentRequests, Integers, Sequences, Functions

CONSTANTS
    Limits,        \* values the author gives max_attempts
    MaxPoints,     \* bound on the points of a question
    MaxEdits,      \* bound on the author's edits
    MaxAttempts    \* bound on the attempts

ASSUME BoundsAssumption ==
    /\ Limits \subseteq Nat /\ Limits # {}
    /\ {MaxPoints, MaxEdits, MaxAttempts} \subseteq Nat

VARIABLES
    available,   \* whether the assessment is published and its window open
    limit,       \* quiz.max_attempts
    autoSubmit,  \* quiz.auto_submit
    points,      \* the questions linked to the quiz, with their points
    attempt,     \* the attempts, by number
    answer,      \* the answers of each attempt, by question
    late,        \* attempts past their deadline
    edits,
    topLimit,    \* history: the highest limit there has been
    reverted,    \* history: attempts with an answer put back to an earlier value
    raced        \* history: attempts written to while another request had them

quiz == <<available, limit, autoSubmit, points>>
history == <<topLimit, reverted, raced>>
vars == <<quiz, attempt, answer, late, worker, edits, history>>

Attempt == 1 .. MaxAttempts

\* A quiz links some of the questions.
Links == UNION {[Q -> 0 .. MaxPoints] : Q \in SUBSET Question}

\* What is saved, by question: whether the answer is right.
Values == UNION {[Q -> BOOLEAN] : Q \in SUBSET Question}

\* Rows of quiz_answers, by question.
Answers == UNION {[Q -> [right : BOOLEAN, score : 0 .. MaxPoints]] : Q \in SUBSET Question}

Total(answers) == SumFunction([q \in DOMAIN answers |-> answers[q].score])

Score == {0} \cup {Total(rows) : rows \in Answers}

WorkerState ==
    [op : {"idle"}]
    \cup [op : {"start"}, step : {"loaded"}, limit : Limits]
    \cup [op : {"start"}, step : {"counted"}, number : Nat]
    \cup [op : {"save"}, step : {"loaded"}, attempt : Attempt, autoSubmit : BOOLEAN,
          values : Values]
    \cup [op : {"save"}, step : {"checked"}, attempt : Attempt, values : Values, points : Links]
    \cup [op : {"submit"}, step : {"loaded"}, attempt : Attempt,
          autoSubmit : BOOLEAN, auto : BOOLEAN]
    \cup [op : {"submit"}, step : {"scored"}, attempt : Attempt,
          auto : BOOLEAN, answers : Answers]

TypeOK ==
    /\ available \in BOOLEAN
    /\ limit \in Limits /\ topLimit \in Limits
    /\ autoSubmit \in BOOLEAN
    /\ points \in Links
    /\ attempt \in Seq([status : {"started", "submitted", "auto_submitted"}, score : Score])
    /\ answer \in [Attempt -> Answers]
    /\ late \subseteq Attempt /\ raced \subseteq Attempt /\ reverted \subseteq Attempt
    /\ worker \in [Worker -> WorkerState]
    /\ edits \in Nat

Idle == [op |-> "idle"]

Init ==
    /\ available = TRUE
    /\ points \in Links /\ points # <<>>
    /\ limit \in Limits /\ topLimit = limit
    /\ autoSubmit = TRUE
    /\ attempt = <<>>
    /\ answer = [a \in Attempt |-> <<>>]
    /\ late = {}
    /\ worker = [w \in Worker |-> Idle]
    /\ edits = 0
    /\ raced = {} /\ reverted = {}

Closed(a) == a \in DOMAIN attempt /\ attempt[a].status # "started"

Holds(w, op, step) == worker[w].op = op /\ worker[w].step = step

\* Requests that loaded an attempt and have not finished with it.
Handling(a) ==
    {w \in Worker : worker[w].op \in {"save", "submit"} /\ worker[w].attempt = a}

\* Request w writes to attempt a, perhaps while another has it.
NoteRace(w, a) == raced' = IF Handling(a) # {w} THEN raced \cup {a} ELSE raced

\* score_answer, for objective questions.
Scored(right, q, links) == [right |-> right, score |-> IF right THEN links[q] ELSE 0]

Finish(w) == worker' = [worker EXCEPT ![w] = Idle]

-----------------------------------------------------------------------------
(* start_quiz_attempt *)

\* The view loads the quiz with its links; enrollment-service is asked.
StartLoad(w) ==
    /\ worker[w] = Idle
    /\ available /\ points # <<>>
    /\ worker' = [worker EXCEPT ![w] = [op |-> "start", step |-> "loaded", limit |-> limit]]
    /\ UNCHANGED <<quiz, attempt, answer, late, edits, history>>

StartCount(w) ==
    /\ Holds(w, "start", "loaded")
    /\ worker' = [worker EXCEPT ![w] =
          IF Len(attempt) < @.limit
          THEN [op |-> "start", step |-> "counted", number |-> Len(attempt) + 1]
          ELSE Idle]
    /\ UNCHANGED <<quiz, attempt, answer, late, edits, history>>

\* Mutation of NumberFree: attempt_number is not unique for a student.
AnyNumberFree(n) == TRUE

\* The constraint uq_qattempts_quiz_student_num.
NumberFree(n) == n \notin DOMAIN attempt

StartInsert(w) ==
    /\ Holds(w, "start", "counted")
    /\ worker[w].number \in Attempt
    /\ attempt' = IF NumberFree(worker[w].number)
                  THEN Append(attempt, [status |-> "started", score |-> 0]) ELSE attempt
    /\ Finish(w)
    /\ UNCHANGED <<quiz, answer, late, edits, history>>

-----------------------------------------------------------------------------
(* save_attempt_answers *)

\* Mutation of Open: the status of the attempt is not looked at.
AnyOpen(a) == a \in DOMAIN attempt

Open(a) == a \in DOMAIN attempt /\ attempt[a].status = "started"

SaveLoad(w, a, values) ==
    /\ worker[w] = Idle
    /\ Open(a)
    /\ worker' = [worker EXCEPT ![w] =
          [op |-> "save", step |-> "loaded", attempt |-> a, autoSubmit |-> autoSubmit,
           values |-> values]]
    /\ UNCHANGED <<quiz, attempt, answer, late, edits, history>>

\* Before the deadline the links are read.  After it the attempt is submitted
\* instead, or the request refused.
SaveCheck(w) ==
    LET r == worker[w] IN
    /\ Holds(w, "save", "loaded")
    /\ worker' = [worker EXCEPT ![w] =
          IF r.attempt \notin late
          THEN [op |-> "save", step |-> "checked", attempt |-> r.attempt,
                values |-> r.values, points |-> points]
          ELSE IF r.autoSubmit
          THEN [op |-> "submit", step |-> "loaded", attempt |-> r.attempt,
                autoSubmit |-> TRUE, auto |-> TRUE]
          ELSE Idle]
    /\ UNCHANGED <<quiz, attempt, answer, late, edits, history>>

\* update_or_create of each answer.
Upsert(old, values, links) ==
    [q \in DOMAIN old \cup DOMAIN values |->
        IF q \in DOMAIN values THEN Scored(values[q], q, links) ELSE old[q]]

\* A question that is not linked rolls all of them back.
SaveWrite(w) ==
    LET r == worker[w]
        a == r.attempt
        valid == DOMAIN r.values \subseteq DOMAIN r.points
    IN  /\ Holds(w, "save", "checked")
        /\ IF valid
           THEN /\ answer' = [answer EXCEPT ![a] = Upsert(@, r.values, r.points)]
                /\ NoteRace(w, a)
           ELSE UNCHANGED <<answer, raced>>
        /\ Finish(w)
        /\ UNCHANGED <<quiz, attempt, late, edits, topLimit, reverted>>

-----------------------------------------------------------------------------
(* submit_attempt *)

\* The submit and auto-submit endpoints: auto tells them apart.
SubmitLoad(w, a, auto) ==
    /\ worker[w] = Idle
    /\ Open(a)
    /\ worker' = [worker EXCEPT ![w] =
          [op |-> "submit", step |-> "loaded", attempt |-> a, autoSubmit |-> autoSubmit,
           auto |-> auto]]
    /\ UNCHANGED <<quiz, attempt, answer, late, edits, history>>

\* The deadline is checked, all answers are read and scored by the links.  One
\* whose question is no longer linked ends the request with DoesNotExist.
SubmitScore(w) ==
    LET r == worker[w]
        a == r.attempt
        old == answer[a]
        refused == a \in late /\ ~r.autoSubmit /\ ~r.auto
    IN  /\ Holds(w, "submit", "loaded")
        /\ worker' = [worker EXCEPT ![w] =
              IF refused \/ ~(DOMAIN old \subseteq DOMAIN points) THEN Idle
              ELSE [op |-> "submit", step |-> "scored", attempt |-> a,
                    auto |-> r.auto \/ a \in late,
                    answers |-> [q \in DOMAIN old |-> Scored(old[q].right, q, points)]]]
        /\ UNCHANGED <<quiz, attempt, answer, late, edits, history>>

\* Mutation of Overwrite: the new scores are counted but not saved.
KeepOld(old, new) == old

\* answer.save() writes every column of each answer that was read.
Overwrite(old, new) ==
    [q \in DOMAIN old \cup DOMAIN new |-> IF q \in DOMAIN new THEN new[q] ELSE old[q]]

\* The commit; QuizSubmitted is sent after it.
SubmitCommit(w) ==
    LET r == worker[w]
        a == r.attempt
    IN  /\ Holds(w, "submit", "scored")
        /\ answer' = [answer EXCEPT ![a] = Overwrite(@, r.answers)]
        /\ attempt' = [attempt EXCEPT ![a] =
              [status |-> IF r.auto THEN "auto_submitted" ELSE "submitted",
               score |-> Total(r.answers)]]
        /\ NoteRace(w, a)
        /\ reverted' = IF \E q \in DOMAIN r.answers : r.answers[q].right # answer[a][q].right
                       THEN reverted \cup {a} ELSE reverted
        /\ Finish(w)
        /\ UNCHANGED <<quiz, late, edits, topLimit>>

\* The request fails: its transaction, if it began one, is rolled back.
Fail(w) ==
    /\ worker[w] # Idle
    /\ Finish(w)
    /\ UNCHANGED <<quiz, attempt, answer, late, edits, history>>

-----------------------------------------------------------------------------
(* Time and the author *)

PassDeadline(a) ==
    /\ a \in DOMAIN attempt \ late
    /\ late' = late \cup {a}
    /\ UNCHANGED <<quiz, attempt, answer, worker, edits, history>>

\* update_quiz_config
Configure(n, auto) ==
    /\ edits < MaxEdits
    /\ edits' = edits + 1
    /\ limit' = n /\ autoSubmit' = auto
    /\ topLimit' = IF n > topLimit THEN n ELSE topLimit
    /\ UNCHANGED <<available, points, attempt, answer, late, worker, reverted, raced>>

\* publish_assessment, close_assessment, archive_assessment
SetAvailable(open) ==
    /\ edits < MaxEdits
    /\ open => points # <<>>
    /\ edits' = edits + 1
    /\ available' = open
    /\ UNCHANGED <<limit, autoSubmit, points, attempt, answer, late, worker, history>>

\* replace_quiz_questions, whether or not attempts have begun.
ReplaceQuestions(links) ==
    /\ edits < MaxEdits
    /\ edits' = edits + 1
    /\ points' = links
    /\ UNCHANGED <<available, limit, autoSubmit, attempt, answer, late, worker, history>>

-----------------------------------------------------------------------------

Next ==
    \/ \E w \in Worker :
        \/ StartLoad(w) \/ StartCount(w) \/ StartInsert(w)
        \/ \E a \in Attempt, v \in Values \ {<<>>} : SaveLoad(w, a, v)
        \/ SaveCheck(w) \/ SaveWrite(w)
        \/ \E a \in Attempt, auto \in BOOLEAN : SubmitLoad(w, a, auto)
        \/ SubmitScore(w) \/ SubmitCommit(w) \/ Fail(w)
    \/ \E a \in Attempt : PassDeadline(a)
    \/ \E n \in Limits, auto \in BOOLEAN : Configure(n, auto)
    \/ \E open \in BOOLEAN : SetAvailable(open)
    \/ \E links \in Links : ReplaceQuestions(links)

Spec == Init /\ [][Next]_vars

-----------------------------------------------------------------------------
(* Properties *)

\* Requests that start attempts at once never exceed the highest limit the quiz
\* has had.
AttemptsWithinLimit == Len(attempt) <= topLimit

\* The score of a closed attempt is the sum of the scores of its answers, unless
\* requests on the attempt overlapped.
ScoreAddsUp ==
    \A a \in Attempt : Closed(a) /\ a \notin raced => attempt[a].score = Total(answer[a])

\* A closed attempt is final: neither it nor its answers change, unless requests
\* on it overlapped.
ClosedIsFinal ==
    [][\A a \in Attempt : Closed(a) /\ a \notin raced' =>
          attempt'[a] = attempt[a] /\ answer'[a] = answer[a]]_vars

\* An answer that was saved keeps its value until another is saved for it:
\* submitting never puts an earlier one back ("persisted durably",
\* docs/specs/013-quiz-attempts-exams.md:17).  The code does not meet it: submit_attempt
\* writes back the answers it had read.
SavedAnswersKept == reverted = {}

\* The attempts are well formed, and the score of a closed one adds up: submit_attempt.
AttemptsAgree == TypeOK /\ ScoreAddsUp

=============================================================================
