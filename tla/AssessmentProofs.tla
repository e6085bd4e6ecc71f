-------------------------- MODULE AssessmentProofs --------------------------
(***************************************************************************)
(* Proofs about the two models of assessment-service: of QuizAttempt, for  *)
(* any questions, requests, limits, points, edits and attempts, and of     *)
(* Coursework, for any authors, students, banks, questions, payloads,      *)
(* dates and numbers of requests.  The specifications share no action:     *)
(* a theorem is about the one its hypothesis names.  Of Total only that it *)
(* is a function of its argument is used.                                  *)
(***************************************************************************)
EXTENDS QuizAttempt, Coursework, SequenceTheorems, TLAPS

AnswerRow == [right : BOOLEAN, score : 0 .. MaxPoints]

Starting == [op : {"start"}, step : {"loaded"}, limit : Limits]
Counted == [op : {"start"}, step : {"counted"}, number : Nat]
SaveLoaded == [op : {"save"}, step : {"loaded"}, attempt : Attempt, autoSubmit : BOOLEAN,
               values : Values]
SaveChecked == [op : {"save"}, step : {"checked"}, attempt : Attempt, values : Values,
                points : Links]
SubmitLoaded == [op : {"submit"}, step : {"loaded"}, attempt : Attempt,
                 autoSubmit : BOOLEAN, auto : BOOLEAN]
SubmitScored == [op : {"submit"}, step : {"scored"}, attempt : Attempt,
                 auto : BOOLEAN, answers : Answers]

\* What a request has read fits the state: what starts an attempt is within the
\* highest limit, an attempt that is loaded exists and is not closed by another
\* unnoticed, and the answers that are scored are all that the attempt has.
Fits(r) ==
    /\ r.op = "start" /\ r.step = "loaded" => r.limit <= topLimit
    /\ r.op = "start" /\ r.step = "counted" => r.number <= topLimit
    /\ r.op \in {"save", "submit"} =>
          /\ r.attempt \in DOMAIN attempt
          /\ Closed(r.attempt) => r.attempt \in raced
    /\ r.op = "submit" /\ r.step = "scored" =>
          DOMAIN r.answers = DOMAIN answer[r.attempt] \/ r.attempt \in raced

RequestsFit == \A w \in Worker : Fits(worker[w])

IInv ==
    /\ TypeOK
    /\ limit <= topLimit /\ AttemptsWithinLimit
    /\ RequestsFit /\ ScoreAddsUp

-----------------------------------------------------------------------------
(* Rows of answers and states of requests *)

LEMMA AnswersIntro ==
    ASSUME NEW Q \in SUBSET Question, NEW f \in [Q -> AnswerRow]
    PROVE  f \in Answers
BY DEF Answers, AnswerRow

LEMMA AnswersElim ==
    ASSUME NEW f \in Answers
    PROVE  DOMAIN f \subseteq Question /\ f \in [DOMAIN f -> AnswerRow]
BY DEF Answers, AnswerRow

LEMMA ValuesElim ==
    ASSUME NEW f \in Values
    PROVE  DOMAIN f \subseteq Question /\ f \in [DOMAIN f -> BOOLEAN]
BY DEF Values

LEMMA LinksElim ==
    ASSUME NEW f \in Links
    PROVE  DOMAIN f \subseteq Question /\ f \in [DOMAIN f -> 0 .. MaxPoints]
BY DEF Links

LEMMA NoAnswers == <<>> \in Answers
<1>1. <<>> \in [{} -> AnswerRow]
  OBVIOUS
<1> QED
  BY <1>1, AnswersIntro

\* An answer that is scored by the links is a row.
LEMMA ScoredRow ==
    ASSUME NEW right \in BOOLEAN, NEW worth \in Links, NEW q \in DOMAIN worth
    PROVE  Scored(right, q, worth) \in AnswerRow
<1>1. worth[q] \in 0 .. MaxPoints
  BY LinksElim
<1>2. 0 \in 0 .. MaxPoints
  BY <1>1, BoundsAssumption
<1> QED
  BY <1>1, <1>2 DEF Scored, AnswerRow

LEMMA UpsertRows ==
    ASSUME NEW old \in Answers, NEW values \in Values, NEW worth \in Links,
           DOMAIN values \subseteq DOMAIN worth
    PROVE  Upsert(old, values, worth) \in Answers
<1> DEFINE Q == DOMAIN old \cup DOMAIN values
<1>1. Q \in SUBSET Question
  BY AnswersElim, ValuesElim
<1>2. ASSUME NEW q \in Q
      PROVE  (IF q \in DOMAIN values THEN Scored(values[q], q, worth) ELSE old[q]) \in AnswerRow
  <2>1. CASE q \in DOMAIN values
    BY <2>1, ValuesElim, ScoredRow
  <2>2. CASE q \notin DOMAIN values
    BY <2>2, AnswersElim
  <2> QED
    BY <2>1, <2>2
<1>3. Upsert(old, values, worth) \in [Q -> AnswerRow]
  BY <1>2 DEF Upsert
<1> QED
  BY <1>1, <1>3, AnswersIntro

LEMMA ScoredRows ==
    ASSUME NEW old \in Answers, NEW worth \in Links, DOMAIN old \subseteq DOMAIN worth
    PROVE  [q \in DOMAIN old |-> Scored(old[q].right, q, worth)] \in Answers
<1>1. DOMAIN old \in SUBSET Question
  BY AnswersElim
<1>2. ASSUME NEW q \in DOMAIN old
      PROVE  Scored(old[q].right, q, worth) \in AnswerRow
  <2>1. old[q].right \in BOOLEAN
    BY AnswersElim DEF AnswerRow
  <2> QED
    BY <2>1, ScoredRow
<1>3. [q \in DOMAIN old |-> Scored(old[q].right, q, worth)] \in [DOMAIN old -> AnswerRow]
  BY <1>2
<1> QED
  BY <1>1, <1>3, AnswersIntro

LEMMA OverwriteRows ==
    ASSUME NEW old \in Answers, NEW new \in Answers
    PROVE  /\ Overwrite(old, new) \in Answers
           /\ DOMAIN old = DOMAIN new => Overwrite(old, new) = new
<1> DEFINE Q == DOMAIN old \cup DOMAIN new
<1>1. Q \in SUBSET Question
  BY AnswersElim
<1>2. Overwrite(old, new) \in [Q -> AnswerRow]
  BY AnswersElim DEF Overwrite
<1>3. ASSUME DOMAIN old = DOMAIN new
      PROVE  Overwrite(old, new) = new
  <2>1. new \in [DOMAIN new -> AnswerRow]
    BY AnswersElim
  <2> QED
    BY <1>3, <2>1 DEF Overwrite
<1> QED
  BY <1>1, <1>2, <1>3, AnswersIntro

LEMMA TotalIsScore ==
    ASSUME NEW rows \in Answers
    PROVE  Total(rows) \in Score
BY DEF Score

LEMMA WorkerStates ==
    WorkerState = [op : {"idle"}] \cup Starting \cup Counted \cup SaveLoaded
                  \cup SaveChecked \cup SubmitLoaded \cup SubmitScored
BY DEF WorkerState, Starting, Counted, SaveLoaded, SaveChecked, SubmitLoaded, SubmitScored

\* What a request is doing says which record it has.
LEMMA StateOf ==
    ASSUME NEW r \in WorkerState
    PROVE  /\ r.op = "start" /\ r.step = "loaded" => r \in Starting
           /\ r.op = "start" /\ r.step = "counted" => r \in Counted
           /\ r.op = "save" /\ r.step = "loaded" => r \in SaveLoaded
           /\ r.op = "save" /\ r.step = "checked" => r \in SaveChecked
           /\ r.op = "submit" /\ r.step = "loaded" => r \in SubmitLoaded
           /\ r.op = "submit" /\ r.step = "scored" => r \in SubmitScored
BY WorkerStates DEF Starting, Counted, SaveLoaded, SaveChecked, SubmitLoaded, SubmitScored

-----------------------------------------------------------------------------
(* Initially, and while nothing but a request or the quiz changes *)

LEMMA InitIInv == Init => IInv
<1> SUFFICES ASSUME Init
             PROVE  IInv
  OBVIOUS
<1> USE DEF Init
<1>1. limit \in Nat
  BY BoundsAssumption
<1>2. Idle \in WorkerState
  BY DEF Idle, WorkerState
<1>3. answer \in [Attempt -> Answers]
  BY NoAnswers
<1>4. attempt \in Seq([status : {"started", "submitted", "auto_submitted"}, score : Score])
  OBVIOUS
<1>5. TypeOK
  BY <1>2, <1>3, <1>4 DEF TypeOK
<1>6. AttemptsWithinLimit /\ limit <= topLimit
  BY <1>1 DEF AttemptsWithinLimit
<1>7. RequestsFit
  BY DEF RequestsFit, Fits, Idle
<1>8. ScoreAddsUp
  BY DEF ScoreAddsUp, Closed
<1> QED
  BY <1>5, <1>6, <1>7, <1>8 DEF IInv

\* A request that goes on to a state that fits, and writes nothing.
LEMMA MovePreserves ==
    ASSUME IInv, NEW w \in Worker, NEW r \in WorkerState, Fits(r),
           worker' = [worker EXCEPT ![w] = r],
           UNCHANGED <<quiz, attempt, answer, late, edits, history>>
    PROVE  IInv'
<1> USE DEF IInv, quiz, history
<1>1. TypeOK'
  BY DEF TypeOK
<1>2. (limit <= topLimit /\ AttemptsWithinLimit)'
  BY DEF AttemptsWithinLimit
<1>3. ASSUME NEW v \in Worker
      PROVE  Fits(worker[v])'
  <2>1. worker'[v] = r \/ worker'[v] = worker[v]
    BY DEF TypeOK
  <2>2. Fits(worker[v])
    BY DEF RequestsFit
  <2> QED
    BY <2>1, <2>2 DEF Fits, Closed
<1>4. ScoreAddsUp'
  BY DEF ScoreAddsUp, Closed
<1> QED
  BY <1>1, <1>2, <1>3, <1>4 DEF RequestsFit

LEMMA IdleFits == Idle \in WorkerState /\ Fits(Idle)
BY DEF Idle, WorkerState, Fits

\* What the author, time and a request that changes no attempt leave alone.
LEMMA QuizChangePreserves ==
    ASSUME IInv, TypeOK', topLimit <= topLimit', (limit <= topLimit)',
           UNCHANGED <<attempt, answer, worker, raced>>
    PROVE  IInv'
<1> USE DEF IInv
<1>1. topLimit \in Nat /\ topLimit' \in Nat
  BY BoundsAssumption DEF TypeOK
<1>2. AttemptsWithinLimit'
  BY <1>1 DEF AttemptsWithinLimit, TypeOK
<1>3. ASSUME NEW w \in Worker
      PROVE  Fits(worker[w])'
  <2>1. worker[w] \in WorkerState /\ Fits(worker[w])
    BY DEF TypeOK, RequestsFit
  <2>2. worker[w].op = "start" /\ worker[w].step = "loaded" => worker[w].limit \in Nat
    BY <2>1, StateOf, BoundsAssumption DEF Starting
  <2>3. worker[w].op = "start" /\ worker[w].step = "counted" => worker[w].number \in Nat
    BY <2>1, StateOf DEF Counted
  <2> QED
    BY <1>1, <2>1, <2>2, <2>3 DEF Fits, Closed
<1>4. ScoreAddsUp'
  BY DEF ScoreAddsUp, Closed
<1> QED
  BY <1>2, <1>3, <1>4 DEF RequestsFit

-----------------------------------------------------------------------------
(* Steps that write no attempt *)

LEMMA StartLoadPreserves ==
    ASSUME IInv, NEW w \in Worker, StartLoad(w)
    PROVE  IInv'
<1> DEFINE r == [op |-> "start", step |-> "loaded", limit |-> limit]
<1>1. r \in WorkerState
  BY WorkerStates DEF IInv, TypeOK, Starting
<1>2. Fits(r)
  BY DEF IInv, Fits
<1> QED
  BY <1>1, <1>2, MovePreserves DEF StartLoad

LEMMA StartCountPreserves ==
    ASSUME IInv, NEW w \in Worker, StartCount(w)
    PROVE  IInv'
<1> DEFINE n == Len(attempt) + 1
           r == [op |-> "start", step |-> "counted", number |-> n]
<1>1. worker[w] \in WorkerState /\ Fits(worker[w]) /\ Len(attempt) \in Nat /\ topLimit \in Nat
  BY BoundsAssumption DEF IInv, TypeOK, RequestsFit
<1>2. worker[w] \in Starting
  BY <1>1, StateOf DEF StartCount, Holds
<1>3. worker[w].limit \in Nat /\ worker[w].limit <= topLimit
  BY <1>1, <1>2, BoundsAssumption DEF Starting, Fits
<1>4. CASE Len(attempt) < worker[w].limit
  <2>1. worker' = [worker EXCEPT ![w] = r]
    BY <1>4 DEF StartCount
  <2>2. r \in WorkerState
    BY <1>1, WorkerStates DEF Counted
  <2>3. Fits(r)
    BY <1>1, <1>3, <1>4 DEF Fits
  <2> QED
    BY <2>1, <2>2, <2>3, MovePreserves DEF StartCount
<1>5. CASE ~(Len(attempt) < worker[w].limit)
  <2>1. worker' = [worker EXCEPT ![w] = Idle]
    BY <1>5 DEF StartCount
  <2> QED
    BY <2>1, IdleFits, MovePreserves DEF StartCount
<1> QED
  BY <1>4, <1>5

LEMMA SaveLoadPreserves ==
    ASSUME IInv, NEW w \in Worker, NEW a \in Attempt, NEW values \in Values,
           SaveLoad(w, a, values)
    PROVE  IInv'
<1> DEFINE r == [op |-> "save", step |-> "loaded", attempt |-> a,
                 autoSubmit |-> autoSubmit, values |-> values]
<1>1. r \in WorkerState
  BY WorkerStates DEF IInv, TypeOK, SaveLoaded
<1>2. Fits(r)
  BY DEF Fits, SaveLoad, Open, Closed
<1> QED
  BY <1>1, <1>2, MovePreserves DEF SaveLoad

LEMMA SaveCheckPreserves ==
    ASSUME IInv, NEW w \in Worker, SaveCheck(w)
    PROVE  IInv'
<1> DEFINE a == worker[w].attempt
           checked == [op |-> "save", step |-> "checked", attempt |-> a,
                       values |-> worker[w].values, points |-> points]
           late2 == [op |-> "submit", step |-> "loaded", attempt |-> a,
                     autoSubmit |-> TRUE, auto |-> TRUE]
<1>1. worker[w] \in WorkerState /\ Fits(worker[w]) /\ points \in Links
  BY DEF IInv, TypeOK, RequestsFit
<1>2. worker[w] \in SaveLoaded
  BY <1>1, StateOf DEF SaveCheck, Holds
<1>3. checked \in WorkerState
  BY <1>1, <1>2, WorkerStates DEF SaveLoaded, SaveChecked
<1>4. late2 \in WorkerState
  BY <1>1, <1>2, WorkerStates DEF SaveLoaded, SubmitLoaded
<1>5. Fits(checked) /\ Fits(late2)
  BY <1>1, <1>2 DEF Fits, SaveLoaded
<1>6. \E r \in {checked, late2, Idle} : worker' = [worker EXCEPT ![w] = r]
  BY DEF SaveCheck
<1>7. UNCHANGED <<quiz, attempt, answer, late, edits, history>>
  BY DEF SaveCheck
<1> QED
  BY <1>3, <1>4, <1>5, <1>6, <1>7, IdleFits, MovePreserves

LEMMA SubmitLoadPreserves ==
    ASSUME IInv, NEW w \in Worker, NEW a \in Attempt, NEW auto \in BOOLEAN,
           SubmitLoad(w, a, auto)
    PROVE  IInv'
<1> DEFINE r == [op |-> "submit", step |-> "loaded", attempt |-> a,
                 autoSubmit |-> autoSubmit, auto |-> auto]
<1>1. r \in WorkerState
  BY WorkerStates DEF IInv, TypeOK, SubmitLoaded
<1>2. Fits(r)
  BY DEF Fits, SubmitLoad, Open, Closed
<1> QED
  BY <1>1, <1>2, MovePreserves DEF SubmitLoad

LEMMA SubmitScorePreserves ==
    ASSUME IInv, NEW w \in Worker, SubmitScore(w)
    PROVE  IInv'
<1> DEFINE a == worker[w].attempt
           old == answer[a]
           new == [q \in DOMAIN old |-> Scored(old[q].right, q, points)]
           r == [op |-> "submit", step |-> "scored", attempt |-> a,
                 auto |-> worker[w].auto \/ a \in late, answers |-> new]
<1>1. worker[w] \in WorkerState /\ Fits(worker[w]) /\ points \in Links
  BY DEF IInv, TypeOK, RequestsFit
<1>2. worker[w] \in SubmitLoaded
  BY <1>1, StateOf DEF SubmitScore, Holds
<1>3. old \in Answers
  BY <1>2 DEF IInv, TypeOK, SubmitLoaded
<1>4. UNCHANGED <<quiz, attempt, answer, late, edits, history>>
  BY DEF SubmitScore
<1>5. CASE worker' = [worker EXCEPT ![w] = Idle]
  BY <1>4, <1>5, IdleFits, MovePreserves
<1>6. CASE worker' = [worker EXCEPT ![w] = r] /\ DOMAIN old \subseteq DOMAIN points
  <2>1. new \in Answers
    BY <1>1, <1>3, <1>6, ScoredRows
  <2>2. r \in WorkerState
    BY <1>2, <2>1, WorkerStates DEF SubmitLoaded, SubmitScored
  <2>3. Fits(r)
    BY <1>1, <1>2 DEF Fits, SubmitLoaded
  <2> QED
    BY <1>4, <1>6, <2>2, <2>3, MovePreserves
<1> QED
  BY <1>5, <1>6 DEF SubmitScore

LEMMA FailPreserves ==
    ASSUME IInv, NEW w \in Worker, Fail(w)
    PROVE  IInv'
BY IdleFits, MovePreserves DEF Fail, Finish

LEMMA PassDeadlinePreserves ==
    ASSUME IInv, NEW a \in Attempt, PassDeadline(a)
    PROVE  IInv'
<1> USE DEF PassDeadline, quiz, history
<1>1. TypeOK'
  BY DEF IInv, TypeOK
<1>2. topLimit \in Nat
  BY BoundsAssumption DEF IInv, TypeOK
<1>3. topLimit <= topLimit' /\ (limit <= topLimit)'
  BY <1>2 DEF IInv
<1> QED
  BY <1>1, <1>3, QuizChangePreserves

LEMMA ConfigurePreserves ==
    ASSUME IInv, NEW n \in Limits, NEW auto \in BOOLEAN, Configure(n, auto)
    PROVE  IInv'
<1> USE DEF Configure
<1>1. TypeOK'
  BY DEF IInv, TypeOK
<1>2. topLimit \in Nat /\ n \in Nat
  BY BoundsAssumption DEF IInv, TypeOK
<1>3. topLimit <= topLimit' /\ (limit <= topLimit)'
  BY <1>2
<1> QED
  BY <1>1, <1>3, QuizChangePreserves

LEMMA SetAvailablePreserves ==
    ASSUME IInv, NEW open \in BOOLEAN, SetAvailable(open)
    PROVE  IInv'
<1> USE DEF SetAvailable, history
<1>1. TypeOK'
  BY DEF IInv, TypeOK
<1>2. topLimit \in Nat
  BY BoundsAssumption DEF IInv, TypeOK
<1>3. topLimit <= topLimit' /\ (limit <= topLimit)'
  BY <1>2 DEF IInv
<1> QED
  BY <1>1, <1>3, QuizChangePreserves

LEMMA ReplaceQuestionsPreserves ==
    ASSUME IInv, NEW worth \in Links, ReplaceQuestions(worth)
    PROVE  IInv'
<1> USE DEF ReplaceQuestions, history
<1>1. TypeOK'
  BY DEF IInv, TypeOK
<1>2. topLimit \in Nat
  BY BoundsAssumption DEF IInv, TypeOK
<1>3. topLimit <= topLimit' /\ (limit <= topLimit)'
  BY <1>2 DEF IInv
<1> QED
  BY <1>1, <1>3, QuizChangePreserves

LEMMA StutterPreserves ==
    ASSUME IInv, UNCHANGED vars
    PROVE  IInv'
<1> USE DEF vars, quiz, history
<1>1. TypeOK'
  BY DEF IInv, TypeOK
<1>2. topLimit \in Nat
  BY BoundsAssumption DEF IInv, TypeOK
<1>3. topLimit <= topLimit' /\ (limit <= topLimit)'
  BY <1>2 DEF IInv
<1> QED
  BY <1>1, <1>3, QuizChangePreserves

-----------------------------------------------------------------------------
(* Steps that write an attempt *)

AttemptRow == [status : {"started", "submitted", "auto_submitted"}, score : Score]

\* Requests that others do not disturb still fit after a write to attempt b.
LEMMA OthersFit ==
    ASSUME IInv, NEW w \in Worker, worker' = [worker EXCEPT ![w] = Idle],
           topLimit' = topLimit, raced \subseteq raced',
           DOMAIN attempt \subseteq DOMAIN attempt',
           NEW b,
           \A a \in DOMAIN attempt \ {b} : attempt'[a] = attempt[a],
           \A a \in Attempt \ {b} : answer'[a] = answer[a],
           \A v \in Handling(b) \ {w} : b \in raced'
    PROVE  RequestsFit'
<1> SUFFICES ASSUME NEW v \in Worker
             PROVE  Fits(worker[v])'
  BY DEF RequestsFit
<1>1. worker[v] \in WorkerState /\ Fits(worker[v]) /\ worker \in [Worker -> WorkerState]
  BY DEF IInv, TypeOK, RequestsFit
<1>2. CASE v = w
  BY <1>1, <1>2 DEF Fits, Idle
<1>3. CASE v # w
  <2>1. worker'[v] = worker[v]
    BY <1>1, <1>3
  <2>2. worker[v].op \in {"save", "submit"} =>
          worker[v].attempt \in Attempt /\ worker[v].attempt \in DOMAIN attempt
    BY <1>1, WorkerStates DEF Fits, Starting, Counted, SaveLoaded, SaveChecked,
        SubmitLoaded, SubmitScored
  <2>3. worker[v].op \in {"save", "submit"} /\ worker[v].attempt = b => b \in raced'
    BY <1>3 DEF Handling
  <2> QED
    BY <1>1, <2>1, <2>2, <2>3 DEF Fits, Closed
<1> QED
  BY <1>2, <1>3

LEMMA StartInsertPreserves ==
    ASSUME IInv, NEW w \in Worker, StartInsert(w)
    PROVE  IInv'
<1> DEFINE n == worker[w].number
           row == [status |-> "started", score |-> 0]
<1>1. /\ worker[w] \in WorkerState /\ Fits(worker[w]) /\ topLimit \in Nat
      /\ attempt \in Seq(AttemptRow) /\ worker \in [Worker -> WorkerState]
  BY BoundsAssumption DEF IInv, TypeOK, RequestsFit, AttemptRow
<1>2. n \in Nat /\ n <= topLimit /\ n >= 1
  BY <1>1, StateOf DEF StartInsert, Holds, Counted, Fits, Attempt
<1>3. worker' = [worker EXCEPT ![w] = Idle]
  BY DEF StartInsert, Finish
<1>4. CASE ~NumberFree(n)
  <2>1. UNCHANGED <<quiz, attempt, answer, late, edits, history>>
    BY <1>4 DEF StartInsert
  <2> QED
    BY <1>3, <2>1, IdleFits, MovePreserves
<1>5. CASE NumberFree(n)
  <2>1. attempt' = Append(attempt, row) /\ UNCHANGED <<answer, raced, topLimit, limit>>
    BY <1>5 DEF StartInsert, history, quiz
  <2>2. row \in AttemptRow
    BY DEF AttemptRow, Score
  <2>3. /\ attempt' \in Seq(AttemptRow) /\ Len(attempt') = Len(attempt) + 1
        /\ DOMAIN attempt = 1 .. Len(attempt) /\ DOMAIN attempt' = 1 .. Len(attempt) + 1
        /\ \A a \in DOMAIN attempt : attempt'[a] = attempt[a]
        /\ attempt'[Len(attempt) + 1] = row
        /\ Len(attempt) \in Nat
    BY <1>1, <2>1, <2>2, AppendProperties
  <2>4. TypeOK'
    BY <1>3, <2>3, IdleFits DEF IInv, TypeOK, AttemptRow, StartInsert, quiz, history
  <2>5. Len(attempt) + 1 <= topLimit
    BY <1>2, <1>5, <2>3, <1>1 DEF NumberFree
  <2>6. (AttemptsWithinLimit /\ limit <= topLimit)'
    BY <2>1, <2>3, <2>5 DEF AttemptsWithinLimit, IInv
  <2>7. RequestsFit'
    <3>1. \A v \in Handling(0) \ {w} : 0 \in raced'
      BY <1>1, <2>3 DEF Handling, IInv, RequestsFit, Fits
    <3>2. DOMAIN attempt \subseteq DOMAIN attempt'
      BY <2>3
    <3> QED
      BY <1>3, <2>1, <2>3, <3>1, <3>2, OthersFit
  <2>8. ASSUME NEW a \in Attempt, Closed(a)', a \notin raced'
        PROVE  attempt'[a].score = Total(answer'[a])
    <3>1. a \in DOMAIN attempt /\ Closed(a)
      BY <2>3, <2>8 DEF Closed
    <3> QED
      BY <2>1, <2>3, <2>8, <3>1 DEF IInv, ScoreAddsUp
  <2> QED
    BY <2>4, <2>6, <2>7, <2>8 DEF IInv, ScoreAddsUp
<1> QED
  BY <1>4, <1>5

LEMMA SaveWritePreserves ==
    ASSUME IInv, NEW w \in Worker, SaveWrite(w)
    PROVE  IInv'
<1> DEFINE b == worker[w].attempt
           new == Upsert(answer[b], worker[w].values, worker[w].points)
<1>1. /\ worker[w] \in WorkerState /\ Fits(worker[w]) /\ worker \in [Worker -> WorkerState]
      /\ answer \in [Attempt -> Answers]
  BY DEF IInv, TypeOK, RequestsFit
<1>2. worker[w] \in SaveChecked
  BY <1>1, StateOf DEF SaveWrite, Holds
<1>3. b \in Attempt /\ worker[w].values \in Values /\ worker[w].points \in Links
  BY <1>2 DEF SaveChecked
<1>4. worker' = [worker EXCEPT ![w] = Idle]
  BY DEF SaveWrite, Finish
<1>5. CASE ~(DOMAIN worker[w].values \subseteq DOMAIN worker[w].points)
  <2>1. UNCHANGED <<quiz, attempt, answer, late, edits, history>>
    BY <1>5 DEF SaveWrite, history
  <2> QED
    BY <1>4, <2>1, IdleFits, MovePreserves
<1>6. CASE DOMAIN worker[w].values \subseteq DOMAIN worker[w].points
  <2>1. /\ answer' = [answer EXCEPT ![b] = new] /\ NoteRace(w, b)
        /\ UNCHANGED <<quiz, attempt, late, edits, topLimit, reverted>>
    BY <1>6 DEF SaveWrite
  <2>2. new \in Answers
    BY <1>1, <1>3, <1>6, UpsertRows
  <2>3. raced \subseteq raced' /\ raced' \subseteq raced \cup {b}
        /\ \A v \in Handling(b) \ {w} : b \in raced'
    BY <2>1 DEF NoteRace
  <2>4. TypeOK'
    BY <1>3, <1>4, <2>1, <2>2, <2>3, IdleFits DEF IInv, TypeOK, quiz
  <2>5. (AttemptsWithinLimit /\ limit <= topLimit)'
    BY <2>1 DEF AttemptsWithinLimit, IInv, quiz
  <2>6. RequestsFit'
    <3>1. \A a \in Attempt \ {b} : answer'[a] = answer[a]
      BY <1>1, <2>1
    <3> QED
      BY <1>4, <2>1, <2>3, <3>1, OthersFit
  <2>7. ASSUME NEW a \in Attempt, Closed(a)', a \notin raced'
        PROVE  attempt'[a].score = Total(answer'[a])
    <3>1. Closed(a) /\ a \notin raced /\ attempt'[a] = attempt[a]
      BY <2>1, <2>3, <2>7 DEF Closed
    <3>2. a # b
      BY <1>1, <1>2, <3>1 DEF Fits, SaveChecked
    <3> QED
      BY <1>1, <2>1, <3>1, <3>2 DEF IInv, ScoreAddsUp
  <2> QED
    BY <2>4, <2>5, <2>6, <2>7 DEF IInv, ScoreAddsUp
<1> QED
  BY <1>5, <1>6

LEMMA SubmitCommitPreserves ==
    ASSUME IInv, NEW w \in Worker, SubmitCommit(w)
    PROVE  IInv'
<1> DEFINE b == worker[w].attempt
           rows == worker[w].answers
           new == Overwrite(answer[b], rows)
           row == [status |-> IF worker[w].auto THEN "auto_submitted" ELSE "submitted",
                   score |-> Total(rows)]
<1>1. /\ worker[w] \in WorkerState /\ Fits(worker[w]) /\ worker \in [Worker -> WorkerState]
      /\ answer \in [Attempt -> Answers] /\ attempt \in Seq(AttemptRow)
  BY DEF IInv, TypeOK, RequestsFit, AttemptRow
<1>2. worker[w] \in SubmitScored
  BY <1>1, StateOf DEF SubmitCommit, Holds
<1>3. b \in Attempt /\ rows \in Answers /\ b \in DOMAIN attempt
  BY <1>1, <1>2 DEF SubmitScored, Fits
<1>4. /\ worker' = [worker EXCEPT ![w] = Idle]
      /\ answer' = [answer EXCEPT ![b] = new]
      /\ attempt' = [attempt EXCEPT ![b] = row]
      /\ NoteRace(w, b)
      /\ UNCHANGED <<quiz, late, edits, topLimit>>
  BY DEF SubmitCommit, Finish
<1>5. /\ new \in Answers
      /\ DOMAIN answer[b] = DOMAIN rows => new = rows
  BY <1>1, <1>3, OverwriteRows
<1>6. row \in AttemptRow
  BY <1>3, TotalIsScore DEF AttemptRow
<1>7. raced \subseteq raced' /\ raced' \subseteq raced \cup {b}
      /\ \A v \in Handling(b) \ {w} : b \in raced'
  BY <1>4 DEF NoteRace
<1>8. /\ attempt' \in Seq(AttemptRow) /\ Len(attempt') = Len(attempt)
      /\ DOMAIN attempt' = DOMAIN attempt
      /\ \A a \in DOMAIN attempt \ {b} : attempt'[a] = attempt[a]
      /\ attempt'[b] = row
  BY <1>1, <1>3, <1>4, <1>6, ExceptSeq
<1>9. TypeOK'
  <2>1. reverted' \subseteq Attempt
    BY <1>3 DEF SubmitCommit, IInv, TypeOK
  <2> QED
    BY <1>3, <1>4, <1>5, <1>7, <1>8, <2>1, IdleFits DEF IInv, TypeOK, AttemptRow, quiz
<1>10. (AttemptsWithinLimit /\ limit <= topLimit)'
  BY <1>4, <1>8 DEF AttemptsWithinLimit, IInv, quiz
<1>11. \A a \in Attempt \ {b} : answer'[a] = answer[a]
  BY <1>1, <1>4
<1>12. RequestsFit'
  BY <1>4, <1>7, <1>8, <1>11, OthersFit
<1>13. ASSUME NEW a \in Attempt, Closed(a)', a \notin raced'
       PROVE  attempt'[a].score = Total(answer'[a])
  <2>1. CASE a = b
    <3>1. DOMAIN rows = DOMAIN answer[b]
      BY <1>1, <1>2, <1>7, <1>13, <2>1 DEF Fits, SubmitScored
    <3>2. answer'[b] = rows
      BY <1>1, <1>3, <1>4, <1>5, <3>1
    <3> QED
      BY <1>8, <2>1, <3>2
  <2>2. CASE a # b
    <3>1. Closed(a) /\ a \notin raced /\ attempt'[a] = attempt[a]
      BY <1>7, <1>8, <1>13, <2>2 DEF Closed
    <3> QED
      BY <1>11, <2>2, <3>1 DEF IInv, ScoreAddsUp
  <2> QED
    BY <2>1, <2>2
<1> QED
  BY <1>9, <1>10, <1>12, <1>13 DEF IInv, ScoreAddsUp

-----------------------------------------------------------------------------
(* Theorems *)

LEMMA NextPreserves == IInv /\ [Next]_vars => IInv'
<1> SUFFICES ASSUME IInv, [Next]_vars
             PROVE  IInv'
  OBVIOUS
<1>1. CASE UNCHANGED vars
  BY <1>1, StutterPreserves
<1>2. ASSUME NEW w \in Worker,
             StartLoad(w) \/ StartCount(w) \/ StartInsert(w) \/ SaveCheck(w)
             \/ SaveWrite(w) \/ SubmitScore(w) \/ SubmitCommit(w) \/ Fail(w)
      PROVE  IInv'
  BY <1>2, StartLoadPreserves, StartCountPreserves, StartInsertPreserves,
     SaveCheckPreserves, SaveWritePreserves, SubmitScorePreserves,
     SubmitCommitPreserves, FailPreserves
<1>3. ASSUME NEW w \in Worker, NEW a \in Attempt, NEW v \in Values \ {<<>>},
             SaveLoad(w, a, v)
      PROVE  IInv'
  BY <1>3, SaveLoadPreserves
<1>4. ASSUME NEW w \in Worker, NEW a \in Attempt, NEW auto \in BOOLEAN,
             SubmitLoad(w, a, auto)
      PROVE  IInv'
  BY <1>4, SubmitLoadPreserves
<1>5. ASSUME NEW a \in Attempt, PassDeadline(a)
      PROVE  IInv'
  BY <1>5, PassDeadlinePreserves
<1>6. ASSUME NEW n \in Limits, NEW auto \in BOOLEAN, Configure(n, auto)
      PROVE  IInv'
  BY <1>6, ConfigurePreserves
<1>7. ASSUME NEW open \in BOOLEAN, SetAvailable(open)
      PROVE  IInv'
  BY <1>7, SetAvailablePreserves
<1>8. ASSUME NEW worth \in Links, ReplaceQuestions(worth)
      PROVE  IInv'
  BY <1>8, ReplaceQuestionsPreserves
<1> QED
  BY <1>1, <1>2, <1>3, <1>4, <1>5, <1>6, <1>7, <1>8 DEF Next

LEMMA Invariance == Spec => []IInv
<1> QED
  BY InitIInv, NextPreserves, PTL DEF Spec

\* The attempts are well formed and the score of a closed one is the sum of its
\* answers unless requests on it overlapped, however many requests submit and save
\* while the author replaces the questions (submit_attempt).
THEOREM AttemptsTruthful == Spec => []AttemptsAgree
<1>1. IInv => AttemptsAgree
  BY DEF IInv, AttemptsAgree
<1> QED
  BY <1>1, Invariance, PTL

\* Any number of requests that start attempts at once stay within the highest limit
\* the quiz has had (start_quiz_attempt and uq_qattempts_quiz_student_num).
THEOREM LimitHolds == Spec => []AttemptsWithinLimit
<1>1. IInv => AttemptsWithinLimit
  BY DEF IInv
<1> QED
  BY <1>1, Invariance, PTL

\* A request that still has a closed attempt shares it, so what it writes is noted.
LEMMA StepClosedIsFinal ==
    ASSUME IInv, [Next]_vars, NEW a \in Attempt, Closed(a), a \notin raced'
    PROVE  attempt'[a] = attempt[a] /\ answer'[a] = answer[a]
<1>1. /\ worker \in [Worker -> WorkerState] /\ attempt \in Seq(AttemptRow)
      /\ answer \in [Attempt -> Answers] /\ a \in DOMAIN attempt
  BY DEF IInv, TypeOK, AttemptRow, Closed
<1>2. CASE UNCHANGED <<attempt, answer>>
  BY <1>2
<1>3. ASSUME NEW w \in Worker, StartInsert(w)
      PROVE  attempt'[a] = attempt[a] /\ answer'[a] = answer[a]
  <2>1. [status |-> "started", score |-> 0] \in AttemptRow
    BY DEF AttemptRow, Score
  <2>2. attempt' = attempt \/ attempt' = Append(attempt, [status |-> "started", score |-> 0])
    BY <1>3 DEF StartInsert
  <2> QED
    BY <1>1, <1>3, <2>1, <2>2, AppendProperties DEF StartInsert
<1>4. ASSUME NEW w \in Worker, SaveWrite(w)
      PROVE  attempt'[a] = attempt[a] /\ answer'[a] = answer[a]
  <2>1. worker[w].attempt = a => a \in raced
    BY <1>1, <1>4 DEF IInv, RequestsFit, Fits, SaveWrite, Holds
  <2>2. raced \subseteq raced'
    BY <1>4 DEF SaveWrite, NoteRace
  <2> QED
    BY <1>1, <1>4, <2>1, <2>2 DEF SaveWrite
<1>5. ASSUME NEW w \in Worker, SubmitCommit(w)
      PROVE  attempt'[a] = attempt[a] /\ answer'[a] = answer[a]
  <2>1. worker[w].attempt = a => a \in raced
    BY <1>1, <1>5 DEF IInv, RequestsFit, Fits, SubmitCommit, Holds
  <2>2. raced \subseteq raced'
    BY <1>5 DEF SubmitCommit, NoteRace
  <2> QED
    BY <1>1, <1>5, <2>1, <2>2 DEF SubmitCommit
<1> QED
  BY <1>2, <1>3, <1>4, <1>5
  DEF Next, vars, StartLoad, StartCount, SaveLoad, SaveCheck, SubmitLoad, SubmitScore,
      Fail, PassDeadline, Configure, SetAvailable, ReplaceQuestions

\* A closed attempt and its answers never change unless requests on it overlapped,
\* whatever the author, the clock and other requests do (save_attempt_answers and
\* submit_attempt check the status of the attempt that their view loaded).
THEOREM ClosedStaysFinal == Spec => ClosedIsFinal
<1>1. IInv /\ [Next]_vars =>
        [\A a \in Attempt : Closed(a) /\ a \notin raced' =>
            attempt'[a] = attempt[a] /\ answer'[a] = answer[a]]_vars
  BY StepClosedIsFinal
<1> QED
  BY <1>1, Invariance, PTL DEF Spec, ClosedIsFinal

-----------------------------------------------------------------------------
(* The invariant of coursework *)

\* What a request of an author carries goes with what is stored: the content it saves was
\* validated, and the assessment it read has the type that it still has.
AuthorFits(m) ==
    /\ m.op = "question" => WellFormed(m.row.content)
    /\ m.op \in {"publish", "close", "update"} => assessment # None
    /\ m.op = "update" =>
          /\ m.row # None =>
                m.row.type = assessment.type /\ Ordered(m.row.from, m.row.until)
          /\ m.list # None => Unique(m.list) /\ assessment.type = "quiz"
          /\ m.doomed # None => m.list # None

\* A request that is to write its copy of a submission, or will be when it has been checked.
Saving(m) == m.op \in {"draft", "submit"} \/ (m.op = "check" /\ m.next.op = "submit")

\* One on a submission has its row, and saves a draft of it only as a draft.
StudentFits(m) ==
    /\ Saving(m) \/ m.op = "grade" => submission[m.student] # None
    /\ m.op = "draft" => m.row.status = "draft"
    /\ m.op = "check" => m.next.student = m.student

\* As long as two replacements did not overlap, the one that is open has seen all rows.
OneReplacement ==
    ~crossed =>
        /\ links = asked
        /\ \A w \in Replacing : worker[w].doomed = Occupied
        /\ \A v, w \in Replacing : v = w

\* A request that is to publish the quiz, or to save the row of a published one.
Publishing(m) ==
    \/ m.op = "publish"
    \/ m.op = "update" /\ m.row # None /\ m.row.status = "published"

\* It has questions then, unless they were taken away from under such a request.
QuestionsLeft ==
    /\ assessment # None /\ assessment.type = "quiz" /\ ~emptied
    /\ assessment.status = "published" \/ \E w \in Worker : Publishing(worker[w])
    => Listed(links) # {}

\* What has its last status, and no request to save an older copy of it.
FixedBanks ==
    {b \in Bank : bank[b] = "archived" /\ \A w \in Worker : worker[w].op = "bank" => worker[w].bank # b}
FixedQuestions ==
    {q \in Question :
        /\ question[q] # None /\ question[q].deleted
        /\ \A w \in Worker : worker[w].op = "question" => worker[w].question # q}
FixedAssessments ==
    {a \in {"assessment"} :
        /\ assessment # None /\ assessment.status = "archived" /\ assessment.deleted
        /\ \A w \in Worker :
              worker[w].op \notin {"publish", "close"} /\ (Updating(w) => worker[w].row = None)}
FixedSubmissions ==
    {s \in Student :
        /\ submission[s] # None /\ submission[s].status = "graded"
        /\ \A w \in Worker : Saving(worker[w]) => worker[w].student # s}

Fixed == FixedBanks \cup FixedQuestions \cup FixedAssessments \cup FixedSubmissions

SettledFixed == settled \subseteq Fixed

\* Every row by which the assignment is or will be checked has been offered, and once a
\* request was checked the window of one of them has been open.
Offering(m) ==
    /\ m.op = "check" /\ Published(m.copy) => m.copy \in offers
    /\ m.op \in {"save", "submit"} => offered

OffersKnown ==
    /\ offers \subseteq Assessment /\ offered \in BOOLEAN /\ \A row \in offers : Published(row)
    /\ Published(assessment) => assessment \in offers
    /\ (\E row \in offers : InWindow(row, now)) => offered
    /\ \A w \in Worker : Offering(worker[w])

\* The audit log tells the status of a submission, or one request is to write that it does.
Tells(s) == audit[s] = Entry(submission[s]) \/ (audit[s] = "seeded" /\ submission[s] = Seeded)

About(s) == {w \in Worker : "student" \in DOMAIN worker[w] /\ worker[w].student = s}

LogFollows ==
    \A s \in Student \ disturbed :
        /\ \A v, w \in About(s) : v = w
        /\ About(s) = {} => Tells(s)
        /\ \A w \in About(s) :
              /\ worker[w].op \in {"check", "save", "grade"} => Tells(s)
              /\ worker[w].op = "log" => worker[w].entry = Entry(submission[s])

AuthoringInv ==
    /\ AuthoringTypeOK /\ \A w \in Worker : AuthorFits(worker[w])
    /\ StoredValid /\ Unique(links) /\ OneReplacement /\ QuestionsLeft

SubmissionInv ==
    /\ submission \in [Student -> AssignmentSubmission \cup {None}]
    /\ audit \in [Student -> SubmissionAuditLog] /\ disturbed \subseteq Student
    /\ \A w \in Worker : StudentFits(worker[w])
    /\ SubmittedHasContent /\ LogFollows

CourseworkInv ==
    /\ worker \in [Worker -> AuthorState \cup StudentState]
    /\ AuthoringInv /\ SubmissionInv /\ SettledFixed /\ OffersKnown
-----------------------------------------------------------------------------
(* What requests of coursework are doing *)

AuthorOp == {"bank", "archive", "questions", "question", "publish", "close", "update"}
StudentOp == {"check", "save", "draft", "submit", "grade", "log"}

BankWork == [op : {"bank", "archive", "questions"}, bank : Bank]
QuestionWork == [op : {"question"}, question : Question, row : QuestionRow]
StatusWork == [op : {"publish", "close"}]
UpdateWork ==
    [op : {"update"}, row : Assessment \cup {None}, config : Assignment \cup {None},
     list : QuestionList \cup {None}, doomed : (SUBSET Position) \cup {None}]
CheckWork == [op : {"check"}, student : Student, copy : Assessment, next : SaveState \cup SubmitState]
DraftWork == [op : {"draft"}, step : {"write"}, student : Student, row : AssignmentSubmission]
GradeWork == [op : {"grade"}, step : {"write"}, student : Student]
LogWork == [op : {"log"}, student : Student, entry : SubmissionAuditLog]

Work == AuthorState \cup StudentState

\* The fields of a request follow from what it does.
LEMMA WorkFields ==
    ASSUME NEW m \in Work
    PROVE  /\ m.op \in {"resting"} \cup AuthorOp \cup StudentOp
           /\ m.op = "resting" <=> m = Resting
           /\ m.op \in {"bank", "archive", "questions"} => m \in BankWork
           /\ m.op = "question" => m \in QuestionWork
           /\ m.op \in {"publish", "close"} => m \in StatusWork
           /\ m.op = "update" => m \in UpdateWork
           /\ m.op = "check" => m \in CheckWork
           /\ m.op = "save" => m \in SaveState
           /\ m.op = "draft" => m \in DraftWork
           /\ m.op = "submit" => m \in SubmitState
           /\ m.op = "grade" => m \in GradeWork
           /\ m.op = "log" => m \in LogWork
           /\ "student" \in DOMAIN m <=> m.op \in StudentOp
<1>1. CASE m = Resting BY <1>1 DEF Resting, AuthorOp, StudentOp
<1>2. CASE m \in BankWork BY <1>2 DEF BankWork, Resting, AuthorOp, StudentOp
<1>3. CASE m \in QuestionWork BY <1>3 DEF QuestionWork, Resting, AuthorOp, StudentOp
<1>4. CASE m \in StatusWork BY <1>4 DEF StatusWork, Resting, AuthorOp, StudentOp
<1>5. CASE m \in UpdateWork BY <1>5 DEF UpdateWork, Resting, AuthorOp, StudentOp
<1>6. CASE m \in SaveState BY <1>6 DEF SaveState, Resting, AuthorOp, StudentOp
<1>7. CASE m \in DraftWork BY <1>7 DEF DraftWork, Resting, AuthorOp, StudentOp
<1>8. CASE m \in SubmitState BY <1>8 DEF SubmitState, Resting, AuthorOp, StudentOp
<1>9. CASE m \in GradeWork BY <1>9 DEF GradeWork, Resting, AuthorOp, StudentOp
<1>10. CASE m \in LogWork BY <1>10 DEF LogWork, Resting, AuthorOp, StudentOp
<1>11. CASE m \in CheckWork BY <1>11 DEF CheckWork, Resting, AuthorOp, StudentOp
<1> QED BY <1>1, <1>2, <1>3, <1>4, <1>5, <1>6, <1>7, <1>8, <1>9, <1>10, <1>11
        DEF Work, AuthorState, StudentState, BankWork, QuestionWork, StatusWork, UpdateWork,
            CheckWork, DraftWork, GradeWork, LogWork

LEMMA WorkIntro ==
    ASSUME NEW m, m \in {Resting} \cup BankWork \cup QuestionWork \cup StatusWork \cup UpdateWork
                       \cup CheckWork \cup SaveState \cup DraftWork \cup SubmitState \cup GradeWork \cup LogWork
    PROVE  m \in Work
BY DEF Work, AuthorState, StudentState, BankWork, QuestionWork, StatusWork, UpdateWork,
       CheckWork, DraftWork, GradeWork, LogWork

-----------------------------------------------------------------------------
(* Steps that leave authors or submissions alone *)

\* A request that changed is of no author before or after.
QuietForAuthors == \A w \in Worker : worker'[w] # worker[w] => worker'[w].op \notin AuthorOp

\* A request that changed is about no submission before or after.
QuietForStudents ==
    \A w \in Worker : worker'[w] # worker[w] =>
        worker[w].op \notin StudentOp /\ worker'[w].op \notin StudentOp

\* What is fixed stays so.
AuthorsKeepFixed ==
    /\ FixedBanks \subseteq FixedBanks' /\ FixedQuestions \subseteq FixedQuestions'
    /\ FixedAssessments \subseteq FixedAssessments'

AuthoringKept == AuthoringInv' /\ AuthorsKeepFixed

\* What requests hold to has been offered before the step.
OffersKept == \A w \in Worker : Offering(worker'[w])

SubmissionsKept == SubmissionInv' /\ FixedSubmissions \subseteq FixedSubmissions' /\ OffersKept

WorkersTyped == worker \in [Worker -> Work]

LEMMA AuthorsQuiet ==
    ASSUME CourseworkInv, WorkersTyped', QuietForAuthors, UNCHANGED <<bank, question, lists, exam>>,
           now' \in 0 .. MaxTime, started' \in 0 .. MaxStarted
    PROVE  AuthoringKept
<1> USE DEF CourseworkInv, AuthoringInv, lists, exam
<1>1. \A w \in Worker : worker[w] \in Work /\ worker'[w] \in Work BY DEF WorkersTyped, Work
<1>2. \A w \in Worker : worker'[w].op \in AuthorOp => worker'[w] = worker[w]
  BY DEF QuietForAuthors
<1>3. AuthoringTypeOK' BY DEF AuthoringTypeOK
<1>4. \A w \in Worker : AuthorFits(worker[w])'
  <2> TAKE w \in Worker
  <2>1. CASE worker'[w].op \in AuthorOp BY <1>2, <2>1 DEF AuthorFits
  <2>2. CASE worker'[w].op \notin AuthorOp BY <2>2 DEF AuthorFits, AuthorOp
  <2> QED BY <2>1, <2>2
<1>5. StoredValid' /\ Unique(links)' BY DEF StoredValid, Unique
<1>6. Replacing' \subseteq Replacing BY <1>2 DEF Replacing, Updating, AuthorOp
<1>7. OneReplacement' BY <1>2, <1>6 DEF OneReplacement, Occupied, Replacing, Updating, AuthorOp
<1>8. QuestionsLeft' BY <1>2 DEF QuestionsLeft, Publishing, Listed, AuthorOp
<1>9. AuthorsKeepFixed
  <2>1. FixedBanks \subseteq FixedBanks' BY <1>2 DEF FixedBanks, AuthorOp
  <2>2. FixedQuestions \subseteq FixedQuestions' BY <1>2 DEF FixedQuestions, AuthorOp
  <2>3. FixedAssessments \subseteq FixedAssessments'
    BY <1>2 DEF FixedAssessments, Updating, AuthorOp
  <2> QED BY <2>1, <2>2, <2>3 DEF AuthorsKeepFixed
<1> QED BY <1>3, <1>4, <1>5, <1>7, <1>8, <1>9 DEF AuthoringKept

LEMMA StudentsQuiet ==
    ASSUME CourseworkInv, WorkersTyped', QuietForStudents, UNCHANGED submissionVars
    PROVE  SubmissionsKept
<1> USE DEF CourseworkInv, SubmissionInv, submissionVars
<1>1. \A w \in Worker : worker[w] \in Work /\ worker'[w] \in Work BY DEF WorkersTyped, Work
<1>2. \A w \in Worker : worker'[w].op \in StudentOp \/ worker[w].op \in StudentOp
            => worker'[w] = worker[w]
  BY DEF QuietForStudents
<1>3. \A w \in Worker : StudentFits(worker[w])'
  BY <1>2 DEF StudentFits, Saving, StudentOp
<1>4. \A s \in Student : About(s)' = About(s) BY <1>1, <1>2, WorkFields DEF About
<1>5. \A s \in Student : \A w \in About(s) : worker'[w] = worker[w]
  BY <1>1, <1>2, WorkFields DEF About
<1>6. LogFollows' BY <1>4, <1>5 DEF LogFollows, Tells, Entry
<1>7. SubmittedHasContent' BY DEF SubmittedHasContent
<1>8. FixedSubmissions \subseteq FixedSubmissions' BY <1>2 DEF FixedSubmissions, Saving, StudentOp
<1>10. OffersKept
  <2> SUFFICES ASSUME NEW w \in Worker PROVE Offering(worker'[w]) BY DEF OffersKept
  <2>1. CASE worker'[w].op \in StudentOp BY <1>2, <2>1 DEF OffersKnown
  <2>2. CASE worker'[w].op \notin StudentOp BY <2>2 DEF Offering, StudentOp
  <2> QED BY <2>1, <2>2
<1> QED BY <1>3, <1>6, <1>7, <1>8, <1>10 DEF SubmissionsKept

-----------------------------------------------------------------------------
(* What authors begin *)

LEMMA ManagesTyped ==
    ASSUME CourseworkInv, NEW w \in Worker, NEW m \in Work, m.op \notin StudentOp, Manages(w, m)
    PROVE  /\ WorkersTyped' /\ QuietForStudents
           /\ worker[w] = Resting /\ worker'[w] = m
           /\ \A v \in Worker \ {w} : worker'[v] = worker[v]
           /\ started' \in 0 .. MaxStarted
<1> USE DEF CourseworkInv
<1>1. /\ worker \in [Worker -> Work] /\ worker' = [worker EXCEPT ![w] = m]
      /\ worker[w] = Resting
  BY DEF Manages, Begins, MayBegin, Work
<1>2. started \in 0 .. MaxStarted /\ started < MaxStarted /\ started' = started + 1
  BY DEF Manages, Begins, MayBegin, AuthoringInv, AuthoringTypeOK
<1>3. started' \in 0 .. MaxStarted BY <1>2, AuthoringAssumption
<1>4. worker'[w] = m /\ \A v \in Worker \ {w} : worker'[v] = worker[v] BY <1>1
<1>5. WorkersTyped' BY <1>1 DEF WorkersTyped
<1>6. QuietForStudents BY <1>1, <1>4 DEF QuietForStudents, StudentOp, Resting
<1> QED BY <1>1, <1>3, <1>4, <1>5, <1>6

LEMMA AuthorBegins ==
    ASSUME CourseworkInv, NEW w \in Worker, NEW m \in Work, m.op \in AuthorOp, Manages(w, m),
           UNCHANGED <<bank, question, lists, exam, now>>,
           AuthorFits(m), m.op = "update" => m.doomed = None,
           Publishing(m) /\ assessment.type = "quiz" => Listed(links) # {} \/ emptied,
           m.op = "bank" => bank[m.bank] # "archived",
           m.op = "question" => question[m.question] = None \/ ~question[m.question].deleted,
           m.op \in {"publish", "close", "update"} => ~assessment.deleted
    PROVE  WorkersTyped' /\ AuthoringKept /\ QuietForStudents
<1> USE DEF CourseworkInv, AuthoringInv, lists, exam
<1>1. m.op \notin StudentOp BY DEF AuthorOp, StudentOp
<1>2. /\ WorkersTyped' /\ QuietForStudents
      /\ worker[w] = Resting /\ worker'[w] = m
      /\ \A v \in Worker \ {w} : worker'[v] = worker[v]
      /\ started' \in 0 .. MaxStarted
  BY <1>1, ManagesTyped
<1>3. AuthoringTypeOK' BY <1>2 DEF AuthoringTypeOK
<1>4. \A v \in Worker : AuthorFits(worker[v])' BY <1>2 DEF AuthorFits
<1>5. StoredValid' /\ Unique(links)' BY DEF StoredValid, Unique
<1>6. w \notin Replacing /\ w \notin Replacing'
  BY <1>2 DEF Replacing, Updating, Resting
<1>7. Replacing' \subseteq Replacing
  <2>1. SUFFICES ASSUME NEW v \in Replacing' PROVE v \in Replacing OBVIOUS
  <2>2. v \in Worker /\ v # w BY <1>6, <2>1 DEF Replacing
  <2>3. worker'[v] = worker[v] BY <1>2, <2>2
  <2> QED BY <2>1, <2>2, <2>3 DEF Replacing, Updating
<1>8. OneReplacement'
  <2>1. \A v \in Replacing' : v \in Replacing /\ worker'[v] = worker[v]
    BY <1>2, <1>6, <1>7 DEF Replacing
  <2>2. links' = links /\ asked' = asked /\ crossed' = crossed /\ Occupied' = Occupied
    BY DEF Occupied
  <2> QED BY <2>1, <2>2 DEF OneReplacement
<1>9. QuestionsLeft'
  <2>1. \A v \in Worker \ {w} : Publishing(worker[v])' <=> Publishing(worker[v])
    BY <1>2 DEF Publishing
  <2>2. Publishing(worker[w])' <=> Publishing(m) BY <1>2 DEF Publishing
  <2> QED BY <2>1, <2>2 DEF QuestionsLeft, Listed
<1>10. FixedBanks \subseteq FixedBanks' BY <1>2 DEF FixedBanks
<1>11. FixedQuestions \subseteq FixedQuestions' BY <1>2 DEF FixedQuestions
<1>12. FixedAssessments \subseteq FixedAssessments'
  BY <1>2 DEF FixedAssessments, Updating
<1> QED BY <1>2, <1>3, <1>4, <1>5, <1>8, <1>9, <1>10, <1>11, <1>12 DEF AuthoringKept, AuthorsKeepFixed

LEMMA LoadBankStep ==
    ASSUME CourseworkInv, NEW w \in Worker, NEW b \in Bank, NEW op \in {"bank", "archive"},
           LoadBank(w, b, op)
    PROVE  WorkersTyped' /\ AuthoringKept /\ QuietForStudents
<1> DEFINE m == [op |-> op, bank |-> b]
<1>1. m \in Work /\ m.op \in AuthorOp BY WorkIntro DEF BankWork, AuthorOp
<1>2. AuthorFits(m) /\ ~Publishing(m) BY DEF AuthorFits, Publishing
<1>3. bank[b] # "archived" BY DEF LoadBank, LiveBank
<1> QED BY <1>1, <1>2, <1>3, AuthorBegins DEF LoadBank

LEMMA LoadBankForQuestionStep ==
    ASSUME CourseworkInv, NEW w \in Worker, NEW q \in Question, NEW c \in Payload,
           LoadBankForQuestion(w, q, c)
    PROVE  WorkersTyped' /\ AuthoringKept /\ QuietForStudents
<1> DEFINE m == [op |-> "question", question |-> q, row |-> [content |-> c, deleted |-> FALSE]]
<1>1. m \in Work /\ m.op \in AuthorOp
  BY WorkIntro, AuthoringAssumption DEF QuestionWork, QuestionRow, AuthorOp
<1>2. AuthorFits(m) /\ ~Publishing(m) BY DEF AuthorFits, Publishing, LoadBankForQuestion
<1> QED BY <1>1, <1>2, AuthorBegins DEF LoadBankForQuestion

LEMMA MergedTyped ==
    ASSUME NEW c \in Content, NEW sent \in Content, NEW members
    PROVE  Merged(c, sent, members) \in Content
BY DEF Merged, Content

LEMMA LoadQuestionStep ==
    ASSUME CourseworkInv, NEW w \in Worker, NEW q \in Question, NEW c \in Payload,
           NEW members \in SUBSET {"type", "choices", "answer"}, LoadQuestion(w, q, c, members)
    PROVE  WorkersTyped' /\ AuthoringKept /\ QuietForStudents
<1> DEFINE merged == Merged(question[q].content, c, members)
           m == [op |-> "question", question |-> q,
                 row |-> [question[q] EXCEPT !.content = merged]]
<1>1. question[q] \in QuestionRow /\ ~question[q].deleted
  BY DEF CourseworkInv, AuthoringInv, AuthoringTypeOK, LoadQuestion, LiveQuestion
<1>2. merged \in Content /\ WellFormed(merged)
  BY <1>1, MergedTyped, AuthoringAssumption DEF QuestionRow, LoadQuestion, Accepted
<1>3. m.row \in QuestionRow /\ m.row.content = merged
  BY <1>1, <1>2 DEF QuestionRow
<1>4. m \in Work /\ m.op \in AuthorOp BY <1>3, WorkIntro DEF QuestionWork, AuthorOp
<1>5. AuthorFits(m) /\ ~Publishing(m) BY <1>2, <1>3 DEF AuthorFits, Publishing
<1>6. Manages(w, m) BY DEF LoadQuestion
<1> HIDE DEF merged
<1> QED BY <1>1, <1>4, <1>5, <1>6, AuthorBegins DEF LoadQuestion

\* An update that is begun keeps the row, if it has one, in order and of its type.
LEMMA UpdateBegins ==
    ASSUME CourseworkInv, NEW w \in Worker, LiveAssessment,
           NEW row \in Assessment \cup {None}, NEW c \in Assignment \cup {None},
           NEW list \in ListSent \cup {None},
           row # None => /\ row.type = assessment.type /\ row.status = assessment.status
                         /\ Ordered(row.from, row.until),
           list # None => assessment.type = "quiz",
           Manages(w, Update(row, c, list)),
           UNCHANGED <<bank, question, lists, exam, now>>
    PROVE  WorkersTyped' /\ AuthoringKept /\ QuietForStudents
<1> DEFINE m == Update(row, c, list)
<1>1. m \in Work /\ m.op \in AuthorOp
  <2>1. list \in QuestionList \cup {None} BY DEF ListSent
  <2>2. m \in UpdateWork BY <2>1 DEF UpdateWork, Update
  <2> QED BY <2>2, WorkIntro DEF UpdateWork, AuthorOp
<1>2. AuthorFits(m) BY DEF AuthorFits, Update, ListSent, LiveAssessment
<1>3. m.op = "update" => m.doomed = None BY DEF Update
<1>4. Publishing(m) => assessment.status = "published" BY DEF Publishing, Update
<1>5. Publishing(m) /\ assessment.type = "quiz" => Listed(links) # {} \/ emptied
  BY <1>4 DEF CourseworkInv, AuthoringInv, QuestionsLeft, LiveAssessment
<1>6. m.op \notin {"bank", "question"} /\ ~assessment.deleted BY DEF Update, LiveAssessment
<1> HIDE DEF m
<1> QED BY <1>1, <1>2, <1>3, <1>5, <1>6, AuthorBegins DEF m

\* The assessment with another window.
LEMMA UpdatedRowTyped ==
    ASSUME assessment \in Assessment, NEW f \in When, NEW u \in When
    PROVE  /\ UpdatedRow(f, u) \in Assessment
           /\ UpdatedRow(f, u).type = assessment.type
           /\ UpdatedRow(f, u).status = assessment.status
           /\ UpdatedRow(f, u).from = f /\ UpdatedRow(f, u).until = u
<1> DEFINE one == [assessment EXCEPT !.from = f]
<1>1. /\ one \in Assessment /\ one.type = assessment.type /\ one.status = assessment.status
      /\ one.from = f
  BY DEF Assessment
<1>2. UpdatedRow(f, u) = [one EXCEPT !.until = u] BY Zenon DEF UpdatedRow
<1> HIDE DEF one
<1> QED BY <1>1, <1>2 DEF Assessment

LEMMA LoadUpdateStep ==
    ASSUME CourseworkInv, NEW w \in Worker, NEW from \in When, NEW until \in When,
           NEW c \in ConfigSent \cup {None}, NEW list \in ListSent \cup {None},
           LoadUpdate(w, from, until, c, list)
    PROVE  WorkersTyped' /\ AuthoringKept /\ QuietForStudents
<1>1. assessment \in Assessment
  BY DEF CourseworkInv, AuthoringInv, AuthoringTypeOK, LoadUpdate, LiveAssessment
<1> DEFINE row == UpdatedRow(from, until)
<1>3. /\ row \in Assessment /\ row.type = assessment.type /\ row.status = assessment.status
      /\ row.from = from /\ row.until = until
  BY <1>1, UpdatedRowTyped
<1>5. Manages(w, Update(row, c, list)) /\ Ordered(from, until) BY DEF LoadUpdate
<1> HIDE DEF row
<1>4. c \in Assignment \cup {None} BY DEF ConfigSent, Assignment
<1> QED BY <1>3, <1>4, <1>5, UpdateBegins DEF LoadUpdate, TakesQuestions

LEMMA LoadReplaceStep ==
    ASSUME CourseworkInv, NEW w \in Worker, NEW list \in ListSent, LoadReplace(w, list)
    PROVE  WorkersTyped' /\ AuthoringKept /\ QuietForStudents
BY UpdateBegins DEF LoadReplace, TakesQuestions

LEMMA LoadStatusStep ==
    ASSUME CourseworkInv, NEW w \in Worker, LoadPublish(w) \/ LoadClose(w)
    PROVE  WorkersTyped' /\ AuthoringKept /\ QuietForStudents
<1>1. PICK m \in {[op |-> "publish"], [op |-> "close"]} :
          /\ Manages(w, m) /\ LiveAssessment
          /\ m.op = "publish" => Publishable
          /\ UNCHANGED <<bank, question, lists, exam, now>>
  BY DEF LoadPublish, LoadClose
<1>2. m \in Work /\ m.op \in AuthorOp BY WorkIntro DEF StatusWork, AuthorOp
<1>3. AuthorFits(m) BY <1>1 DEF AuthorFits, LiveAssessment
<1>4. Publishing(m) /\ assessment.type = "quiz" => Listed(links) # {}
  BY <1>1 DEF Publishing, Publishable, TakesQuestions
<1>5. m.op \notin {"update", "bank", "question"} /\ ~assessment.deleted
  BY <1>1 DEF LiveAssessment
<1> QED BY <1>1, <1>2, <1>3, <1>4, <1>5, AuthorBegins
-----------------------------------------------------------------------------
(* What authors do at once, and what they save *)

\* Requests end, or go on to archive the questions of a bank.
Fewer == \A w \in Worker : worker'[w] = worker[w] \/ worker'[w].op \in {"resting", "questions"}

LEMMA FewerReplace ==
    ASSUME CourseworkInv, Fewer
    PROVE  /\ \A w \in Worker : w \in Replacing' => w \in Replacing /\ worker'[w] = worker[w]
           /\ \A w \in Worker : Publishing(worker[w])' => Publishing(worker[w])
           /\ \A w \in Worker : worker'[w].op \in {"bank", "question", "publish", "close", "update"}
                                    => worker'[w] = worker[w]
           /\ Replacing' \subseteq Worker
<1>1. \A w \in Worker : worker'[w].op \in {"bank", "question", "publish", "close", "update"}
                             => worker'[w] = worker[w]
  BY DEF Fewer
<1>2. \A w \in Worker : w \in Replacing' => w \in Replacing /\ worker'[w] = worker[w]
  BY <1>1 DEF Replacing, Updating
<1>3. \A w \in Worker : Publishing(worker[w])' => Publishing(worker[w])
  BY <1>1 DEF Publishing
<1>4. Replacing' \subseteq Worker BY DEF Replacing
<1> QED BY <1>1, <1>2, <1>3, <1>4

LEMMA OneReplacementKept ==
    ASSUME CourseworkInv, Fewer, UNCHANGED lists
    PROVE  OneReplacement' /\ Unique(links)'
<1>1. links' = links /\ asked' = asked /\ crossed' = crossed /\ Occupied' = Occupied
  BY DEF lists, Occupied
<1>2. \A v \in Replacing' : v \in Replacing /\ worker'[v] = worker[v]
  BY FewerReplace DEF Replacing
<1>3. OneReplacement /\ Unique(links) BY DEF CourseworkInv, AuthoringInv
<1> QED BY <1>1, <1>2, <1>3 DEF OneReplacement, Unique

\* Banks and questions are written while the assessment stays.
LEMMA BankWritten ==
    ASSUME CourseworkInv, Fewer, UNCHANGED <<lists, exam, now>>, AuthoringTypeOK', StoredValid',
           FixedBanks \subseteq FixedBanks', FixedQuestions \subseteq FixedQuestions'
    PROVE  AuthoringKept
<1> USE DEF CourseworkInv, AuthoringInv
<1>1. links' = links /\ emptied' = emptied /\ assessment' = assessment BY DEF lists, exam
<1>2. \A w \in Worker : AuthorFits(worker[w])'
  BY <1>1, FewerReplace DEF AuthorFits, Fewer
<1>3. OneReplacement' /\ Unique(links)' BY OneReplacementKept
<1>4. QuestionsLeft' BY <1>1, FewerReplace DEF QuestionsLeft, Listed
<1>5. FixedAssessments \subseteq FixedAssessments'
  BY <1>1, FewerReplace DEF FixedAssessments, Updating
<1> QED BY <1>2, <1>3, <1>4, <1>5 DEF AuthoringKept, AuthorsKeepFixed

\* The assessment is written with its type and window.
LEMMA StatusWritten ==
    ASSUME CourseworkInv, Fewer, UNCHANGED <<bank, question, lists, config, now>>,
           assessment \in Assessment, assessment' \in Assessment, started' \in 0 .. MaxStarted,
           assessment'.type = assessment.type, assessment'.from = assessment.from,
           assessment'.until = assessment.until,
           assessment'.status = "published" /\ assessment.type = "quiz" => Listed(links) # {} \/ emptied,
           FixedAssessments \subseteq FixedAssessments'
    PROVE  AuthoringKept
<1> USE DEF CourseworkInv, AuthoringInv
<1>1. links' = links /\ asked' = asked /\ crossed' = crossed /\ emptied' = emptied BY DEF lists
<1>2. assessment # None /\ assessment' # None BY MarkerAssumption
<1>3. AuthoringTypeOK' BY <1>1, <1>2 DEF AuthoringTypeOK, Listed
<1>4. \A w \in Worker : AuthorFits(worker[w])'
  BY <1>2, FewerReplace DEF AuthorFits, Fewer
<1>5. OneReplacement' /\ Unique(links)' BY OneReplacementKept
<1>6. QuestionsLeft' BY <1>1, <1>2, FewerReplace DEF QuestionsLeft, Listed
<1>7. StoredValid' BY <1>2 DEF StoredValid
<1>8. FixedBanks \subseteq FixedBanks' BY FewerReplace DEF FixedBanks
<1>9. FixedQuestions \subseteq FixedQuestions' BY FewerReplace DEF FixedQuestions
<1> QED BY <1>3, <1>4, <1>5, <1>6, <1>7, <1>8, <1>9 DEF AuthoringKept, AuthorsKeepFixed

LEMMA AtOnce ==
    ASSUME CourseworkInv, ManagesAtOnce
    PROVE  /\ WorkersTyped' /\ QuietForStudents /\ Fewer /\ started' \in 0 .. MaxStarted
           /\ worker' = worker
<1>1. PICK w \in Worker : Manages(w, Resting) BY DEF ManagesAtOnce
<1>2. Resting \in Work /\ Resting.op \notin StudentOp
  BY WorkIntro DEF Resting, StudentOp
<1>3. /\ WorkersTyped' /\ QuietForStudents /\ started' \in 0 .. MaxStarted
      /\ worker[w] = Resting /\ worker'[w] = Resting
      /\ \A v \in Worker \ {w} : worker'[v] = worker[v]
  BY <1>1, <1>2, ManagesTyped
<1>4. worker' = [worker EXCEPT ![w] = Resting] /\ worker \in [Worker -> Work]
  BY <1>1 DEF Manages, Begins, CourseworkInv, Work
<1>5. worker' = worker BY <1>3, <1>4
<1> QED BY <1>3, <1>5 DEF Fewer

LEMMA CreateBankStep ==
    ASSUME CourseworkInv, NEW b \in Bank, CreateBank(b)
    PROVE  WorkersTyped' /\ AuthoringKept /\ QuietForStudents
<1>1. /\ WorkersTyped' /\ QuietForStudents /\ Fewer /\ started' \in 0 .. MaxStarted
      /\ worker' = worker
  BY AtOnce DEF CreateBank
<1>2. bank \in [Bank -> QuestionBank] /\ bank' = [bank EXCEPT ![b] = "live"] /\ bank[b] = "absent"
  BY DEF CourseworkInv, AuthoringInv, AuthoringTypeOK, CreateBank
<1>3. AuthoringTypeOK'
  BY <1>1, <1>2 DEF CourseworkInv, AuthoringInv, AuthoringTypeOK, CreateBank, QuestionBank, lists,
        exam, Listed
<1>4. FixedBanks \subseteq FixedBanks' BY <1>1, <1>2 DEF FixedBanks
<1>5. FixedQuestions \subseteq FixedQuestions' BY <1>1 DEF FixedQuestions, CreateBank
<1>6. StoredValid' BY DEF CourseworkInv, AuthoringInv, StoredValid, CreateBank, exam
<1> QED BY <1>1, <1>3, <1>4, <1>5, <1>6, BankWritten DEF CreateBank

LEMMA ArchiveQuestionStep ==
    ASSUME CourseworkInv, NEW q \in Question, ArchiveQuestion(q)
    PROVE  WorkersTyped' /\ AuthoringKept /\ QuietForStudents
<1>1. /\ WorkersTyped' /\ QuietForStudents /\ Fewer /\ started' \in 0 .. MaxStarted
      /\ worker' = worker
  BY AtOnce DEF ArchiveQuestion
<1>2. /\ question \in [Question -> QuestionRow \cup {None}]
      /\ question' = [question EXCEPT ![q].deleted = TRUE] /\ question[q] # None
  BY DEF CourseworkInv, AuthoringInv, AuthoringTypeOK, ArchiveQuestion, LiveQuestion
<1>3. /\ question' \in [Question -> QuestionRow \cup {None}]
      /\ question'[q] \in QuestionRow /\ question'[q].content = question[q].content
      /\ question'[q].deleted
      /\ \A p \in Question \ {q} : question'[p] = question[p]
  BY <1>2 DEF QuestionRow
<1>4. question'[q] # None BY <1>3, MarkerAssumption
<1>5. AuthoringTypeOK'
  BY <1>1, <1>3 DEF CourseworkInv, AuthoringInv, AuthoringTypeOK, ArchiveQuestion, lists, exam, Listed
<1>6. FixedBanks \subseteq FixedBanks' BY <1>1 DEF FixedBanks, ArchiveQuestion
<1>7. FixedQuestions \subseteq FixedQuestions' BY <1>1, <1>3, <1>4 DEF FixedQuestions
<1>8. StoredValid'
  BY <1>2, <1>3, <1>4 DEF CourseworkInv, AuthoringInv, StoredValid, ArchiveQuestion, exam
<1> QED BY <1>1, <1>5, <1>6, <1>7, <1>8, BankWritten DEF ArchiveQuestion

LEMMA CreateAssessmentStep ==
    ASSUME CourseworkInv, NEW type \in AssessmentType, NEW from \in When, NEW until \in When,
           NEW c \in ConfigSent, NEW list \in ListSent, CreateAssessment(type, from, until, c, list)
    PROVE  WorkersTyped' /\ AuthoringKept /\ QuietForStudents
<1> USE DEF CourseworkInv, AuthoringInv
<1>1. /\ WorkersTyped' /\ QuietForStudents /\ Fewer /\ started' \in 0 .. MaxStarted
      /\ worker' = worker
  BY AtOnce DEF CreateAssessment
<1>2. /\ assessment' \in Assessment /\ assessment'.type = type /\ assessment'.status = "draft"
      /\ assessment'.from = from /\ assessment'.until = until
  BY DEF CreateAssessment, Assessment, AssessmentStatus
<1>3. assessment = None /\ assessment' # None BY <1>2, MarkerAssumption DEF CreateAssessment
<1>4. \A w \in Worker : worker[w].op \notin {"publish", "close", "update"}
  BY <1>3 DEF AuthorFits
<1>5. \A w \in Worker : AuthorFits(worker[w])'
  BY <1>1, <1>4 DEF AuthorFits
<1>6. list \in QuestionList /\ Unique(list) BY DEF ListSent
<1>7. AuthoringTypeOK'
  <2>1. type = "assignment" => Listed(list) = {}
    BY DEF CreateAssessment, Listed, NoQuestions
  <2> QED BY <1>1, <1>2, <1>6, <2>1
          DEF AuthoringTypeOK, CreateAssessment, ConfigSent, Assignment, Listed
<1>8. OneReplacement' /\ Unique(links)'
  BY <1>1, <1>4, <1>6 DEF OneReplacement, Replacing, Updating, CreateAssessment, Unique
<1>9. QuestionsLeft' BY <1>1, <1>2, <1>4 DEF QuestionsLeft, Publishing
<1>10. StoredValid' BY <1>2 DEF StoredValid, CreateAssessment
<1>11. AuthorsKeepFixed
  <2>1. FixedBanks \subseteq FixedBanks' BY <1>1 DEF FixedBanks, CreateAssessment
  <2>2. FixedQuestions \subseteq FixedQuestions' BY <1>1 DEF FixedQuestions, CreateAssessment
  <2>3. FixedAssessments = {} BY <1>3 DEF FixedAssessments
  <2> QED BY <2>1, <2>2, <2>3 DEF AuthorsKeepFixed
<1> QED BY <1>1, <1>5, <1>7, <1>8, <1>9, <1>10, <1>11 DEF AuthoringKept

\* The assessment with another status.
WithStatus(s, d) == [assessment EXCEPT !.status = s, !.deleted = d]

LEMMA WithStatusTyped ==
    ASSUME assessment \in Assessment, NEW s \in AssessmentStatus, NEW d \in BOOLEAN
    PROVE  /\ WithStatus(s, d) \in Assessment
           /\ WithStatus(s, d).type = assessment.type
           /\ WithStatus(s, d).status = s /\ WithStatus(s, d).deleted = d
           /\ WithStatus(s, d).from = assessment.from /\ WithStatus(s, d).until = assessment.until
<1> DEFINE one == [assessment EXCEPT !.status = s]
<1>1. /\ one \in Assessment /\ one.type = assessment.type /\ one.status = s
      /\ one.from = assessment.from /\ one.until = assessment.until
  BY DEF Assessment
<1>2. WithStatus(s, d) = [one EXCEPT !.deleted = d] BY Zenon DEF WithStatus
<1> HIDE DEF one
<1> QED BY <1>1, <1>2 DEF Assessment

LEMMA ArchiveAssessmentStep ==
    ASSUME CourseworkInv, ArchiveAssessment
    PROVE  WorkersTyped' /\ AuthoringKept /\ QuietForStudents
<1>1. /\ WorkersTyped' /\ QuietForStudents /\ Fewer /\ started' \in 0 .. MaxStarted
      /\ worker' = worker
  BY AtOnce DEF ArchiveAssessment
<1>2. assessment \in Assessment
  BY DEF CourseworkInv, AuthoringInv, AuthoringTypeOK, ArchiveAssessment, LiveAssessment
<1>3. assessment' = WithStatus("archived", TRUE) BY Zenon DEF ArchiveAssessment, WithStatus
<1>4. "archived" \in AssessmentStatus /\ TRUE \in BOOLEAN BY DEF AssessmentStatus
<1>5. /\ assessment' \in Assessment /\ assessment'.type = assessment.type
      /\ assessment'.status = "archived" /\ assessment'.deleted
      /\ assessment'.from = assessment.from /\ assessment'.until = assessment.until
  BY <1>2, <1>3, <1>4, WithStatusTyped
<1>6. assessment' # None BY <1>5, MarkerAssumption
<1>7. FixedAssessments \subseteq FixedAssessments'
  BY <1>1, <1>5, <1>6 DEF FixedAssessments, Updating
<1>8. UNCHANGED <<bank, question, lists, config, now>> BY DEF ArchiveAssessment
<1> QED BY <1>1, <1>2, <1>5, <1>7, <1>8, StatusWritten
LEMMA RequestContinues ==
    ASSUME CourseworkInv, NEW w \in Worker, worker[w].op \notin StudentOp,
           NEW m \in Work, m.op \notin StudentOp, Continues(w, m)
    PROVE  /\ WorkersTyped' /\ QuietForStudents /\ worker'[w] = m
           /\ \A v \in Worker \ {w} : worker'[v] = worker[v]
           /\ m.op \in {"resting", "questions"} => Fewer
<1>1. worker \in [Worker -> Work] /\ worker' = [worker EXCEPT ![w] = m]
  BY DEF CourseworkInv, Work, Continues
<1>2. worker'[w] = m /\ \A v \in Worker \ {w} : worker'[v] = worker[v] BY <1>1
<1>3. WorkersTyped' BY <1>1 DEF WorkersTyped
<1>4. QuietForStudents BY <1>2 DEF QuietForStudents
<1>5. m.op \in {"resting", "questions"} => Fewer BY <1>2 DEF Fewer
<1> QED BY <1>2, <1>3, <1>4, <1>5

LEMMA RequestEnds ==
    ASSUME CourseworkInv, NEW w \in Worker, worker[w].op \notin StudentOp, Ends(w)
    PROVE  /\ WorkersTyped' /\ QuietForStudents /\ Fewer
           /\ worker'[w] = Resting /\ \A v \in Worker \ {w} : worker'[v] = worker[v]
<1>1. Resting \in Work /\ Resting.op \notin StudentOp /\ Resting.op = "resting"
  BY WorkIntro DEF Resting, StudentOp
<1> QED BY <1>1, RequestContinues DEF Ends

LEMMA SaveBankStep ==
    ASSUME CourseworkInv, NEW w \in Worker, SaveBank(w)
    PROVE  WorkersTyped' /\ AuthoringKept /\ QuietForStudents
<1> DEFINE b == worker[w].bank
<1>1. worker[w] \in BankWork
  BY WorkFields DEF CourseworkInv, Work, SaveBank
<1>2. b \in Bank /\ worker[w].op \notin StudentOp BY <1>1 DEF BankWork, StudentOp
<1>3. /\ WorkersTyped' /\ QuietForStudents /\ Fewer
      /\ worker'[w] = Resting /\ \A v \in Worker \ {w} : worker'[v] = worker[v]
  BY <1>2, RequestEnds DEF SaveBank
<1>4. bank \in [Bank -> QuestionBank] /\ bank' = [bank EXCEPT ![b] = "live"]
  BY DEF CourseworkInv, AuthoringInv, AuthoringTypeOK, SaveBank
<1>5. AuthoringTypeOK'
  <2>1. bank' \in [Bank -> QuestionBank] BY <1>2, <1>4 DEF QuestionBank
  <2> QED BY <2>1 DEF CourseworkInv, AuthoringInv, AuthoringTypeOK, SaveBank, lists, exam, Listed
<1>6. FixedBanks \subseteq FixedBanks'
  <2>1. b \notin FixedBanks BY DEF FixedBanks, SaveBank
  <2> QED BY <1>3, <1>4, <2>1, FewerReplace DEF FixedBanks
<1>7. FixedQuestions \subseteq FixedQuestions' BY <1>3, FewerReplace DEF FixedQuestions, SaveBank
<1>8. StoredValid' BY DEF CourseworkInv, AuthoringInv, StoredValid, SaveBank, exam
<1> QED BY <1>3, <1>5, <1>6, <1>7, <1>8, BankWritten DEF SaveBank

LEMMA ArchiveBankStep ==
    ASSUME CourseworkInv, NEW w \in Worker, ArchiveBank(w)
    PROVE  WorkersTyped' /\ AuthoringKept /\ QuietForStudents
<1> DEFINE b == worker[w].bank
           m == [op |-> "questions", bank |-> b]
<1>1. worker[w] \in BankWork
  BY WorkFields DEF CourseworkInv, Work, ArchiveBank
<1>2. b \in Bank /\ worker[w].op \notin StudentOp BY <1>1 DEF BankWork, StudentOp
<1>3. m \in Work /\ m.op = "questions" /\ m.op \notin StudentOp
  BY <1>2, WorkIntro DEF BankWork, StudentOp
<1>4. WorkersTyped' /\ QuietForStudents /\ Fewer
  BY <1>2, <1>3, RequestContinues DEF ArchiveBank
<1>5. bank \in [Bank -> QuestionBank] /\ bank' = [bank EXCEPT ![b] = "archived"]
  BY DEF CourseworkInv, AuthoringInv, AuthoringTypeOK, ArchiveBank
<1>6. AuthoringTypeOK'
  <2>1. bank' \in [Bank -> QuestionBank] BY <1>2, <1>5 DEF QuestionBank
  <2> QED BY <2>1 DEF CourseworkInv, AuthoringInv, AuthoringTypeOK, ArchiveBank, lists, exam, Listed
<1>7. FixedBanks \subseteq FixedBanks' BY <1>4, <1>5, FewerReplace DEF FixedBanks
<1>8. FixedQuestions \subseteq FixedQuestions' BY <1>4, FewerReplace DEF FixedQuestions, ArchiveBank
<1>9. StoredValid' BY DEF CourseworkInv, AuthoringInv, StoredValid, ArchiveBank, exam
<1> QED BY <1>4, <1>6, <1>7, <1>8, <1>9, BankWritten DEF ArchiveBank

LEMMA ArchiveQuestionsStep ==
    ASSUME CourseworkInv, NEW w \in Worker, ArchiveQuestions(w)
    PROVE  WorkersTyped' /\ AuthoringKept /\ QuietForStudents
<1>1. worker[w].op \notin StudentOp BY DEF StudentOp, ArchiveQuestions
<1>2. WorkersTyped' /\ QuietForStudents /\ Fewer
  BY <1>1, RequestEnds DEF ArchiveQuestions
<1>3. question \in [Question -> QuestionRow \cup {None}]
  BY DEF CourseworkInv, AuthoringInv, AuthoringTypeOK
<1>4. \A q \in Question : question[q] # None =>
          /\ question[q] \in QuestionRow
          /\ [question[q] EXCEPT !.deleted = TRUE] \in QuestionRow
          /\ [question[q] EXCEPT !.deleted = TRUE].content = question[q].content
          /\ [question[q] EXCEPT !.deleted = TRUE].deleted
  BY <1>3 DEF QuestionRow
<1>5. \A q \in Question :
          /\ question'[q] \in QuestionRow \cup {None}
          /\ question[q] = None => question'[q] = None
          /\ question[q] # None =>
                /\ question'[q] # None /\ question'[q].content = question[q].content
                /\ question[q].deleted => question'[q].deleted
  BY <1>3, <1>4, MarkerAssumption DEF ArchiveQuestions
<1>6. question' \in [Question -> QuestionRow \cup {None}]
  BY <1>5 DEF ArchiveQuestions
<1>7. AuthoringTypeOK'
  BY <1>6 DEF CourseworkInv, AuthoringInv, AuthoringTypeOK, ArchiveQuestions, lists, exam, Listed
<1>8. FixedBanks \subseteq FixedBanks' BY <1>2, FewerReplace DEF FixedBanks, ArchiveQuestions
<1>9. FixedQuestions \subseteq FixedQuestions' BY <1>2, <1>5, FewerReplace DEF FixedQuestions
<1>10. StoredValid'
  BY <1>5 DEF CourseworkInv, AuthoringInv, StoredValid, ArchiveQuestions, exam
<1> QED BY <1>2, <1>7, <1>8, <1>9, <1>10, BankWritten DEF ArchiveQuestions

LEMMA SaveQuestionStep ==
    ASSUME CourseworkInv, NEW w \in Worker, SaveQuestion(w)
    PROVE  WorkersTyped' /\ AuthoringKept /\ QuietForStudents
<1> DEFINE q == worker[w].question
           row == worker[w].row
<1>1. worker[w] \in QuestionWork
  BY WorkFields DEF CourseworkInv, Work, SaveQuestion
<1>2. q \in Question /\ row \in QuestionRow /\ worker[w].op \notin StudentOp
  BY <1>1 DEF QuestionWork, StudentOp
<1>3. WorkersTyped' /\ QuietForStudents /\ Fewer
  BY <1>2, RequestEnds DEF SaveQuestion
<1>4. /\ question \in [Question -> QuestionRow \cup {None}]
      /\ question' = [question EXCEPT ![q] = row]
  BY DEF CourseworkInv, AuthoringInv, AuthoringTypeOK, SaveQuestion
<1>5. AuthoringTypeOK'
  BY <1>2, <1>4 DEF CourseworkInv, AuthoringInv, AuthoringTypeOK, SaveQuestion, lists, exam, Listed
<1>6. FixedBanks \subseteq FixedBanks' BY <1>3, FewerReplace DEF FixedBanks, SaveQuestion
<1>7. FixedQuestions \subseteq FixedQuestions'
  <2>1. q \notin FixedQuestions BY DEF FixedQuestions, SaveQuestion
  <2> QED BY <1>3, <1>4, <2>1, FewerReplace DEF FixedQuestions
<1>8. StoredValid'
  <2>1. WellFormed(row.content) BY DEF CourseworkInv, AuthoringInv, AuthorFits, SaveQuestion
  <2> QED BY <1>2, <1>4, <2>1 DEF CourseworkInv, AuthoringInv, StoredValid, SaveQuestion, exam
<1> QED BY <1>3, <1>5, <1>6, <1>7, <1>8, BankWritten DEF SaveQuestion

LEMMA SaveStatusStep ==
    ASSUME CourseworkInv, NEW w \in Worker, SavePublished(w) \/ SaveClosed(w)
    PROVE  WorkersTyped' /\ AuthoringKept /\ QuietForStudents
<1>1. worker[w].op \in {"publish", "close"} /\ Ends(w)
  BY DEF SavePublished, SaveClosed
<1>2. WorkersTyped' /\ QuietForStudents /\ Fewer
  BY <1>1, RequestEnds DEF StudentOp
<1>3. assessment \in Assessment
  BY <1>1 DEF CourseworkInv, AuthoringInv, AuthoringTypeOK, AuthorFits
<1>4. started' \in 0 .. MaxStarted
  BY DEF CourseworkInv, AuthoringInv, AuthoringTypeOK, SavePublished, SaveClosed
<1>5. FixedAssessments = {} BY <1>1 DEF FixedAssessments
<1>6. UNCHANGED <<bank, question, lists, config, now>> BY DEF SavePublished, SaveClosed
<1>7. CASE SavePublished(w)
  <2>1. assessment' = WithStatus("published", FALSE) BY <1>7, Zenon DEF SavePublished, WithStatus
  <2>2. "published" \in AssessmentStatus /\ FALSE \in BOOLEAN BY DEF AssessmentStatus
  <2>3. /\ assessment' \in Assessment /\ assessment'.type = assessment.type
        /\ assessment'.from = assessment.from /\ assessment'.until = assessment.until
    BY <1>3, <2>1, <2>2, WithStatusTyped
  <2>4. Publishing(worker[w]) BY <1>7 DEF Publishing, SavePublished
  <2>5. assessment.type = "quiz" => Listed(links) # {} \/ emptied
    BY <1>3, <2>4, MarkerAssumption DEF CourseworkInv, AuthoringInv, QuestionsLeft
  <2> QED BY <1>2, <1>3, <1>4, <1>5, <1>6, <2>3, <2>5, StatusWritten
<1>8. CASE SaveClosed(w)
  <2>1. /\ assessment' \in Assessment /\ assessment'.type = assessment.type
        /\ assessment'.from = assessment.from /\ assessment'.until = assessment.until
        /\ assessment'.status = "closed"
    BY <1>3, <1>8 DEF SaveClosed, Assessment, AssessmentStatus
  <2> QED BY <1>2, <1>3, <1>4, <1>5, <1>6, <2>1, StatusWritten
<1> QED BY <1>7, <1>8
LEMMA DeleteLinksStep ==
    ASSUME CourseworkInv, NEW w \in Worker, DeleteLinks(w)
    PROVE  WorkersTyped' /\ AuthoringKept /\ QuietForStudents
<1> USE DEF CourseworkInv, AuthoringInv
<1> DEFINE m == [worker[w] EXCEPT !.doomed = Occupied]
<1>1. worker[w] \in UpdateWork /\ worker[w].op = "update"
  BY WorkFields DEF Work, DeleteLinks, Updating
<1>2. Occupied \in SUBSET Position /\ Occupied # None BY MarkerAssumption DEF Occupied
<1>3. /\ m \in UpdateWork /\ m.op = "update" /\ m.row = worker[w].row /\ m.list = worker[w].list
      /\ m.doomed = Occupied
  BY <1>1, <1>2 DEF UpdateWork
<1>4. Continues(w, m) BY DEF DeleteLinks
<1> HIDE DEF m
<1>5. m \in Work /\ m.op \notin StudentOp /\ worker[w].op \notin StudentOp
  BY <1>1, <1>3, WorkIntro DEF StudentOp
<1>6. /\ WorkersTyped' /\ QuietForStudents /\ worker'[w] = m
      /\ \A v \in Worker \ {w} : worker'[v] = worker[v]
  BY <1>4, <1>5, RequestContinues
<1>7. /\ UNCHANGED <<bank, question, links, asked, emptied, assessment, config, now, started>>
      /\ crossed' = (crossed \/ Replacing # {})
      /\ worker[w].list # None /\ worker[w].doomed = None
  BY DEF DeleteLinks, exam
<1>8. AuthoringTypeOK' BY <1>7 DEF AuthoringTypeOK, Listed
<1>9. \A v \in Worker : AuthorFits(worker[v])'
  <2>1. AuthorFits(worker[w])' BY <1>1, <1>3, <1>6, <1>7 DEF AuthorFits
  <2>2. \A v \in Worker \ {w} : AuthorFits(worker[v])' BY <1>6, <1>7 DEF AuthorFits
  <2> QED BY <2>1, <2>2
<1>10. Occupied' = Occupied BY <1>7 DEF Occupied
<1>11. OneReplacement'
  <2>1. SUFFICES ASSUME ~crossed' PROVE OneReplacement' BY DEF OneReplacement
  <2>2. ~crossed /\ Replacing = {} BY <1>7, <2>1 DEF AuthoringTypeOK
  <2>3. \A v \in Replacing' : v = w BY <1>6, <2>2 DEF Replacing, Updating
  <2> QED BY <1>3, <1>6, <1>7, <1>10, <2>2, <2>3 DEF OneReplacement
<1>12. QuestionsLeft'
  <2>1. Publishing(worker[w])' => Publishing(worker[w]) BY <1>1, <1>3, <1>6 DEF Publishing
  <2>2. \A v \in Worker \ {w} : Publishing(worker[v])' => Publishing(worker[v])
    BY <1>6 DEF Publishing
  <2> QED BY <1>7, <2>1, <2>2 DEF QuestionsLeft, Listed
<1>13. AuthorsKeepFixed
  <2>1. FixedBanks \subseteq FixedBanks' BY <1>3, <1>6, <1>7 DEF FixedBanks
  <2>2. FixedQuestions \subseteq FixedQuestions' BY <1>3, <1>6, <1>7 DEF FixedQuestions
  <2>3. FixedAssessments \subseteq FixedAssessments'
    BY <1>1, <1>3, <1>6, <1>7 DEF FixedAssessments, Updating
  <2> QED BY <2>1, <2>2, <2>3 DEF AuthorsKeepFixed
<1>14. StoredValid' /\ Unique(links)' BY <1>7 DEF StoredValid, Unique
<1> QED BY <1>6, <1>8, <1>9, <1>11, <1>12, <1>13, <1>14 DEF AuthoringKept

\* The links of two lists that do not conflict hold no question twice.
LEMMA StoredUnique ==
    ASSUME links \in QuestionList, Unique(links), NEW list \in QuestionList, Unique(list),
           NEW doomed \in SUBSET Position, NoConflict(list, doomed)
    PROVE  /\ Stored(list, doomed) \in QuestionList /\ Unique(Stored(list, doomed))
           /\ doomed = Occupied => Stored(list, doomed) = list
<1> DEFINE left == Remaining(doomed)
           stored == Stored(list, doomed)
<1>1. /\ left \in QuestionList
      /\ \A p \in Position : left[p] = IF p \in doomed THEN None ELSE links[p]
  BY DEF Remaining, QuestionList
<1>2. /\ stored \in QuestionList
      /\ \A p \in Position : stored[p] = IF list[p] # None THEN list[p] ELSE left[p]
  BY <1>1 DEF Stored, QuestionList
<1>3. \A p1, p2 \in Position : left[p1] # None /\ list[p2] # None => left[p1] # list[p2]
  BY DEF NoConflict, Listed
<1> HIDE DEF left, stored
<1>4. Unique(stored)
  <2> SUFFICES ASSUME NEW p1 \in Position, NEW p2 \in Position,
                      stored[p1] = stored[p2], stored[p1] # None
               PROVE  p1 = p2
    BY DEF Unique
  <2>1. CASE list[p1] # None /\ list[p2] # None BY <1>2, <2>1 DEF Unique
  <2>2. CASE list[p1] # None /\ list[p2] = None BY <1>2, <1>3, <2>2
  <2>3. CASE list[p1] = None /\ list[p2] # None BY <1>2, <1>3, <2>3
  <2>4. CASE list[p1] = None /\ list[p2] = None BY <1>1, <1>2, <2>4 DEF Unique
  <2> QED BY <2>1, <2>2, <2>3, <2>4
<1>5. ASSUME doomed = Occupied PROVE stored = list
  <2>1. \A p \in Position : left[p] = None BY <1>1, <1>5 DEF Occupied
  <2>2. \A p \in Position : stored[p] = list[p] BY <1>2, <2>1
  <2> QED BY <1>2, <2>2 DEF QuestionList
<1> QED BY <1>2, <1>4, <1>5 DEF stored

\* What committing does to the other requests: rows that are gone they no longer delete.
LEMMA CommitForgets ==
    ASSUME CourseworkInv, NEW w \in Worker, CommitUpdate(w)
    PROVE  /\ WorkersTyped' /\ QuietForStudents /\ worker'[w] = Resting
           /\ \A v \in Worker \ {w} :
                 \/ worker'[v] = worker[v]
                 \/ /\ worker[w].list # None /\ v \in Replacing
                    /\ worker'[v] \in UpdateWork /\ worker'[v].op = "update"
                    /\ worker'[v].row = worker[v].row /\ worker'[v].list = worker[v].list
           /\ worker[w].list = None => \A v \in Worker \ {w} : worker'[v] = worker[v]
<1> USE DEF CourseworkInv, AuthoringInv
<1> DEFINE doomed == worker[w].doomed
<1>1. worker \in [Worker -> Work] /\ worker[w].op = "update"
  BY DEF CommitUpdate, Updating, Work
<1>2. \A v \in Replacing : v \in Worker /\ worker[v] \in UpdateWork /\ worker[v].op = "update"
  BY <1>1, WorkFields DEF Replacing, Updating
<1>3. \A v \in Replacing :
          LET m == [worker[v] EXCEPT !.doomed = @ \ doomed]
          IN  m \in UpdateWork /\ m.op = "update" /\ m.row = worker[v].row /\ m.list = worker[v].list
  <2> SUFFICES ASSUME NEW v \in Replacing
               PROVE  LET m == [worker[v] EXCEPT !.doomed = @ \ doomed]
                      IN  /\ m \in UpdateWork /\ m.op = "update"
                          /\ m.row = worker[v].row /\ m.list = worker[v].list
    OBVIOUS
  <2>1. worker[v] \in UpdateWork /\ worker[v].doomed # None /\ worker[v].op = "update"
    BY <1>2 DEF Replacing
  <2>2. worker[v].doomed \in SUBSET Position BY <2>1 DEF UpdateWork
  <2> QED BY <2>1, <2>2 DEF UpdateWork
<1>4. CASE worker[w].list = None
  <2>1. worker' = [worker EXCEPT ![w] = Resting] BY <1>4 DEF CommitUpdate
  <2>2. Ends(w) BY <2>1 DEF Ends, Continues
  <2>3. worker[w].op \notin StudentOp BY <1>1 DEF StudentOp
  <2> QED BY <1>4, <2>2, <2>3, RequestEnds
<1>5. CASE worker[w].list # None
  <2>1. worker' = [Forget(doomed) EXCEPT ![w] = Resting] BY <1>5 DEF CommitUpdate
  <2>2. \A v \in Worker : Forget(doomed)[v] =
            IF v \in Replacing THEN [worker[v] EXCEPT !.doomed = @ \ doomed] ELSE worker[v]
    BY Zenon DEF Forget
  <2>3. \A v \in Worker \ {w} : worker'[v] = Forget(doomed)[v]
    BY <2>1 DEF Forget
  <2>4. worker'[w] = Resting BY <2>1 DEF Forget
  <2>5. \A v \in Worker \ {w} :
            \/ worker'[v] = worker[v]
            \/ /\ v \in Replacing /\ worker'[v] \in UpdateWork /\ worker'[v].op = "update"
               /\ worker'[v].row = worker[v].row /\ worker'[v].list = worker[v].list
    BY <1>3, <2>2, <2>3, Zenon
  <2>6. WorkersTyped'
    <3>1. DOMAIN worker' = Worker /\ worker' = [v \in Worker |-> worker'[v]]
      BY <2>1, Zenon DEF Forget
    <3>2. Resting \in Work BY WorkIntro
    <3>3. \A v \in Worker : worker'[v] \in Work BY <1>1, <2>4, <2>5, <3>2, WorkIntro
    <3> QED BY <3>1, <3>3 DEF WorkersTyped
  <2>7. QuietForStudents
    <3> SUFFICES ASSUME NEW v \in Worker, worker'[v] # worker[v]
                 PROVE  worker[v].op \notin StudentOp /\ worker'[v].op \notin StudentOp
      BY DEF QuietForStudents
    <3>1. CASE v = w BY <1>1, <2>4, <3>1 DEF Resting, StudentOp
    <3>2. CASE v # w BY <1>2, <2>5, <3>2 DEF StudentOp
    <3> QED BY <3>1, <3>2
  <2> QED BY <1>5, <2>4, <2>5, <2>6, <2>7
<1> QED BY <1>4, <1>5

LEMMA CommitUpdateStep ==
    ASSUME CourseworkInv, NEW w \in Worker, CommitUpdate(w)
    PROVE  WorkersTyped' /\ AuthoringKept /\ QuietForStudents
<1> USE DEF CourseworkInv, AuthoringInv
<1> DEFINE row == worker[w].row
           list == worker[w].list
           doomed == worker[w].doomed
<1>1. worker[w] \in UpdateWork /\ worker[w].op = "update"
  BY WorkFields DEF Work, CommitUpdate, Updating
<1>2. /\ row \in Assessment \cup {None} /\ list \in QuestionList \cup {None}
      /\ doomed \in (SUBSET Position) \cup {None} /\ worker[w].config \in Assignment \cup {None}
  BY <1>1 DEF UpdateWork
<1>3. /\ assessment \in Assessment
      /\ row # None => row.type = assessment.type /\ Ordered(row.from, row.until)
      /\ list # None => Unique(list) /\ assessment.type = "quiz"
      /\ doomed # None => list # None
  BY <1>1 DEF AuthorFits, AuthoringTypeOK
<1>4. /\ assessment' = IF row # None THEN row ELSE assessment
      /\ config' = IF worker[w].config # None THEN worker[w].config ELSE config
      /\ links' = IF list # None THEN Stored(list, doomed) ELSE links
      /\ asked' = IF list # None THEN list ELSE asked
      /\ emptied' = (emptied \/ Emptying)
      /\ UNCHANGED <<bank, question, crossed, now, started>>
  BY DEF CommitUpdate
<1>5. list # None => doomed \in SUBSET Position /\ NoConflict(list, doomed)
  BY <1>2 DEF CommitUpdate
<1>6. /\ WorkersTyped' /\ QuietForStudents /\ worker'[w] = Resting
      /\ \A v \in Worker \ {w} :
            \/ worker'[v] = worker[v]
            \/ /\ list # None /\ v \in Replacing
               /\ worker'[v] \in UpdateWork /\ worker'[v].op = "update"
               /\ worker'[v].row = worker[v].row /\ worker'[v].list = worker[v].list
      /\ list = None => \A v \in Worker \ {w} : worker'[v] = worker[v]
  BY CommitForgets
<1>7. Resting.op = "resting" BY DEF Resting
<1> HIDE DEF row, list, doomed
<1>8. assessment' \in Assessment /\ assessment' # None /\ assessment'.type = assessment.type
  BY <1>2, <1>3, <1>4, MarkerAssumption
<1>9. /\ links' \in QuestionList /\ asked' \in QuestionList /\ Unique(links)'
  <2>1. CASE list = None BY <1>4, <2>1 DEF AuthoringTypeOK, Unique
  <2>2. CASE list # None
    <3>1. Unique(links') BY <1>2, <1>3, <1>4, <1>5, <2>2, StoredUnique DEF AuthoringTypeOK
    <3> QED BY <1>2, <1>3, <1>4, <1>5, <2>2, <3>1, StoredUnique DEF AuthoringTypeOK, Unique
  <2> QED BY <2>1, <2>2
<1>10. AuthoringTypeOK'
  <2>1. config' \in Assignment BY <1>2, <1>4 DEF AuthoringTypeOK
  <2>2. assessment'.type = "assignment" => Listed(links') = {}
    BY <1>3, <1>4, <1>8, MarkerAssumption DEF AuthoringTypeOK
  <2> QED BY <1>4, <1>8, <1>9, <2>1, <2>2 DEF AuthoringTypeOK, Listed
<1>11. \A v \in Worker : AuthorFits(worker[v])'
  <2>1. AuthorFits(worker[w])' BY <1>6, <1>7 DEF AuthorFits
  <2>2. ASSUME NEW v \in Worker \ {w} PROVE AuthorFits(worker[v])'
    <3>1. CASE worker'[v] = worker[v] BY <1>8, <3>1 DEF AuthorFits
    <3>2. CASE worker'[v] # worker[v]
      <4>1. /\ v \in Replacing /\ worker'[v].op = "update"
            /\ worker'[v].row = worker[v].row /\ worker'[v].list = worker[v].list
        BY <1>6, <3>2
      <4>2. worker[v].op = "update" /\ worker[v].doomed # None BY <4>1 DEF Replacing, Updating
      <4> QED BY <1>8, <4>1, <4>2 DEF AuthorFits
    <3> QED BY <3>1, <3>2
  <2> QED BY <2>1, <2>2
<1>12. OneReplacement'
  <2>1. SUFFICES ASSUME ~crossed' PROVE OneReplacement' BY DEF OneReplacement
  <2>2. /\ ~crossed /\ links = asked /\ \A v \in Replacing : worker[v].doomed = Occupied
        /\ \A u, v \in Replacing : u = v
    BY <1>4, <2>1 DEF OneReplacement
  <2>3. w \notin Replacing' BY <1>6, <1>7 DEF Replacing, Updating
  <2>4. CASE list # None
    <3>1. w \in Replacing BY <1>1, <1>5, <2>4, MarkerAssumption DEF Replacing, Updating, doomed
    <3>2. doomed = Occupied BY <2>2, <3>1 DEF doomed
    <3>3. links' = asked' BY <1>2, <1>3, <1>4, <1>5, <2>4, <3>2, StoredUnique DEF AuthoringTypeOK
    <3>4. \A v \in Worker \ {w} : v \notin Replacing /\ worker'[v] = worker[v]
      BY <1>6, <2>2, <3>1
    <3>5. Replacing' = {} BY <2>3, <3>4 DEF Replacing, Updating
    <3> QED BY <3>3, <3>5 DEF OneReplacement
  <2>5. CASE list = None
    <3>1. links' = links /\ asked' = asked BY <1>4, <2>5
    <3>2. Occupied' = Occupied BY <3>1 DEF Occupied
    <3>3. \A v \in Replacing' : v \in Worker \ {w} BY <2>3 DEF Replacing
    <3>4. \A v \in Replacing' : v \in Replacing /\ worker'[v] = worker[v]
      BY <1>6, <2>5, <3>3 DEF Replacing, Updating
    <3> QED BY <2>2, <3>1, <3>2, <3>4 DEF OneReplacement
  <2> QED BY <2>4, <2>5
<1>13. \A v \in Worker : Publishing(worker[v])' => Publishing(worker[v])
  <2>1. ~Publishing(worker[w])' BY <1>6, <1>7 DEF Publishing
  <2>2. ASSUME NEW v \in Worker \ {w}, worker'[v] # worker[v], Publishing(worker[v])'
        PROVE  Publishing(worker[v])
    <3>1. v \in Replacing /\ worker'[v].op = "update" /\ worker'[v].row = worker[v].row
      BY <1>6, <2>2
    <3> QED BY <2>2, <3>1 DEF Publishing, Replacing, Updating
  <2>3. ASSUME NEW v \in Worker \ {w}, worker'[v] = worker[v], Publishing(worker[v])'
        PROVE  Publishing(worker[v])
    BY <2>3 DEF Publishing
  <2> QED BY <2>1, <2>2, <2>3
<1>14. QuestionsLeft'
  <2>1. \A v \in Worker : Publishing(worker[v])' =>
            worker[v].op = "publish" \/ (Updating(v) /\ worker[v].row # None)
    BY <1>13 DEF Publishing, Updating
  <2> QED BY <1>4, <2>1 DEF QuestionsLeft, Emptying, AuthoringTypeOK, Listed
<1>15. StoredValid' BY <1>2, <1>3, <1>4 DEF StoredValid
<1>16. AuthorsKeepFixed
  <2>1. \A v \in Worker : worker'[v].op \in {"bank", "question", "publish", "close"}
                              => worker'[v] = worker[v]
    BY <1>6, <1>7
  <2>2. FixedBanks \subseteq FixedBanks' BY <1>4, <2>1 DEF FixedBanks
  <2>3. FixedQuestions \subseteq FixedQuestions' BY <1>4, <2>1 DEF FixedQuestions
  <2>4. FixedAssessments \subseteq FixedAssessments'
    <3>1. CASE row # None BY <1>1, <3>1 DEF FixedAssessments, Updating, row
    <3>2. CASE row = None
      <4>1. assessment' = assessment BY <1>4, <3>2
      <4>2. \A v \in Worker : worker'[v].op = "update" =>
                worker[v].op = "update" /\ worker'[v].row = worker[v].row
        BY <1>6, <1>7 DEF Replacing, Updating
      <4> QED BY <2>1, <4>1, <4>2 DEF FixedAssessments, Updating
    <3> QED BY <3>1, <3>2
  <2> QED BY <2>2, <2>3, <2>4 DEF AuthorsKeepFixed
<1> QED BY <1>6, <1>9, <1>10, <1>11, <1>12, <1>14, <1>15, <1>16 DEF AuthoringKept
-----------------------------------------------------------------------------
(* Steps on submissions *)

RowOf(s, row) == [submission EXCEPT ![s] = row]

\* A step of one request, about one submission.
LEMMA SubmissionStep ==
    ASSUME CourseworkInv, NEW w \in Worker, NEW s \in Student, NEW m \in Work,
           m.op \notin AuthorOp, worker[w].op \notin AuthorOp, worker' = [worker EXCEPT ![w] = m],
           worker[w].op # "resting" => worker[w].student = s, m.op # "resting" => m.student = s,
           submission' \in [Student -> AssignmentSubmission \cup {None}],
           audit' \in [Student -> SubmissionAuditLog],
           \A t \in Student \ {s} : submission'[t] = submission[t] /\ audit'[t] = audit[t],
           submission[s] # None => submission'[s] # None,
           StudentFits(m)',
           submission'[s] # None /\ submission'[s].status \in {"submitted", "late"}
               => submission'[s].filled /\ submission'[s].stamped,
           disturbed' \in {disturbed, disturbed \cup {s}},
           s \notin disturbed' =>
               /\ worker[w].op = "resting" => About(s) = {}
               /\ m.op \in {"resting", "check", "save", "grade"} => Tells(s)'
               /\ m.op = "log" => m.entry = Entry(submission'[s]),
           s \in FixedSubmissions =>
               submission'[s].status = "graded" /\ ~Saving(m),
           Offering(m)
    PROVE  WorkersTyped' /\ QuietForAuthors /\ SubmissionsKept
<1> USE DEF CourseworkInv, SubmissionInv
<1>1. worker \in [Worker -> Work] BY DEF Work
<1>2. worker'[w] = m /\ \A v \in Worker \ {w} : worker'[v] = worker[v] BY <1>1
<1>3. WorkersTyped' BY <1>1 DEF WorkersTyped
<1>4. QuietForAuthors BY <1>2 DEF QuietForAuthors
<1>5. disturbed' \subseteq Student OBVIOUS
<1>6. \A v \in Worker : StudentFits(worker[v])'
  <2>1. \A v \in Worker \ {w} :
            Saving(worker[v]) \/ worker[v].op = "grade" => worker[v].student \in Student
    BY <1>1, WorkFields DEF Saving, CheckWork, DraftWork, SubmitState, GradeWork
  <2>2. \A v \in Worker \ {w} : StudentFits(worker[v])' BY <1>2, <2>1 DEF StudentFits, Saving
  <2>3. StudentFits(worker[w])' BY <1>2 DEF StudentFits
  <2> QED BY <2>2, <2>3
<1>7. SubmittedHasContent' BY DEF SubmittedHasContent
<1>8. \A v \in Worker : /\ v \in About(s) => v = w \/ worker'[v] = worker[v]
                        /\ "student" \in DOMAIN worker[v] <=> worker[v].op \in StudentOp
                        /\ "student" \in DOMAIN worker'[v] <=> worker'[v].op \in StudentOp
  BY <1>1, <1>2, WorkFields
<1>9. /\ w \in About(s) <=> worker[w].op # "resting"
      /\ w \in About(s)' <=> m.op # "resting"
  <2>1. worker[w].op # "resting" <=> worker[w].op \in StudentOp
    BY <1>1, WorkFields DEF StudentOp
  <2>2. m.op # "resting" <=> m.op \in StudentOp BY WorkFields DEF StudentOp
  <2>3. w \in About(s) <=> worker[w].op # "resting" BY <1>8, <2>1 DEF About
  <2>4. w \in About(s)' <=> m.op # "resting" BY <1>2, <1>8, <2>2 DEF About
  <2> QED BY <2>3, <2>4
<1>10. LogFollows'
  <2> SUFFICES ASSUME NEW t \in Student \ disturbed'
               PROVE  /\ \A u, v \in About(t)' : u = v
                      /\ About(t)' = {} => Tells(t)'
                      /\ \A v \in About(t)' :
                            /\ worker'[v].op \in {"check", "save", "grade"} => Tells(t)'
                            /\ worker'[v].op = "log" => worker'[v].entry = Entry(submission'[t])
    BY DEF LogFollows
  <2>1. t \in Student \ disturbed OBVIOUS
  <2>2. CASE t # s
    <3>1. w \notin About(t) /\ w \notin About(t)'
      <4>1. worker[w].op \in StudentOp => worker[w].student = s BY DEF StudentOp
      <4>2. worker'[w].op \in StudentOp => worker'[w].student = s BY <1>2 DEF StudentOp
      <4> QED BY <1>8, <2>2, <4>1, <4>2 DEF About
    <3>2. About(t)' = About(t) /\ \A v \in About(t) : worker'[v] = worker[v]
      BY <1>2, <3>1 DEF About
    <3>3. submission'[t] = submission[t] /\ audit'[t] = audit[t] BY <2>2
    <3>4. Tells(t)' <=> Tells(t) BY <3>3 DEF Tells, Entry
    <3> QED BY <2>1, <3>2, <3>3, <3>4 DEF LogFollows
  <2>3. CASE t = s
    <3>1. About(s) \subseteq {w}
      BY <1>9, <2>1, <2>3 DEF LogFollows
    <3>2. About(s)' \subseteq {w} BY <1>2, <3>1 DEF About
    <3>3. About(s)' = {} => m.op = "resting" BY <1>9
    <3> QED BY <1>2, <2>3, <3>2, <3>3
  <2> QED BY <2>2, <2>3
<1>11. FixedSubmissions \subseteq FixedSubmissions'
  <2> SUFFICES ASSUME NEW t \in FixedSubmissions PROVE t \in FixedSubmissions' OBVIOUS
  <2>1. /\ t \in Student /\ submission[t] # None /\ submission[t].status = "graded"
        /\ \A v \in Worker : Saving(worker[v]) => worker[v].student # t
    BY DEF FixedSubmissions
  <2>2. submission'[t] # None /\ submission'[t].status = "graded" BY <2>1
  <2>3. \A v \in Worker : Saving(worker'[v]) => worker'[v].student # t
    <3>1. Saving(m) => m.student = s BY DEF Saving
    <3> QED BY <1>2, <2>1, <3>1
  <2> QED BY <2>1, <2>2, <2>3 DEF FixedSubmissions, Saving
<1>12. OffersKept BY <1>2 DEF OffersKept, OffersKnown
<1> QED BY <1>3, <1>4, <1>5, <1>6, <1>7, <1>10, <1>11, <1>12 DEF SubmissionsKept

\* What is sent to begin with leaves the submission alone.
LEMMA Asking ==
    ASSUME CourseworkInv, NEW w \in Worker, NEW s \in Student, NEW permission, NEW m \in Work,
           m.op \in StudentOp, m.student = s, Asks(w, s, permission, m),
           StudentFits(m), s \in FixedSubmissions => ~Saving(m),
           m.op # "log", Offering(m)
    PROVE  WorkersTyped' /\ AuthoringKept /\ SubmissionsKept
<1> USE DEF CourseworkInv, SubmissionInv
<1>1. /\ worker[w] = Resting /\ worker' = [worker EXCEPT ![w] = m]
      /\ UNCHANGED <<bank, question, lists, exam, now, submission, audit>>
      /\ disturbed' = IF Busy(s) THEN disturbed \cup {s} ELSE disturbed
      /\ started < MaxStarted /\ started' = started + 1
  BY DEF Asks, Begins, MayBegin
<1>2. m.op \notin AuthorOp /\ worker[w].op = "resting" /\ worker[w].op \notin AuthorOp
  BY <1>1 DEF AuthorOp, StudentOp, Resting
<1>3. started' \in 0 .. MaxStarted
  BY <1>1, AuthoringAssumption DEF AuthoringInv, AuthoringTypeOK
<1>4. now' \in 0 .. MaxTime BY <1>1 DEF AuthoringInv, AuthoringTypeOK
<1>5. s \notin disturbed' => About(s) = {} /\ s \notin disturbed
  BY <1>1 DEF Busy, About
<1>6. s \notin disturbed' => Tells(s)'
  BY <1>1, <1>5 DEF LogFollows, Tells, Entry
<1>7. StudentFits(m)' BY <1>1 DEF StudentFits, Saving
<1>8. s \in FixedSubmissions => submission'[s].status = "graded"
  BY <1>1 DEF FixedSubmissions
<1>9. submission'[s] # None /\ submission'[s].status \in {"submitted", "late"}
               => submission'[s].filled /\ submission'[s].stamped
  BY <1>1 DEF SubmittedHasContent
<1>10. m.op # "resting" BY <1>2 DEF StudentOp
<1>11. \A t \in Student \ {s} : submission'[t] = submission[t] /\ audit'[t] = audit[t] BY <1>1
<1>12. disturbed' \in {disturbed, disturbed \cup {s}} BY <1>1
<1>13. /\ submission' \in [Student -> AssignmentSubmission \cup {None}]
       /\ audit' \in [Student -> SubmissionAuditLog] /\ submission' = submission
  BY <1>1
<1>14. WorkersTyped' /\ QuietForAuthors /\ SubmissionsKept
  BY <1>1, <1>2, <1>5, <1>6, <1>7, <1>8, <1>9, <1>10, <1>11, <1>12, <1>13, SubmissionStep
<1>15. AuthoringKept BY <1>1, <1>3, <1>4, <1>14, AuthorsQuiet
<1> QED BY <1>14, <1>15

\* A request that is to be checked holds to the assessment as it is.
LEMMA AskingCheck ==
    ASSUME CourseworkInv, NEW w \in Worker, NEW s \in Student, NEW permission,
           NEW next \in SaveState \cup SubmitState, next.student = s, assessment # None,
           next.op = "submit" => submission[s] # None /\ s \notin FixedSubmissions,
           Asks(w, s, permission, Checked(s, next))
    PROVE  WorkersTyped' /\ AuthoringKept /\ SubmissionsKept
<1> DEFINE m == Checked(s, next)
<1>1. assessment \in Assessment BY DEF CourseworkInv, AuthoringInv, AuthoringTypeOK
<1>2. m \in CheckWork BY <1>1 DEF CheckWork, Checked
<1>3. m \in Work BY <1>2, WorkIntro
<1>4. m.op = "check" /\ m.student = s /\ m.copy = assessment /\ m.next = next BY DEF Checked
<1>5. Offering(m) BY <1>4 DEF Offering, CourseworkInv, OffersKnown
<1> HIDE DEF m
<1>6. m.op \in StudentOp /\ m.op # "log" BY <1>4 DEF StudentOp
<1>7. StudentFits(m) BY <1>4 DEF StudentFits, Saving
<1>8. s \in FixedSubmissions => ~Saving(m) BY <1>4 DEF Saving
<1>9. Asks(w, s, permission, m) BY DEF m
<1> QED BY <1>3, <1>4, <1>5, <1>6, <1>7, <1>8, <1>9, Asking

LEMMA LoadAssignmentStep ==
    ASSUME CourseworkInv, NEW w \in Worker, NEW s \in Student, NEW submit \in BOOLEAN,
           LoadAssignment(w, s, submit)
    PROVE  WorkersTyped' /\ AuthoringKept /\ SubmissionsKept
<1> DEFINE next == [op |-> "save", step |-> "get", student |-> s, submit |-> submit, config |-> config]
           m == Checked(s, next)
<1>1. config \in Assignment BY DEF CourseworkInv, AuthoringInv, AuthoringTypeOK
<1>2. next \in SaveState BY <1>1 DEF SaveState
<1>3. next.op = "save" /\ next.student = s OBVIOUS
<1>4. Asks(w, s, "submission.manage", m) BY DEF LoadAssignment
<1> HIDE DEF next
<1>5. assessment # None BY DEF LoadAssignment
<1> QED BY <1>2, <1>3, <1>4, <1>5, AskingCheck

LEMMA RowFilled ==
    ASSUME NEW row \in AssignmentSubmission, NEW filled \in BOOLEAN
    PROVE  /\ [row EXCEPT !.filled = filled] \in AssignmentSubmission
           /\ [row EXCEPT !.filled = filled].status = row.status
BY DEF AssignmentSubmission

LEMMA LoadDraftStep ==
    ASSUME CourseworkInv, NEW w \in Worker, NEW s \in Student, NEW filled \in BOOLEAN,
           LoadDraft(w, s, filled)
    PROVE  WorkersTyped' /\ AuthoringKept /\ SubmissionsKept
<1> DEFINE row == [submission[s] EXCEPT !.filled = filled]
           m == Drafts(s, row)
<1>1. submission[s] \in AssignmentSubmission /\ submission[s] # None /\ submission[s].status = "draft"
  BY DEF CourseworkInv, SubmissionInv, LoadDraft
<1>2. row \in AssignmentSubmission /\ row.status = "draft" BY <1>1, RowFilled
<1>3. Asks(w, s, "submission.manage", m) BY DEF LoadDraft
<1> HIDE DEF row
<1>4. m \in Work /\ m.op = "draft" /\ m.student = s /\ m.row = row
  BY <1>2, WorkIntro DEF DraftWork, Drafts
<1> HIDE DEF m
<1>5. m.op \in StudentOp /\ StudentFits(m) /\ Offering(m)
  BY <1>1, <1>2, <1>4 DEF StudentFits, Offering, StudentOp
<1>6. s \notin FixedSubmissions BY <1>1 DEF FixedSubmissions
<1> QED BY <1>3, <1>4, <1>5, <1>6, Asking

LEMMA LoadToSubmitStep ==
    ASSUME CourseworkInv, NEW w \in Worker, NEW s \in Student, LoadToSubmit(w, s)
    PROVE  WorkersTyped' /\ AuthoringKept /\ SubmissionsKept
<1> DEFINE next == Submits(s, submission[s], config)
<1>1. submission[s] \in AssignmentSubmission /\ submission[s] # None /\ submission[s].status # "graded"
  BY DEF CourseworkInv, SubmissionInv, LoadToSubmit, Changeable
<1>2. config \in Assignment BY DEF CourseworkInv, AuthoringInv, AuthoringTypeOK
<1>3. next \in SubmitState /\ next.student = s BY <1>1, <1>2 DEF SubmitState, Submits
<1>4. Asks(w, s, "submission.manage", Checked(s, next)) BY DEF LoadToSubmit
<1>5. s \notin FixedSubmissions BY <1>1 DEF FixedSubmissions
<1>6. assessment # None BY DEF LoadToSubmit
<1> HIDE DEF next
<1> QED BY <1>1, <1>3, <1>4, <1>5, <1>6, AskingCheck

LEMMA LoadToGradeStep ==
    ASSUME CourseworkInv, NEW w \in Worker, NEW s \in Student, LoadToGrade(w, s)
    PROVE  WorkersTyped' /\ AuthoringKept /\ SubmissionsKept
<1> DEFINE m == [op |-> "grade", step |-> "write", student |-> s]
<1>1. m \in Work /\ m.op = "grade" /\ m.student = s BY WorkIntro DEF GradeWork
<1>2. m.op \in StudentOp /\ StudentFits(m) /\ Offering(m) /\ ~Saving(m)
  BY DEF StudentFits, Saving, Offering, StudentOp, LoadToGrade
<1>3. Asks(w, s, "grade.manage", m) BY DEF LoadToGrade
<1> HIDE DEF m
<1> QED BY <1>1, <1>2, <1>3, Asking
\* What is written afterwards leaves what authors write alone.
LEMMA Writing ==
    ASSUME CourseworkInv, WorkersTyped' /\ QuietForAuthors /\ SubmissionsKept,
           UNCHANGED <<bank, question, lists, exam, now, started>>
    PROVE  WorkersTyped' /\ AuthoringKept /\ SubmissionsKept
BY AuthorsQuiet DEF CourseworkInv, AuthoringInv, AuthoringTypeOK

LEMMA CheckAvailableStep ==
    ASSUME CourseworkInv, NEW w \in Worker, CheckAvailable(w)
    PROVE  WorkersTyped' /\ AuthoringKept /\ SubmissionsKept
<1> USE DEF CourseworkInv, SubmissionInv
<1>1. worker[w] \in CheckWork /\ worker[w].op = "check"
  BY WorkFields DEF Work, CheckAvailable
<1>2. PICK s \in Student : s = worker[w].student BY <1>1 DEF CheckWork
<1>3. PICK m \in SaveState \cup SubmitState : m = worker[w].next BY <1>1 DEF CheckWork
<1>4. m \in Work /\ m.op \in {"save", "submit"} /\ m.student = s
  <2>1. StudentFits(worker[w]) OBVIOUS
  <2> QED BY <1>1, <1>2, <1>3, <2>1, WorkIntro DEF SaveState, SubmitState, StudentFits
<1>5. /\ worker' = [worker EXCEPT ![w] = m]
      /\ UNCHANGED <<bank, question, lists, exam, now, started, submission, audit, disturbed>>
  BY <1>3 DEF CheckAvailable, Continues
<1>6. Offering(m)
  <2>1. worker[w].copy \in offers /\ InWindow(worker[w].copy, now)
    BY <1>1 DEF CheckAvailable, OffersKnown, Offering
  <2> QED BY <1>4, <2>1 DEF OffersKnown, Offering
<1>7. w \in About(s) BY <1>1, <1>2, WorkFields DEF About, Work, StudentOp
<1>8. s \notin disturbed => Tells(s)' BY <1>1, <1>5, <1>7 DEF LogFollows, Tells, Entry
<1>9. m.op = "submit" => Saving(worker[w]) BY <1>1, <1>3 DEF Saving
<1>10. Saving(m) => m.op = "submit" BY <1>4 DEF Saving
<1>11. StudentFits(m)'
  <2>1. Saving(worker[w]) => submission[s] # None BY <1>2 DEF StudentFits
  <2> QED BY <1>4, <1>5, <1>9, <1>10, <2>1 DEF StudentFits, Saving
<1>12. s \in FixedSubmissions => submission'[s].status = "graded" /\ ~Saving(m)
  BY <1>2, <1>5, <1>9, <1>10 DEF FixedSubmissions
<1>13. m.op \notin AuthorOp /\ worker[w].op \notin AuthorOp BY <1>1, <1>4 DEF AuthorOp
<1>14. submission'[s] # None /\ submission'[s].status \in {"submitted", "late"}
               => submission'[s].filled /\ submission'[s].stamped
  BY <1>5 DEF SubmittedHasContent
<1>15. WorkersTyped' /\ QuietForAuthors /\ SubmissionsKept
  BY <1>1, <1>2, <1>4, <1>5, <1>6, <1>8, <1>11, <1>12, <1>13, <1>14, SubmissionStep
<1> QED BY <1>5, <1>15, Writing

LEMMA GetSubmissionStep ==
    ASSUME CourseworkInv, NEW w \in Worker, GetSubmission(w)
    PROVE  WorkersTyped' /\ AuthoringKept /\ SubmissionsKept
<1> USE DEF CourseworkInv, SubmissionInv
<1>1. worker[w] \in SaveState /\ worker[w].op = "save"
  BY WorkFields DEF Work, GetSubmission
<1>2. PICK s \in Student : s = worker[w].student BY <1>1 DEF SaveState
<1> PICK row : row = IF submission[s] = None THEN NewSubmission ELSE submission[s] OBVIOUS
<1>3. /\ row \in AssignmentSubmission
      /\ submission[s] = None => Changeable(row) /\ row.status = "draft"
  BY DEF NewSubmission, AssignmentSubmission, AssignmentSubmissionStatus, Changeable
<1>4. PICK filled \in AssignmentSubmission : filled = [row EXCEPT !.filled = TRUE]
  BY <1>3, RowFilled
<1>5. submission[s] # None => row = submission[s] OBVIOUS
<1>6. w \in About(s) BY <1>1, <1>2, WorkFields DEF About, Work, StudentOp
<1>7. s \notin disturbed => Tells(s) BY <1>1, <1>6 DEF LogFollows
<1>8. offered BY <1>1 DEF OffersKnown, Offering
<1> PICK drafted : drafted = [filled EXCEPT !.status = "draft"] OBVIOUS
<1>9. drafted \in AssignmentSubmission /\ drafted.status = "draft"
  BY DEF AssignmentSubmission, AssignmentSubmissionStatus
<1> PICK c : c = IF submission[s] = None THEN worker[w].config ELSE config OBVIOUS
<1>10. PICK m : m = IF ~Changeable(row) THEN Resting
                    ELSE IF worker[w].submit THEN Submits(s, filled, c)
                    ELSE Drafts(s, drafted)
  OBVIOUS
<1>11. /\ m \in Work /\ m.op \in {"resting", "submit", "draft"}
       /\ m.op = "resting" => ~Changeable(row)
       /\ m.op # "resting" => m.student = s /\ Changeable(row)
       /\ m.op = "draft" => m.row.status = "draft"
  <2>1. c \in Assignment BY <1>1 DEF SaveState, AuthoringInv, AuthoringTypeOK
  <2> QED BY <1>9, <1>10, <2>1, WorkIntro DEF SubmitState, DraftWork, Submits, Drafts, Resting
<1>12. /\ submission' = [submission EXCEPT ![s] = row] /\ worker' = [worker EXCEPT ![w] = m]
       /\ UNCHANGED <<bank, question, lists, exam, now, started, audit, disturbed>>
  BY <1>2, <1>3, <1>4, <1>9, <1>10, Zenon DEF GetSubmission, Continues
<1>13. row # None BY <1>3, SubmissionAssumption
<1>14. submission'[s] = row /\ \A t \in Student \ {s} : submission'[t] = submission[t]
  BY <1>12
<1>15. submission' \in [Student -> AssignmentSubmission \cup {None}]
  <2> HIDE <1>4, <1>9, <1>10
  <2> QED BY <1>3, <1>12
<1>16. StudentFits(m)' BY <1>11, <1>13, <1>14 DEF StudentFits, Saving
<1>17. row.status \in {"submitted", "late"} => row.filled /\ row.stamped
  BY <1>3, <1>5 DEF SubmittedHasContent
<1>18. s \notin disturbed' /\ m.op = "resting" => Tells(s)'
  <2>1. ASSUME s \notin disturbed', m.op = "resting" PROVE Tells(s)'
    <3>1. Tells(s) /\ submission[s] # None BY <1>3, <1>7, <1>11, <1>12, <2>1
    <3>2. submission'[s] = submission[s] /\ audit' = audit BY <1>5, <1>12, <1>14, <3>1
    <3> QED BY <3>1, <3>2 DEF Tells, Entry
  <2> QED BY <2>1
<1>19. s \in FixedSubmissions => row.status = "graded" /\ ~Saving(m)
  BY <1>5, <1>11 DEF FixedSubmissions, Changeable, Saving
<1>22. Offering(m) BY <1>8, <1>11 DEF Offering
<1>20. m.op \notin AuthorOp /\ worker[w].op \notin AuthorOp BY <1>1, <1>11 DEF AuthorOp
<1>21. WorkersTyped' /\ QuietForAuthors /\ SubmissionsKept
  BY <1>1, <1>2, <1>8, <1>11, <1>12, <1>13, <1>14, <1>15, <1>16, <1>17, <1>18, <1>19, <1>20,
     <1>22, SubmissionStep
<1> QED BY <1>12, <1>21, Writing

\* What a request writes last, before its entry in the log.
LEMMA WritesStep ==
    ASSUME CourseworkInv, NEW w \in Worker, worker[w].op \in {"draft", "submit", "grade"},
           NEW row \in AssignmentSubmission, Writes(w, row, Entry(row)),
           Entry(row) \in SubmissionAuditLog,
           worker[w].op = "grade" => row.status = "graded",
           row.status \in {"submitted", "late"} => row.filled /\ row.stamped
    PROVE  WorkersTyped' /\ AuthoringKept /\ SubmissionsKept
<1> USE DEF CourseworkInv, SubmissionInv
<1>1. worker[w] \in DraftWork \cup SubmitState \cup GradeWork BY WorkFields DEF Work
<1>2. PICK s \in Student : s = worker[w].student BY <1>1 DEF DraftWork, SubmitState, GradeWork
<1> PICK m : m = [op |-> "log", student |-> s, entry |-> Entry(row)] OBVIOUS
<1>3. m \in Work /\ m.op = "log" /\ m.student = s /\ m.entry = Entry(row)
  BY WorkIntro DEF LogWork
<1>4. /\ submission' = [submission EXCEPT ![s] = row] /\ worker' = [worker EXCEPT ![w] = m]
      /\ UNCHANGED <<bank, question, lists, exam, now, started, audit, disturbed>>
  BY <1>2, <1>3 DEF Writes, Continues
<1>5. submission'[s] = row /\ \A t \in Student \ {s} : submission'[t] = submission[t]
  BY <1>2, <1>4
<1>6. submission' \in [Student -> AssignmentSubmission \cup {None}] BY <1>2, <1>4
<1>7. row # None BY SubmissionAssumption
<1>8. m.op \notin AuthorOp /\ worker[w].op \notin AuthorOp /\ worker[w].op # "resting"
  BY <1>3 DEF AuthorOp
<1>9. s \in FixedSubmissions => row.status = "graded" /\ ~Saving(m)
  BY <1>2, <1>3 DEF FixedSubmissions, Saving
<1>10. StudentFits(m)' /\ Offering(m) BY <1>3 DEF StudentFits, Saving, Offering
<1>11. m.entry = Entry(submission'[s]) BY <1>3, <1>5
<1>12. WorkersTyped' /\ QuietForAuthors /\ SubmissionsKept
  BY <1>2, <1>3, <1>4, <1>5, <1>6, <1>7, <1>8, <1>9, <1>10, <1>11, SubmissionStep
<1> QED BY <1>4, <1>12, Writing

LEMMA SaveDraftStep ==
    ASSUME CourseworkInv, NEW w \in Worker, SaveDraft(w)
    PROVE  WorkersTyped' /\ AuthoringKept /\ SubmissionsKept
<1>1. worker[w] \in DraftWork /\ worker[w].op = "draft"
  BY WorkFields DEF CourseworkInv, Work, SaveDraft
<1>2. worker[w].row \in AssignmentSubmission BY <1>1 DEF DraftWork
<1>3. worker[w].row.status = "draft" BY <1>1 DEF CourseworkInv, SubmissionInv, StudentFits
<1>4. Entry(worker[w].row) = "saved" BY <1>2, <1>3, SubmissionAssumption DEF Entry
<1>5. "saved" \in SubmissionAuditLog BY DEF SubmissionAuditLog
<1> QED BY <1>1, <1>2, <1>3, <1>4, <1>5, WritesStep DEF SaveDraft

LEMMA FinalizedTyped ==
    ASSUME NEW s, NEW row \in AssignmentSubmission, NEW status \in {"submitted", "late"}
    PROVE  /\ Finalized(s, row, status) \in AssignmentSubmission
           /\ Finalized(s, row, status).status = status
           /\ Finalized(s, row, status).filled = row.filled
           /\ Finalized(s, row, status).stamped
<1> DEFINE one == [row EXCEPT !.status = status]
<1>1. one \in AssignmentSubmission /\ one.status = status /\ one.filled = row.filled
  BY DEF AssignmentSubmission, AssignmentSubmissionStatus
<1>2. Finalized(s, row, status) = [one EXCEPT !.stamped = TRUE] BY Zenon DEF Finalized
<1> HIDE DEF one
<1> QED BY <1>1, <1>2 DEF AssignmentSubmission

LEMMA FinalizeStep ==
    ASSUME CourseworkInv, NEW w \in Worker, Finalize(w)
    PROVE  WorkersTyped' /\ AuthoringKept /\ SubmissionsKept
<1>1. worker[w] \in SubmitState /\ worker[w].op = "submit" /\ worker[w].row.filled
  BY WorkFields DEF CourseworkInv, Work, Finalize
<1>2. worker[w].row \in AssignmentSubmission BY <1>1 DEF SubmitState
<1>3. PICK status \in {"submitted", "late"} :
          Writes(w, Finalized(worker[w].student, worker[w].row, status), status)
  BY Zenon DEF Finalize
<1> DEFINE row == Finalized(worker[w].student, worker[w].row, status)
<1>4. row \in AssignmentSubmission /\ row.status = status /\ row.filled /\ row.stamped
  BY <1>1, <1>2, FinalizedTyped
<1> HIDE DEF row
<1>5. Entry(row) = status /\ Entry(row) \in SubmissionAuditLog
  BY <1>4, SubmissionAssumption DEF Entry, SubmissionAuditLog
<1> QED BY <1>1, <1>3, <1>4, <1>5, WritesStep DEF row

LEMMA MarkGradedStep ==
    ASSUME CourseworkInv, NEW w \in Worker, MarkGraded(w)
    PROVE  WorkersTyped' /\ AuthoringKept /\ SubmissionsKept
<1> DEFINE s == worker[w].student
           row == [submission[s] EXCEPT !.status = "graded"]
<1>1. worker[w] \in GradeWork /\ worker[w].op = "grade"
  BY WorkFields DEF CourseworkInv, Work, MarkGraded
<1>2. s \in Student BY <1>1 DEF GradeWork
<1>3. submission[s] \in AssignmentSubmission
  BY <1>1, <1>2 DEF CourseworkInv, SubmissionInv, StudentFits
<1>4. row \in AssignmentSubmission /\ row.status = "graded"
  BY <1>3 DEF AssignmentSubmission, AssignmentSubmissionStatus
<1>5. Writes(w, row, "graded") BY DEF MarkGraded
<1> HIDE DEF row
<1>6. Entry(row) = "graded" /\ "graded" \in SubmissionAuditLog
  BY <1>4, SubmissionAssumption DEF Entry, SubmissionAuditLog
<1> QED BY <1>1, <1>4, <1>5, <1>6, WritesStep

LEMMA LogStep ==
    ASSUME CourseworkInv, NEW w \in Worker, Log(w)
    PROVE  WorkersTyped' /\ AuthoringKept /\ SubmissionsKept
<1> USE DEF CourseworkInv, SubmissionInv
<1>1. worker[w] \in LogWork /\ worker[w].op = "log" BY WorkFields DEF Work, Log
<1>2. PICK s \in Student, entry \in SubmissionAuditLog :
          s = worker[w].student /\ entry = worker[w].entry
  BY <1>1 DEF LogWork
<1>3. /\ audit' = [audit EXCEPT ![s] = entry] /\ worker' = [worker EXCEPT ![w] = Resting]
      /\ UNCHANGED <<bank, question, lists, exam, now, started, submission, disturbed>>
  BY <1>2 DEF Log, Ends, Continues
<1>4. w \in About(s) BY <1>1, <1>2, WorkFields DEF About, Work, StudentOp
<1>5. s \notin disturbed => entry = Entry(submission[s]) BY <1>1, <1>2, <1>4 DEF LogFollows
<1>6. s \notin disturbed' => Tells(s)' BY <1>2, <1>3, <1>5 DEF Tells, Entry
<1>7. /\ audit' \in [Student -> SubmissionAuditLog]
      /\ \A t \in Student \ {s} : submission'[t] = submission[t] /\ audit'[t] = audit[t]
  BY <1>2, <1>3
<1>8. /\ Resting \in Work /\ Resting.op = "resting" /\ Resting.op \notin AuthorOp
      /\ worker[w].op \notin AuthorOp
  BY <1>1, WorkIntro DEF AuthorOp, Resting
<1>9. StudentFits(Resting)' /\ Offering(Resting) /\ ~Saving(Resting)
  BY <1>8 DEF StudentFits, Saving, Offering
<1>10. s \in FixedSubmissions => submission[s].status = "graded" BY DEF FixedSubmissions
<1>11. submission[s] # None /\ submission[s].status \in {"submitted", "late"}
               => submission[s].filled /\ submission[s].stamped
  BY <1>2 DEF SubmittedHasContent
<1>12. WorkersTyped' /\ QuietForAuthors /\ SubmissionsKept
  BY <1>1, <1>2, <1>3, <1>6, <1>7, <1>8, <1>9, <1>10, <1>11, SubmissionStep
<1> QED BY <1>3, <1>12, Writing

LEMMA StopStep ==
    ASSUME CourseworkInv, NEW w \in Worker, Stop(w)
    PROVE  WorkersTyped' /\ AuthoringKept /\ SubmissionsKept
<1> USE DEF CourseworkInv, SubmissionInv
<1>1. /\ worker' = [worker EXCEPT ![w] = Resting] /\ worker[w] # Resting /\ Ends(w)
      /\ UNCHANGED <<bank, question, lists, exam, now, started, submission, audit>>
      /\ disturbed' = IF "student" \in DOMAIN worker[w] THEN disturbed \cup {worker[w].student}
                      ELSE disturbed
  BY DEF Stop, Ends, Continues
<1>2. worker[w] \in Work /\ worker[w].op # "resting" BY <1>1, WorkFields DEF Work
<1>3. /\ Resting \in Work /\ Resting.op = "resting" /\ Resting.op \notin AuthorOp
  BY WorkIntro DEF AuthorOp, Resting
<1>4. CASE worker[w].op \notin StudentOp
  <2>1. WorkersTyped' /\ QuietForStudents /\ Fewer BY <1>1, <1>4, RequestEnds
  <2>2. UNCHANGED submissionVars BY <1>1, <1>2, <1>4, WorkFields DEF submissionVars
  <2>3. AuthoringTypeOK' BY <1>1 DEF AuthoringInv, AuthoringTypeOK, lists, exam, Listed
  <2>4. StoredValid' BY <1>1 DEF AuthoringInv, StoredValid, exam
  <2>5. FixedBanks \subseteq FixedBanks' BY <1>1, <2>1, FewerReplace DEF FixedBanks
  <2>6. FixedQuestions \subseteq FixedQuestions' BY <1>1, <2>1, FewerReplace DEF FixedQuestions
  <2>7. AuthoringKept BY <1>1, <2>1, <2>3, <2>4, <2>5, <2>6, BankWritten
  <2> QED BY <2>1, <2>2, <2>7, StudentsQuiet
<1>5. CASE worker[w].op \in StudentOp
  <2>1. PICK s \in Student : s = worker[w].student
    BY <1>2, <1>5, WorkFields DEF StudentOp, CheckWork, SaveState, DraftWork, SubmitState, GradeWork, LogWork
  <2>2. disturbed' = disturbed \cup {s} BY <1>1, <1>2, <1>5, <2>1, WorkFields
  <2>3. worker[w].op \notin AuthorOp BY <1>5 DEF StudentOp, AuthorOp
  <2>4. StudentFits(Resting)' /\ Offering(Resting) /\ ~Saving(Resting)
    BY <1>3 DEF StudentFits, Saving, Offering
  <2>5. s \in FixedSubmissions => submission[s].status = "graded" BY DEF FixedSubmissions
  <2>6. submission[s] # None /\ submission[s].status \in {"submitted", "late"}
               => submission[s].filled /\ submission[s].stamped
    BY <2>1 DEF SubmittedHasContent
  <2>7. WorkersTyped' /\ QuietForAuthors /\ SubmissionsKept
    BY <1>1, <1>3, <2>1, <2>2, <2>3, <2>4, <2>5, <2>6, SubmissionStep
  <2> QED BY <1>1, <2>7, Writing
<1> QED BY <1>4, <1>5
-----------------------------------------------------------------------------
(* Every step *)

LEMMA AuthorStep ==
    ASSUME CourseworkInv, Author
    PROVE  WorkersTyped' /\ AuthoringKept /\ QuietForStudents
<1>1. CASE RequestInOneStep
  BY <1>1, CreateBankStep, ArchiveQuestionStep, CreateAssessmentStep, ArchiveAssessmentStep
     DEF RequestInOneStep
<1>2. ASSUME NEW w \in Worker, QuestionRequest(w)
      PROVE  WorkersTyped' /\ AuthoringKept /\ QuietForStudents
  BY <1>2, LoadBankStep, LoadBankForQuestionStep, LoadQuestionStep DEF QuestionRequest
<1>3. ASSUME NEW w \in Worker, AssessmentRequest(w)
      PROVE  WorkersTyped' /\ AuthoringKept /\ QuietForStudents
  BY <1>3, LoadUpdateStep, LoadReplaceStep, LoadStatusStep DEF AssessmentRequest
<1>4. ASSUME NEW w \in Worker,
             \/ SaveBank(w) \/ ArchiveBank(w) \/ ArchiveQuestions(w) \/ SaveQuestion(w)
             \/ DeleteLinks(w) \/ CommitUpdate(w) \/ SavePublished(w) \/ SaveClosed(w)
      PROVE  WorkersTyped' /\ AuthoringKept /\ QuietForStudents
  BY <1>4, SaveBankStep, ArchiveBankStep, ArchiveQuestionsStep, SaveQuestionStep, DeleteLinksStep,
     CommitUpdateStep, SaveStatusStep
<1> QED BY <1>1, <1>2, <1>3, <1>4 DEF Author

LEMMA SubmitStep ==
    ASSUME CourseworkInv, NEW w \in Worker, Submit(w)
    PROVE  WorkersTyped' /\ AuthoringKept /\ SubmissionsKept
BY LoadAssignmentStep, LoadDraftStep, LoadToSubmitStep, LoadToGradeStep, GetSubmissionStep,
   SaveDraftStep, FinalizeStep, MarkGradedStep, LogStep, CheckAvailableStep DEF Submit

LEMMA TickStep ==
    ASSUME CourseworkInv, Tick
    PROVE  WorkersTyped' /\ AuthoringKept /\ SubmissionsKept
<1>1. /\ UNCHANGED <<bank, question, lists, exam>> /\ UNCHANGED submissionVars
      /\ worker' = worker /\ started' = started
  BY DEF Tick
<1>2. now' \in 0 .. MaxTime
  BY AuthoringAssumption DEF Tick, CourseworkInv, AuthoringInv, AuthoringTypeOK
<1>3. started' \in 0 .. MaxStarted BY <1>1 DEF CourseworkInv, AuthoringInv, AuthoringTypeOK
<1>4. WorkersTyped' BY <1>1 DEF WorkersTyped, Work, CourseworkInv
<1>5. QuietForAuthors /\ QuietForStudents BY <1>1 DEF QuietForAuthors, QuietForStudents
<1> QED BY <1>1, <1>2, <1>3, <1>4, <1>5, AuthorsQuiet, StudentsQuiet

LEMMA EveryStep ==
    ASSUME CourseworkInv, Step
    PROVE  WorkersTyped' /\ AuthoringKept /\ SubmissionsKept
<1>1. CASE Author /\ UNCHANGED submissionVars BY <1>1, AuthorStep, StudentsQuiet
<1>2. CASE \E w \in Worker : Submit(w) \/ Stop(w) BY <1>2, SubmitStep, StopStep
<1>3. CASE Tick BY <1>3, TickStep
<1> QED BY <1>1, <1>2, <1>3 DEF Step

\* When no request is in progress, what has its last status keeps it.
LEMMA RestFixes ==
    ASSUME AtRest
    PROVE  Final \subseteq Fixed
<1>1. \A w \in Worker : worker[w].op = "resting" BY DEF AtRest, Resting
<1> QED BY <1>1 DEF Final, Fixed, FixedBanks, FixedQuestions, FixedAssessments, FixedSubmissions,
                      Updating, Saving

LEMMA CourseworkKept ==
    ASSUME CourseworkInv, CourseworkNext
    PROVE  CourseworkInv'
<1>1. WorkersTyped' /\ AuthoringKept /\ SubmissionsKept BY EveryStep DEF CourseworkNext
<1>2. Fixed \subseteq Fixed'
  BY <1>1 DEF Fixed, AuthoringKept, AuthorsKeepFixed, SubmissionsKept
<1>3. AtRest' => Final' \subseteq Fixed'
  <2>1. ASSUME AtRest' PROVE \A w \in Worker : worker'[w].op = "resting"
    BY <2>1 DEF AtRest, Resting
  <2> QED BY <2>1 DEF Final, Fixed, FixedBanks, FixedQuestions, FixedAssessments, FixedSubmissions,
                      Updating, Saving
<1>4. SettledFixed' BY <1>2, <1>3 DEF SettledFixed, CourseworkInv, CourseworkNext
<1>5. OffersKnown'
  <2>1. /\ offers' = {row \in {assessment'} \cup (IF AtRest' THEN {} ELSE offers) : Published(row)}
        /\ offered' = ((offered /\ ~AtRest') \/ \E row \in offers' : InWindow(row, now'))
    BY DEF CourseworkNext
  <2>2. assessment' \in Assessment \cup {None} /\ offers \subseteq Assessment
    BY <1>1 DEF AuthoringKept, AuthoringInv, AuthoringTypeOK, CourseworkInv, OffersKnown
  <2>3. offers' \subseteq Assessment /\ \A row \in offers' : Published(row)
    BY <2>1, <2>2 DEF Published
  <2>4. offered' \in BOOLEAN /\ ((\E row \in offers' : InWindow(row, now')) => offered')
    BY <2>1 DEF CourseworkInv, OffersKnown
  <2>5. Published(assessment') => assessment' \in offers' BY <2>1
  <2>6. ASSUME NEW w \in Worker PROVE Offering(worker[w])'
    <3>1. CASE AtRest' BY <3>1 DEF AtRest, Resting, Offering
    <3>2. CASE ~AtRest'
      <4>1. offers \subseteq offers' /\ (offered => offered')
        BY <2>1, <3>2 DEF CourseworkInv, OffersKnown
      <4>2. Offering(worker'[w]) BY <1>1 DEF SubmissionsKept, OffersKept
      <4> QED BY <4>1, <4>2 DEF Offering
    <3> QED BY <3>1, <3>2
  <2>7. Published(assessment)' <=> Published(assessment') BY DEF Published
  <2>8. \A row \in offers' : /\ Published(row)' <=> Published(row)
                             /\ InWindow(row, now)' <=> InWindow(row, now')
    BY DEF Published, InWindow
  <2> QED BY <2>3, <2>4, <2>5, <2>6, <2>7, <2>8 DEF OffersKnown
<1>8. (worker \in [Worker -> AuthorState \cup StudentState])' BY <1>1 DEF WorkersTyped, Work
<1> QED BY <1>1, <1>4, <1>5, <1>8 DEF CourseworkInv, AuthoringKept, SubmissionsKept

LEMMA CourseworkStutters ==
    ASSUME CourseworkInv, UNCHANGED courseworkVars
    PROVE  CourseworkInv'
<1> USE DEF courseworkVars, authoringVars, lists, exam, submissionVars
<1>1. /\ UNCHANGED <<bank, question, lists, exam>> /\ UNCHANGED submissionVars
      /\ worker' = worker /\ started' = started /\ now' = now /\ settled' = settled
      /\ offers' = offers /\ offered' = offered /\ assessment' = assessment
  OBVIOUS
<1>2. WorkersTyped' BY <1>1 DEF WorkersTyped, Work, CourseworkInv
<1>3. QuietForAuthors /\ QuietForStudents BY <1>1 DEF QuietForAuthors, QuietForStudents
<1>4. now' \in 0 .. MaxTime /\ started' \in 0 .. MaxStarted
  BY <1>1 DEF CourseworkInv, AuthoringInv, AuthoringTypeOK
<1>5. AuthoringKept /\ SubmissionsKept BY <1>1, <1>2, <1>3, <1>4, AuthorsQuiet, StudentsQuiet
<1>6. SettledFixed'
  BY <1>1, <1>5 DEF SettledFixed, CourseworkInv, Fixed, AuthoringKept, AuthorsKeepFixed, SubmissionsKept
<1>7. OffersKnown' BY <1>1 DEF OffersKnown, Offering, Published, InWindow, CourseworkInv
<1>8. (worker \in [Worker -> AuthorState \cup StudentState])' BY <1>2 DEF WorkersTyped, Work
<1> QED BY <1>1, <1>5, <1>6, <1>7, <1>8 DEF CourseworkInv, AuthoringKept, SubmissionsKept

LEMMA CourseworkStarts ==
    ASSUME CourseworkInit
    PROVE  CourseworkInv
<1> USE DEF CourseworkInit
<1>1. \A w \in Worker : worker[w] = Resting /\ worker[w].op = "resting" BY DEF Resting
<1>2. worker \in [Worker -> AuthorState \cup StudentState] BY DEF AuthorState
<1>3. Replacing = {} BY <1>1 DEF Replacing, Updating
<1>4. /\ links \in QuestionList /\ asked = links /\ Unique(links)
      /\ crossed = FALSE /\ emptied = FALSE
  <2>1. NoQuestions \in QuestionList /\ Unique(NoQuestions)
    BY DEF NoQuestions, QuestionList, Unique
  <2> QED BY <2>1 DEF AuthoringInit
<1>5. assessment \in Assessment \cup {None}
  <2>1. \A type \in AssessmentType : SeedAssessment(type) \in Assessment
    BY DEF SeedAssessment, Assessment, AssessmentStatus, When
  <2>2. assessment = None \/ \E type \in AssessmentType : assessment = SeedAssessment(type)
    BY DEF AuthoringInit
  <2> QED BY <2>1, <2>2
<1>6. assessment # None => assessment.from = None /\ assessment.until = None
  BY DEF AuthoringInit, SeedAssessment
<1>7. /\ assessment # None /\ assessment.type = "assignment" => Listed(links) = {}
      /\ assessment # None /\ assessment.type = "quiz" => Listed(links) # {}
  <2>1. Listed(NoQuestions) = {} BY DEF Listed, NoQuestions
  <2>2. assessment # None /\ assessment.type = "quiz" => Listed(links) = Question
    BY DEF AuthoringInit
  <2> QED BY <2>1, <2>2, AuthoringAssumption DEF AuthoringInit
<1>8. question \in [Question -> QuestionRow \cup {None}]
      /\ \A q \in Question : question[q] # None => question[q].content = Seed[q]
  <2>1. CASE question = [q \in Question |-> None] BY <2>1
  <2>2. CASE question = [q \in Question |-> [content |-> Seed[q], deleted |-> FALSE]]
    <3>1. \A q \in Question : [content |-> Seed[q], deleted |-> FALSE] \in QuestionRow
      BY AuthoringAssumption DEF QuestionRow
    <3> QED BY <2>2, <3>1
  <2> QED BY <2>1, <2>2 DEF AuthoringInit
<1>9. AuthoringTypeOK
  <2>1. bank \in [Bank -> QuestionBank] BY DEF AuthoringInit, QuestionBank
  <2>2. config \in Assignment BY DEF AuthoringInit, Assignment, When
  <2>3. now \in 0 .. MaxTime /\ started \in 0 .. MaxStarted
    BY AuthoringAssumption DEF AuthoringInit
  <2> QED BY <1>4, <1>5, <1>7, <1>8, <2>1, <2>2, <2>3 DEF AuthoringTypeOK
<1>10. AuthoringInv
  <2>1. StoredValid BY <1>6, <1>8 DEF StoredValid, Ordered
  <2>2. OneReplacement BY <1>3, <1>4 DEF OneReplacement
  <2>3. QuestionsLeft BY <1>7 DEF QuestionsLeft
  <2> QED BY <1>1, <1>4, <1>9, <2>1, <2>2, <2>3 DEF AuthoringInv, AuthorFits
<1>11. SubmissionInv
  <2>1. PICK seeded \in SUBSET Student :
            /\ submission = [s \in Student |-> IF s \in seeded THEN Seeded ELSE None]
            /\ audit = [s \in Student |-> IF s \in seeded THEN "seeded" ELSE None]
    OBVIOUS
  <2>2. Seeded \in AssignmentSubmission /\ Seeded.status = "graded"
    BY DEF Seeded, AssignmentSubmission, AssignmentSubmissionStatus
  <2>3. \A s \in Student : Tells(s) BY <2>1 DEF Tells, Entry
  <2>4. \A s \in Student : About(s) = {} BY <1>1 DEF About, Resting
  <2>5. LogFollows BY <2>3, <2>4 DEF LogFollows
  <2>6. SubmittedHasContent BY <2>1, <2>2 DEF SubmittedHasContent
  <2>7. audit \in [Student -> SubmissionAuditLog] BY <2>1 DEF SubmissionAuditLog
  <2> QED BY <1>1, <2>1, <2>2, <2>5, <2>6, <2>7 DEF SubmissionInv, StudentFits, Saving
<1>12. OffersKnown
  <2>1. offers = {row \in {assessment} : Published(row)} /\ offers \subseteq Assessment
    BY <1>5 DEF Published
  <2> QED BY <1>1, <2>1 DEF OffersKnown, Offering
<1> QED BY <1>2, <1>10, <1>11, <1>12 DEF CourseworkInv, SettledFixed

LEMMA CourseworkInvariant == CourseworkSpec => []CourseworkInv
<1>1. CourseworkInv /\ [CourseworkNext]_courseworkVars => CourseworkInv'
  BY CourseworkKept, CourseworkStutters
<1> QED BY CourseworkStarts, <1>1, PTL DEF CourseworkSpec

-----------------------------------------------------------------------------
(* What follows for banks, questions, assessments and submissions *)

\* What authors store stays usable in every state, however their requests overlap, crash or
\* save copies of rows that others have written since.
THEOREM AuthoringSound == CourseworkSpec => []AuthoringAgrees
<1>1. CourseworkInv => AuthoringAgrees
  <2> SUFFICES ASSUME CourseworkInv PROVE AuthoringAgrees OBVIOUS
  <2>1. AuthoringTypeOK /\ StoredValid /\ Unique(links) /\ OneReplacement /\ QuestionsLeft
    BY DEF CourseworkInv, AuthoringInv
  <2>2. QuizHoldsOneList BY <2>1 DEF QuizHoldsOneList, OneReplacement
  <2>3. PublishedHasQuestions BY <2>1 DEF PublishedHasQuestions, QuestionsLeft, AuthoringTypeOK
  <2>4. FinalStays
    BY DEF CourseworkInv, SettledFixed, FinalStays, Final, Fixed, FixedBanks, FixedQuestions,
           FixedAssessments, FixedSubmissions
  <2> QED BY <2>1, <2>2, <2>3, <2>4 DEF AuthoringAgrees
<1> QED BY CourseworkInvariant, <1>1, PTL

\* A submission that counts as turned in has its content and its time, and the audit log tells
\* its status unless requests on it overlapped or one was cut short.
THEOREM SubmissionsSound == CourseworkSpec => []SubmissionsAgree
<1>1. CourseworkInv => SubmissionsAgree
  <2> SUFFICES ASSUME CourseworkInv PROVE SubmissionsAgree OBVIOUS
  <2>1. CourseworkTypeOK
    BY DEF CourseworkInv, AuthoringInv, SubmissionInv, OffersKnown, CourseworkTypeOK
  <2>2. LogTellsStatus
    <3> SUFFICES ASSUME NEW s \in Student, ~Busy(s), s \notin disturbed PROVE Tells(s)
      BY DEF LogTellsStatus, Tells
    <3>1. About(s) = {} BY DEF Busy, About
    <3> QED BY <3>1 DEF CourseworkInv, SubmissionInv, LogFollows
  <2> QED BY <2>1, <2>2 DEF SubmissionsAgree, CourseworkInv, SubmissionInv
<1> QED BY CourseworkInvariant, <1>1, PTL

\* While no row by which the assignment has been published is in its window, since no request
\* was in progress, nothing is turned in: no request is left that was checked, and the ones
\* that save a draft or grade do not turn in.
THEOREM ShutIsFinal == CourseworkSpec => ShutTakesNothing
<1>1. ASSUME CourseworkInv, CourseworkNext, ~offered, NEW s \in Student, TurnedIn(s)'
      PROVE  TurnedIn(s)
  <2>1. \A w \in Worker : worker[w].op \notin {"save", "submit"}
    BY <1>1 DEF CourseworkInv, OffersKnown, Offering
  <2>2. Step BY <1>1 DEF CourseworkNext
  <2>3. CASE submission' = submission BY <1>1, <2>3 DEF TurnedIn
  <2>4. ASSUME NEW w \in Worker, SaveDraft(w) PROVE TurnedIn(s)
    <3>1. worker[w].row.status = "draft" /\ submission \in [Student -> AssignmentSubmission \cup {None}]
      BY <1>1, <2>4 DEF CourseworkInv, SubmissionInv, StudentFits, SaveDraft
    <3>2. submission' = [submission EXCEPT ![worker[w].student] = worker[w].row]
      BY <2>4 DEF SaveDraft, Writes
    <3>3. s # worker[w].student BY <1>1, <3>1, <3>2 DEF TurnedIn
    <3> QED BY <1>1, <3>1, <3>2, <3>3 DEF TurnedIn
  <2>5. ASSUME NEW w \in Worker, MarkGraded(w) PROVE TurnedIn(s)
    <3> DEFINE row == [submission[worker[w].student] EXCEPT !.status = "graded"]
    <3>1. worker[w] \in GradeWork /\ worker[w].op = "grade"
      BY <1>1, <2>5, WorkFields DEF CourseworkInv, Work, MarkGraded
    <3>2. worker[w].student \in Student BY <3>1 DEF GradeWork
    <3>3. submission[worker[w].student] \in AssignmentSubmission
      BY <1>1, <3>1, <3>2 DEF CourseworkInv, SubmissionInv, StudentFits
    <3>4. row.status = "graded" BY <3>3 DEF AssignmentSubmission
    <3>5. submission' = [submission EXCEPT ![worker[w].student] = row]
      BY <2>5 DEF MarkGraded, Writes
    <3>6. submission \in [Student -> AssignmentSubmission \cup {None}]
      BY <1>1 DEF CourseworkInv, SubmissionInv
    <3> HIDE DEF row
    <3>7. s # worker[w].student BY <1>1, <3>4, <3>5, <3>6 DEF TurnedIn
    <3> QED BY <1>1, <3>5, <3>6, <3>7 DEF TurnedIn
  <2>6. ASSUME NEW w \in Worker, Submit(w) PROVE TurnedIn(s)
    <3>1. CASE GetSubmission(w) \/ Finalize(w) BY <2>1, <3>1 DEF GetSubmission, Finalize
    <3>2. CASE \/ \E t \in Student :
                     \/ \E submit \in BOOLEAN : LoadAssignment(w, t, submit)
                     \/ \E filled \in BOOLEAN : LoadDraft(w, t, filled)
                     \/ LoadToSubmit(w, t) \/ LoadToGrade(w, t)
               \/ CheckAvailable(w) \/ Log(w)
      BY <2>3, <3>2 DEF LoadAssignment, LoadDraft, LoadToSubmit, LoadToGrade, Asks, CheckAvailable, Log
    <3> QED BY <2>4, <2>5, <2>6, <3>1, <3>2 DEF Submit
  <2>7. CASE Author /\ UNCHANGED submissionVars BY <2>3, <2>7 DEF submissionVars
  <2>8. ASSUME NEW w \in Worker, Stop(w) PROVE TurnedIn(s) BY <2>3, <2>8 DEF Stop
  <2>9. CASE Tick BY <2>3, <2>9 DEF Tick, submissionVars
  <2> QED BY <2>2, <2>6, <2>7, <2>8, <2>9 DEF Step
<1>2. CourseworkInv /\ [CourseworkNext]_courseworkVars =>
          [~offered => \A s \in Student : TurnedIn(s)' => TurnedIn(s)]_courseworkVars
  BY <1>1
<1> QED BY CourseworkInvariant, <1>2, PTL DEF CourseworkSpec, ShutTakesNothing

=============================================================================
