------------------------------- MODULE Grading -------------------------------
(***************************************************************************)
(* Grade records of one student in one course in grading-service: grades   *)
(* calculated from quiz attempts, manual reviews, overrides, publication,  *)
(* and the history of every change.                                        *)
(*                                                                         *)
(* A request loads the record in its view, calls other services to         *)
(* authorise itself, and then writes some columns of the copy it has, with *)
(* the history entry or the published result, in one transaction.  The     *)
(* first UPDATE locks the row until the commit, so a transaction is one    *)
(* step once it writes; but for a publication, whose transaction calls     *)
(* assessment-service and Kafka before it commits.                         *)
(***************************************************************************)
EXTENDS Integers, Sequences, FiniteSetsExt

CONSTANTS
    Row,           \* identities of grade records
    Submission,    \* quiz attempts and assignment submissions
    Worker,        \* requests in progress
    None,
    Score,         \* scores that are given
    Maximum,       \* maximum scores
    MaxChanges     \* no change begins after that many history entries

Status == {"draft", "calculated", "reviewed", "published", "overridden"}

Grade == [submission : Submission, score : Score, max : Maximum, status : Status]

ASSUME GradeAssumption ==
    /\ Score \subseteq Nat /\ Maximum \subseteq Nat
    /\ None \notin Nat \cup Grade
    /\ MaxChanges \in Nat

VARIABLES
    record,      \* the table, None where there is no row
    reviewed,    \* rows with a manual review
    entries,     \* grade_history of each row, oldest first
    result,      \* published_score of each row, None before it is published
    worker,      \* what each request is doing
    graded,      \* submissions that are marked graded in assessment-service
    raced,       \* history: rows changed while another request had them
    orphaned     \* history: submissions a publication of which was rolled back after
                 \* the call to assessment-service, and not published since

gradeTables == <<record, reviewed, entries, result>>
gradeVars == <<gradeTables, worker, graded, raced, orphaned>>

Entry == [previous : Score \cup {None}, new : Score]

\* What upsert_grade_record writes.
NewGrade == [submission : Submission, score : Score, max : Maximum,
             status : {"draft", "calculated"}]

Idle == [op |-> "idle"]

WorkerState ==
    {Idle}
    \cup [op : {"insert"}, grade : NewGrade]
    \cup [op : {"save"}, row : Row, previous : Score, grade : NewGrade]
    \cup [op : {"override", "review"}, row : Row, previous : Score]
    \cup [op : {"publish", "marked"}, row : Row, score : Score, published : BOOLEAN]

GradeTypeOK ==
    /\ record \in [Row -> Grade \cup {None}]
    /\ reviewed \subseteq {r \in Row : record[r] # None}
    /\ entries \in [Row -> Seq(Entry)]
    /\ result \in [Row -> Score \cup {None}]
    /\ worker \in [Worker -> WorkerState]
    /\ \A w \in Worker : worker[w].op \in {"save", "override", "review", "publish", "marked"}
            => record[worker[w].row] # None
    /\ raced \subseteq Row
    /\ graded \subseteq Submission /\ orphaned \subseteq Submission

GradeInit ==
    /\ record = [r \in Row |-> None]
    /\ reviewed = {}
    /\ entries = [r \in Row |-> <<>>]
    /\ result = [r \in Row |-> None]
    /\ worker = [w \in Worker |-> Idle]
    /\ graded = {} /\ raced = {} /\ orphaned = {}

-----------------------------------------------------------------------------

\* The rows of a submission.  Nothing makes submission_id unique.
RowsOf(s) == {r \in Row : record[r] # None /\ record[r].submission = s}

\* The bound on changes.
MayChange == MapThenSumSet(LAMBDA r : Len(entries[r]), Row) < MaxChanges

Finish(w) == worker' = [worker EXCEPT ![w] = Idle]

\* Another request is going to change the score of r from the copy it has.
Copied(r, w) ==
    \E v \in Worker \ {w} :
        worker[v].op \in {"save", "override", "review"} /\ worker[v].row = r

\* No publication of r is under way, whose transaction holds the lock of the row.
RowFree(r) == \A w \in Worker : ~(worker[w].op = "marked" /\ worker[w].row = r)

\* A change of the score of a row, with its history entry.
Change(w, r, grade, previous) ==
    /\ RowFree(r)
    /\ record' = [record EXCEPT ![r] = grade]
    /\ entries' = [entries EXCEPT ![r] =
          Append(@, [previous |-> previous, new |-> grade.score])]
    /\ raced' = IF Copied(r, w) THEN raced \cup {r} ELSE raced
    /\ Finish(w)

\* upsert_grade_record begins with get_or_create: it finds no row, one, or raises
\* MultipleObjectsReturned.  The grade comes from the assessment-service.
Get(w, s, score, max, status) ==
    LET grade == [submission |-> s, score |-> score, max |-> max, status |-> status] IN
    /\ worker[w] = Idle
    /\ MayChange
    /\ \/ /\ RowsOf(s) = {}
          /\ worker' = [worker EXCEPT ![w] = [op |-> "insert", grade |-> grade]]
       \/ \E r \in Row :
            /\ RowsOf(s) = {r}
            /\ worker' = [worker EXCEPT ![w] =
                  [op |-> "save", row |-> r, previous |-> record[r].score, grade |-> grade]]
    /\ UNCHANGED <<gradeTables, graded, raced, orphaned>>

\* create_manual_review adds the review of the draft it made.
AddReview(r, status) ==
    reviewed' = IF status = "draft" THEN reviewed \cup {r} ELSE reviewed

\* The row is created with its first history entry,
Insert(w, r) ==
    LET grade == worker[w].grade IN
    /\ worker[w].op = "insert" /\ record[r] = None
    /\ Change(w, r, grade, None)
    /\ AddReview(r, grade.status)
    /\ UNCHANGED <<result, graded, orphaned>>

\* ... or every column of it is written, with another.
Save(w) ==
    LET r == worker[w].row
        grade == worker[w].grade
    IN  /\ worker[w].op = "save"
        /\ Change(w, r, grade, worker[w].previous)
        /\ AddReview(r, grade.status)
        /\ UNCHANGED <<result, graded, orphaned>>

\* The views of the other three operations load the record, or the review with it.
LoadChange(w, r, op) ==
    /\ worker[w] = Idle /\ record[r] # None
    /\ op = "review" => r \in reviewed
    /\ MayChange
    /\ worker' = [worker EXCEPT ![w] = [op |-> op, row |-> r, previous |-> record[r].score]]
    /\ UNCHANGED <<gradeTables, graded, raced, orphaned>>

\* Mutation of LoadPublish: the submission is marked before the transaction begins.
MarkingLoadPublish(w, r) ==
    /\ worker[w] = Idle /\ record[r] # None
    /\ worker' = [worker EXCEPT ![w] = [op |-> "publish", row |-> r,
          score |-> record[r].score, published |-> record[r].status = "published"]]
    /\ graded' = graded \cup {record[r].submission}
    /\ UNCHANGED <<gradeTables, raced, orphaned>>

LoadPublish(w, r) ==
    /\ worker[w] = Idle /\ record[r] # None
    /\ worker' = [worker EXCEPT ![w] = [op |-> "publish", row |-> r,
          score |-> record[r].score, published |-> record[r].status = "published"]]
    /\ UNCHANGED <<gradeTables, graded, raced, orphaned>>

\* override_grade; the maximum is the loaded one where the request has none.
Override(w, score, max) ==
    LET r == worker[w].row IN
    /\ worker[w].op = "override"
    /\ Change(w, r,
          [record[r] EXCEPT !.score = score, !.max = max, !.status = "overridden"],
          worker[w].previous)
    /\ UNCHANGED <<reviewed, result, graded, orphaned>>

\* complete_manual_review, of a review in any status.
CompleteReview(w, score) ==
    LET r == worker[w].row IN
    /\ worker[w].op = "review"
    /\ Change(w, r, [record[r] EXCEPT !.score = score, !.status = "reviewed"],
          worker[w].previous)
    /\ UNCHANGED <<reviewed, result, graded, orphaned>>

\* The request finds the grade published, in the copy it has, and its result.
Published(w) == worker[w].published /\ result[worker[w].row] # None

FindPublished(w) ==
    /\ worker[w].op = "publish" /\ Published(w)
    /\ Finish(w)
    /\ UNCHANGED <<gradeTables, graded, raced, orphaned>>

Submitted(w) == record[worker[w].row].submission

\* mark_assignment_submission_graded: its failure is passed over, and what it does may
\* come after an answer that was not awaited.
MayMark(w) ==
    \/ graded' = graded \cup {Submitted(w)}
    \/ UNCHANGED graded

\* publish_grade writes the row, which locks it, and the result, and calls the other
\* service before anything of it is committed.
Mark(w) ==
    /\ worker[w].op = "publish" /\ ~Published(w)
    /\ RowFree(worker[w].row)
    /\ worker' = [worker EXCEPT ![w].op = "marked"]
    /\ MayMark(w)
    /\ UNCHANGED <<gradeTables, raced, orphaned>>

\* Mutation of Publish: save() writes every column of the copy.
PublishCopy(w) ==
    LET r == worker[w].row
        score == worker[w].score
    IN  /\ worker[w].op = "marked"
        /\ record' = [record EXCEPT ![r].status = "published", ![r].score = score]
        /\ result' = IF result[r] # None THEN result ELSE [result EXCEPT ![r] = score]
        /\ orphaned' = orphaned \ {Submitted(w)}
        /\ Finish(w)
        /\ UNCHANGED <<reviewed, entries, graded, raced>>

\* The commit: of the row only the status is written, and the score of the copy is
\* published unless a result exists.
Publish(w) ==
    LET r == worker[w].row
        score == worker[w].score
    IN  /\ worker[w].op = "marked"
        /\ record' = [record EXCEPT ![r].status = "published"]
        /\ result' = IF result[r] # None THEN result ELSE [result EXCEPT ![r] = score]
        /\ MayMark(w)
        /\ orphaned' = orphaned \ {Submitted(w)}
        /\ Finish(w)
        /\ UNCHANGED <<reviewed, entries, raced>>

\* The transaction is rolled back after the call, by Kafka, the commit or a crash.
RollBack(w) ==
    /\ worker[w].op = "marked"
    /\ MayMark(w)
    /\ orphaned' = IF \E r \in RowsOf(Submitted(w)) : result[r] # None THEN orphaned
                   ELSE orphaned \cup {Submitted(w)}
    /\ Finish(w)
    /\ UNCHANGED <<gradeTables, raced>>

\* A request fails otherwise, and its transaction, if it began one, is rolled back.
Fail(w) ==
    /\ worker[w].op \notin {"idle", "marked"}
    /\ Finish(w)
    /\ UNCHANGED <<gradeTables, graded, raced, orphaned>>

GradeNext ==
    \E w \in Worker :
        \/ \E s \in Submission, score \in Score, max \in Maximum,
              status \in {"calculated", "draft"} : Get(w, s, score, max, status)
        \/ \E r \in Row : Insert(w, r)
        \/ Save(w)
        \/ \E r \in Row : LoadPublish(w, r)
        \/ \E r \in Row, op \in {"override", "review"} : LoadChange(w, r, op)
        \/ \E score \in Score, max \in Maximum : Override(w, score, max)
        \/ \E score \in Score : CompleteReview(w, score)
        \/ FindPublished(w) \/ Mark(w) \/ Publish(w) \/ RollBack(w) \/ Fail(w)

-----------------------------------------------------------------------------
(* Properties *)

\* The score of a record is the one its last history entry says, whatever
\* requests overlapped and whichever old copies they held.
RecordMatchesHistory ==
    \A r \in Row : record[r] # None =>
        /\ entries[r] # <<>>
        /\ record[r].score = entries[r][Len(entries[r])].new

\* A published record has a result, and a published score is one the record has
\* had, so that the history accounts for what the student was shown.
PublishedScoreAccounted ==
    \A r \in Row :
        /\ record[r] # None /\ record[r].status = "published" => result[r] # None
        /\ result[r] # None => \E i \in DOMAIN entries[r] : entries[r][i].new = result[r]

\* A submission marked graded has a published score, or a publication of it is under
\* way; unless one was rolled back after the call and none has succeeded since.
\* Publications that find others at work, or fail before they called, leave no mark.
GradedMeansPublished ==
    \A s \in graded \ orphaned :
        \/ \E r \in RowsOf(s) : result[r] # None
        \/ \E w \in Worker : worker[w].op = "marked" /\ Submitted(w) = s

\* As long as the changes of a record come one after the other, each history entry
\* starts from the score that the one before it ended with.
SerialHistoryChains ==
    \A r \in Row \ raced : \A i \in DOMAIN entries[r] :
        entries[r][i].previous = IF i = 1 THEN None ELSE entries[r][i - 1].new

\* The history of a record accounts for its score and for the published one, step by step.
HistoryAccounts == RecordMatchesHistory /\ PublishedScoreAccounted /\ SerialHistoryChains

=============================================================================
