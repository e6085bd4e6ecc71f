------------------------- MODULE CertificatesProofs -------------------------
(***************************************************************************)
(* Proofs about Grading and Certificates, for any rows, submissions,       *)
(* requests, scores and threshold, and without the bound on changes.       *)
(***************************************************************************)
EXTENDS Certificates, SequenceTheorems, TLAPS

\* A row that does not exist has no history, and one that exists has.
HistoryKept == \A r \in Row : record[r] = None => entries[r] = <<>>

\* The score a request is about to publish is one the record has had.
PublishersAccounted ==
    \A w \in Worker : worker[w].op \in {"publish", "marked"} =>
        \E i \in DOMAIN entries[worker[w].row] :
            entries[worker[w].row][i].new = worker[w].score

Copying(w, r) ==
    worker[w].op \in {"save", "override", "review"} /\ worker[w].row = r

\* As long as changes do not overlap, the old score a request has is the current one.
CopiesCurrent ==
    \A r \in Row \ raced : \A w \in Worker :
        Copying(w, r) => worker[w].previous = record[r].score

\* A save writes the submission that the row already has.
SameSubmission ==
    \A w \in Worker : worker[w].op = "save" =>
        worker[w].grade.submission = record[worker[w].row].submission

GradeInv ==
    /\ GradeTypeOK /\ SameSubmission /\ GradedMeansPublished
    /\ HistoryKept /\ RecordMatchesHistory
    /\ PublishersAccounted /\ PublishedScoreAccounted
    /\ CopiesCurrent /\ SerialHistoryChains

\* What a request found is, or was, true.
ClerksHonest ==
    \A c \in Clerk :
        /\ clerk[c].op = "completed" => earned # "no"
        /\ clerk[c].op = "decided" /\ clerk[c].eligible => earned = "passed"

CertificateTypeOK ==
    /\ completed \in BOOLEAN
    /\ eligible \in BOOLEAN \cup {None}
    /\ certificate \in Certificate \cup {None}
    /\ clerk \in [Clerk -> ClerkState]
    /\ \A c \in Clerk : clerk[c].op \in {"link", "revoke"} => certificate # None
    /\ earned \in {"no", "completed", "passed"}

CertificateInv ==
    /\ CertificateTypeOK
    /\ ClerksHonest /\ CertificateEarned /\ EligibleHasCertificate

IInv == GradeInv /\ CertificateInv

-----------------------------------------------------------------------------
(* Grades *)

Saving == [op : {"save"}, row : Row, previous : Score, grade : NewGrade]
Changing == [op : {"override", "review"}, row : Row, previous : Score]
Publishing == [op : {"publish", "marked"}, row : Row, score : Score, published : BOOLEAN]

\* The fields of a request follow from what it does.
LEMMA WorkerFields ==
    ASSUME GradeTypeOK, NEW w \in Worker
    PROVE  /\ worker[w].op = "insert" => worker[w].grade \in NewGrade
           /\ worker[w].op = "save" => worker[w] \in Saving
           /\ worker[w].op \in {"override", "review"} => worker[w] \in Changing
           /\ worker[w].op \in {"publish", "marked"} => worker[w] \in Publishing
BY DEF GradeTypeOK, WorkerState, Idle, Saving, Changing, Publishing

LEMMA InitGrade == GradeInit => GradeInv
<1> SUFFICES ASSUME GradeInit PROVE GradeInv OBVIOUS
<1>1. \A w \in Worker : worker[w] = Idle BY DEF GradeInit
<1>2. GradeTypeOK BY DEF GradeInit, GradeTypeOK, WorkerState, Idle
<1> QED
  BY <1>1, <1>2, GradeAssumption
  DEF GradeInit, GradeInv, HistoryKept, RecordMatchesHistory, PublishersAccounted,
      PublishedScoreAccounted, CopiesCurrent, SerialHistoryChains, Copying, Idle,
      SameSubmission, GradedMeansPublished

\* A step of one request that leaves the tables alone keeps the invariant, if what
\* the request knows afterwards is so.
LEMMA QuietGrade ==
    ASSUME GradeInv, NEW w \in Worker, NEW new \in WorkerState,
           worker' = [worker EXCEPT ![w] = new], worker[w].op # "marked",
           UNCHANGED <<gradeTables, graded, raced, orphaned>>,
           new.op = "save" => new.grade.submission = record[new.row].submission,
           new.op \in {"save", "override", "review"} =>
              record[new.row] # None /\ new.previous = record[new.row].score,
           new.op # "marked", new.op = "publish" =>
              record[new.row] # None /\ new.row \in Row /\ new.score = record[new.row].score
    PROVE  GradeInv'
<1>1. \A v \in Worker : worker'[v] = IF v = w THEN new ELSE worker[v]
  BY DEF GradeInv, GradeTypeOK
<1> USE DEF gradeTables
<1>2. GradeTypeOK' BY <1>1 DEF GradeInv, GradeTypeOK
<1>6. SameSubmission' BY <1>1 DEF GradeInv, SameSubmission
<1>7. GradedMeansPublished'
  <2>1. \A v \in Worker : worker[v].op = "marked" => worker'[v] = worker[v] BY <1>1
  <2> QED BY <2>1 DEF GradeInv, GradedMeansPublished, RowsOf, Submitted
<1>3. CopiesCurrent' BY <1>1 DEF GradeInv, CopiesCurrent, Copying
<1>4. PublishersAccounted'
  <2>1. \A r \in Row : record[r] # None =>
            \E i \in DOMAIN entries[r] : entries[r][i].new = record[r].score
    <3> SUFFICES ASSUME NEW r \in Row, record[r] # None
                 PROVE  \E i \in DOMAIN entries[r] : entries[r][i].new = record[r].score
      OBVIOUS
    <3>1. /\ entries[r] \in Seq(Entry) /\ entries[r] # <<>>
          /\ record[r].score = entries[r][Len(entries[r])].new
      BY DEF GradeInv, GradeTypeOK, RecordMatchesHistory
    <3>2. Len(entries[r]) \in DOMAIN entries[r] BY <3>1
    <3> QED BY <3>1, <3>2
  <2> QED BY <1>1, <2>1 DEF GradeInv, PublishersAccounted
<1>5. (HistoryKept /\ RecordMatchesHistory /\ PublishedScoreAccounted
         /\ SerialHistoryChains)'
  BY DEF GradeInv, HistoryKept, RecordMatchesHistory, PublishedScoreAccounted,
         SerialHistoryChains
<1> QED BY <1>2, <1>3, <1>4, <1>5, <1>6, <1>7 DEF GradeInv

\* A change of a row with its history entry keeps the invariant, if the old score it
\* names is the one the request had.
LEMMA ChangeStep ==
    ASSUME GradeInv, NEW w \in Worker, NEW r \in Row, NEW grade \in Grade,
           NEW previous \in Score \cup {None},
           Change(w, r, grade, previous), worker[w].op # "marked",
           UNCHANGED <<result, graded, orphaned>>,
           grade.status # "published",
           record[r] # None => grade.submission = record[r].submission,
           reviewed' \subseteq reviewed \cup {r},
           IF record[r] = None THEN previous = None
           ELSE Copying(w, r) /\ previous = worker[w].previous
    PROVE  GradeInv'
<1> DEFINE entry == [previous |-> previous, new |-> grade.score]
           last == Len(entries[r])
<1>1. grade # None /\ grade.score \in Score /\ grade.score # None
  BY GradeAssumption DEF Grade
<1>2. entry \in Entry BY <1>1 DEF Entry
<1>3. /\ \A s \in Row : record'[s] = IF s = r THEN grade ELSE record[s]
      /\ \A s \in Row : entries'[s] = IF s = r THEN Append(entries[r], entry) ELSE entries[s]
      /\ \A v \in Worker : worker'[v] = IF v = w THEN Idle ELSE worker[v]
  BY DEF Change, Finish, GradeInv, GradeTypeOK
<1>4. /\ entries[r] \in Seq(Entry) /\ last \in Nat
      /\ Append(entries[r], entry) \in Seq(Entry)
      /\ Len(Append(entries[r], entry)) = last + 1
      /\ Append(entries[r], entry)[last + 1] = entry
      /\ \A i \in 1 .. last : Append(entries[r], entry)[i] = entries[r][i]
  BY <1>2 DEF GradeInv, GradeTypeOK
<1>5. DOMAIN entries[r] = 1 .. last /\ DOMAIN entries'[r] = 1 .. (last + 1)
  <2>1. entries'[r] = Append(entries[r], entry) BY <1>3
  <2> HIDE DEF entry
  <2> QED BY <1>4, <2>1, LenProperties
<1>6. /\ entry.new = grade.score /\ entry.previous = previous
      /\ \A i \in 1 .. last : entries'[r][i] = entries[r][i]
      /\ entries'[r][last + 1] = entry
      /\ Len(entries'[r]) = last + 1 /\ entries'[r] # <<>>
  <2>1. entries'[r] = Append(entries[r], entry) BY <1>3
  <2>2. entry.new = grade.score /\ entry.previous = previous OBVIOUS
  <2> HIDE DEF entry
  <2>3. Len(entries'[r]) # 0 BY <1>4, <2>1
  <2>4. entries'[r] # <<>> BY <2>3, EmptySeq
  <2> QED BY <1>4, <2>1, <2>2, <2>4
<1>7. raced' \subseteq Row /\ raced \subseteq raced'
  BY DEF Change, GradeInv, GradeTypeOK
<1>8. Idle.op = "idle" BY DEF Idle
<1> HIDE DEF entry
<1>9. GradeTypeOK'
  <2>1. record' \in [Row -> Grade \cup {None}] /\ entries' \in [Row -> Seq(Entry)]
    BY <1>4 DEF Change, GradeInv, GradeTypeOK, entry
  <2>2. worker' \in [Worker -> WorkerState]
    BY DEF Change, Finish, GradeInv, GradeTypeOK, WorkerState
  <2>3. \A s \in Row : record[s] # None => record'[s] # None BY <1>1, <1>3
  <2>4. \A v \in Worker : worker'[v].op \in {"save", "override", "review", "publish", "marked"}
            => worker[v].row \in Row /\ worker'[v] = worker[v]
    BY <1>3, <1>8, WorkerFields DEF GradeInv, Saving, Changing, Publishing
  <2>5. \A v \in Worker : worker'[v].op \in {"save", "override", "review", "publish", "marked"}
            => record'[worker'[v].row] # None
    BY <2>3, <2>4 DEF GradeInv, GradeTypeOK
  <2>6. reviewed' \subseteq {s \in Row : record'[s] # None}
    BY <1>1, <1>3, <2>3 DEF GradeInv, GradeTypeOK
  <2> QED BY <1>7, <2>1, <2>2, <2>5, <2>6 DEF GradeInv, GradeTypeOK
<1>10. HistoryKept' BY <1>1, <1>3 DEF GradeInv, HistoryKept
<1>11. RecordMatchesHistory' BY <1>3, <1>6 DEF GradeInv, RecordMatchesHistory
<1>12. \A s \in Row, score \in Score :
          (\E i \in DOMAIN entries[s] : entries[s][i].new = score)
          => \E i \in DOMAIN entries'[s] : entries'[s][i].new = score
  BY <1>3, <1>5, <1>6
<1>13. PublishersAccounted'
  <2> SUFFICES ASSUME NEW v \in Worker, worker'[v].op \in {"publish", "marked"}
               PROVE  \E i \in DOMAIN entries'[worker'[v].row] :
                         entries'[worker'[v].row][i].new = worker'[v].score
    BY DEF PublishersAccounted
  <2>1. worker'[v] = worker[v] BY <1>3, <1>8
  <2>2. worker[v].row \in Row /\ worker[v].score \in Score
    BY <2>1, WorkerFields DEF GradeInv, Publishing
  <2> QED BY <1>12, <2>1, <2>2 DEF GradeInv, PublishersAccounted
<1>14. PublishedScoreAccounted'
  <2>1. \A s \in Row : result[s] # None => result[s] \in Score
    BY DEF GradeInv, GradeTypeOK
  <2> QED BY <1>3, <1>12, <2>1 DEF GradeInv, PublishedScoreAccounted
<1>15. CopiesCurrent'
  <2> SUFFICES ASSUME NEW s \in Row \ raced', NEW v \in Worker, Copying(v, s)'
               PROVE  worker'[v].previous = record'[s].score
    BY DEF CopiesCurrent
  <2>1. v # w /\ worker'[v] = worker[v] BY <1>3, <1>8 DEF Copying
  <2>2. Copying(v, s) BY <2>1 DEF Copying
  <2>3. s # r BY <1>7, <2>1, <2>2 DEF Change, Copied, Copying
  <2> QED BY <1>3, <1>7, <2>1, <2>2, <2>3 DEF GradeInv, CopiesCurrent
<1>16. SerialHistoryChains'
  <2> SUFFICES ASSUME NEW s \in Row \ raced', NEW i \in DOMAIN entries'[s]
               PROVE  entries'[s][i].previous =
                         IF i = 1 THEN None ELSE entries'[s][i - 1].new
    BY DEF SerialHistoryChains
  <2>1. CASE s # r BY <1>3, <1>7, <2>1 DEF GradeInv, SerialHistoryChains
  <2>2. CASE s = r /\ i # last + 1
    <3>1. i \in 1 .. last /\ (i # 1 => i - 1 \in 1 .. last) BY <1>4, <1>5, <2>2
    <3> QED BY <1>5, <1>6, <1>7, <2>2, <3>1 DEF GradeInv, SerialHistoryChains
  <2>3. CASE s = r /\ i = last + 1
    <3>1. CASE record[r] = None
      <4>1. last = 0 BY <3>1 DEF GradeInv, HistoryKept
      <4> QED BY <1>6, <2>3, <3>1, <4>1
    <3>2. CASE record[r] # None
      <4>1. previous = record[r].score
        BY <1>7, <2>3, <3>2 DEF GradeInv, CopiesCurrent
      <4>2. /\ entries[r] # <<>> /\ record[r].score = entries[r][last].new
        BY <3>2 DEF GradeInv, RecordMatchesHistory
      <4>3. last # 0 /\ last \in 1 .. last BY <1>4, <4>2, EmptySeq
      <4> QED BY <1>4, <1>6, <2>3, <4>1, <4>2, <4>3
    <3> QED BY <3>1, <3>2
  <2> QED BY <2>1, <2>2, <2>3
<1>17. SameSubmission'
  <2> SUFFICES ASSUME NEW v \in Worker, worker'[v].op = "save"
               PROVE  worker'[v].grade.submission = record'[worker'[v].row].submission
    BY DEF SameSubmission
  <2>1. worker'[v] = worker[v] /\ worker[v] \in Saving
    BY <1>3, <1>8, WorkerFields DEF GradeInv
  <2>2. worker[v].row \in Row /\ record[worker[v].row] # None
    BY <2>1 DEF Saving, GradeInv, GradeTypeOK
  <2> QED BY <1>3, <2>1, <2>2 DEF GradeInv, SameSubmission
<1>18. GradedMeansPublished'
  <2>1. \A s \in Submission : RowsOf(s) \subseteq RowsOf(s)'
    BY <1>1, <1>3 DEF RowsOf
  <2>2. graded \subseteq Submission BY DEF GradeInv, GradeTypeOK
  <2>3. ASSUME NEW v \in Worker, worker[v].op = "marked"
        PROVE  worker'[v] = worker[v] /\ Submitted(v)' = Submitted(v)
    <3>1. worker'[v] = worker[v] BY <1>3, <2>3
    <3>2. worker[v].row \in Row /\ record[worker[v].row] # None
      BY <2>3, WorkerFields DEF GradeInv, GradeTypeOK, Publishing
    <3> QED BY <1>3, <3>1, <3>2 DEF Submitted
  <2> QED BY <2>1, <2>2, <2>3 DEF GradeInv, GradedMeansPublished
<1> QED BY <1>9, <1>10, <1>11, <1>13, <1>14, <1>15, <1>16, <1>17, <1>18 DEF GradeInv

LEMMA IdleUnmarked ==
    ASSUME NEW w \in Worker, worker[w] = Idle PROVE worker[w].op # "marked"
BY DEF Idle

LEMMA GetStep ==
    ASSUME GradeInv, NEW w \in Worker, NEW s \in Submission, NEW score \in Score,
           NEW max \in Maximum, NEW status \in {"calculated", "draft"},
           Get(w, s, score, max, status)
    PROVE  GradeInv'
<1> DEFINE grade == [submission |-> s, score |-> score, max |-> max, status |-> status]
<1>1. grade \in NewGrade BY DEF NewGrade
<1>2. CASE worker' = [worker EXCEPT ![w] = [op |-> "insert", grade |-> grade]]
  <2> DEFINE new == [op |-> "insert", grade |-> grade]
  <2>1. /\ new \in WorkerState
        /\ new.op \notin {"save", "override", "review", "publish", "marked"}
    BY <1>1 DEF WorkerState
  <2> HIDE DEF new
  <2>2. worker' = [worker EXCEPT ![w] = new] BY <1>2 DEF new
  <2> QED BY <2>1, <2>2, QuietGrade, IdleUnmarked DEF Get
<1>3. ASSUME NEW r \in Row, RowsOf(s) = {r},
             worker' = [worker EXCEPT ![w] =
                [op |-> "save", row |-> r, previous |-> record[r].score, grade |-> grade]]
      PROVE  GradeInv'
  <2> DEFINE new == [op |-> "save", row |-> r, previous |-> record[r].score, grade |-> grade]
  <2>1. record[r] # None BY <1>3 DEF RowsOf
  <2>2. record[r].score \in Score BY <2>1 DEF GradeInv, GradeTypeOK, Grade
  <2>3. /\ new \in WorkerState /\ new.op \notin {"publish", "marked"}
        /\ new.row = r /\ new.previous = record[r].score
        /\ new.grade.submission = s
    BY <1>1, <2>2 DEF WorkerState
  <2>5. record[r].submission = s BY <1>3 DEF RowsOf
  <2>4. worker' = [worker EXCEPT ![w] = new] BY <1>3
  <2> HIDE DEF new
  <2> QED BY <2>1, <2>3, <2>4, <2>5, QuietGrade, IdleUnmarked DEF Get
<1> QED BY <1>2, <1>3 DEF Get

LEMMA LoadChangeStep ==
    ASSUME GradeInv, NEW w \in Worker, NEW r \in Row,
           NEW op \in {"override", "review"}, LoadChange(w, r, op)
    PROVE  GradeInv'
<1> DEFINE new == [op |-> op, row |-> r, previous |-> record[r].score]
<1>1. record[r].score \in Score BY DEF LoadChange, GradeInv, GradeTypeOK, Grade
<1>2. new \in WorkerState /\ new.op \notin {"publish", "save", "marked"} /\ new.row = r
      /\ new.previous = record[r].score
  BY <1>1 DEF WorkerState
<1>3. worker' = [worker EXCEPT ![w] = new] BY DEF LoadChange
<1> HIDE DEF new
<1> QED BY <1>2, <1>3, QuietGrade, IdleUnmarked DEF LoadChange

LEMMA LoadPublishStep ==
    ASSUME GradeInv, NEW w \in Worker, NEW r \in Row, LoadPublish(w, r)
    PROVE  GradeInv'
<1> DEFINE new == [op |-> "publish", row |-> r, score |-> record[r].score,
                   published |-> record[r].status = "published"]
<1>1. record[r].score \in Score BY DEF LoadPublish, GradeInv, GradeTypeOK, Grade
<1>2. /\ new \in WorkerState /\ new.op = "publish" /\ new.row = r
      /\ new.op \notin {"save", "override", "review", "marked"}
      /\ new.score = record[r].score
  BY <1>1 DEF WorkerState
<1>3. record[r] # None BY DEF LoadPublish
<1>4. worker' = [worker EXCEPT ![w] = new] BY DEF LoadPublish
<1> HIDE DEF new
<1> QED BY <1>2, <1>3, <1>4, QuietGrade, IdleUnmarked DEF LoadPublish

LEMMA FailStep == ASSUME GradeInv, NEW w \in Worker, Fail(w) PROVE GradeInv'
<1>1. Idle \in WorkerState /\ Idle.op = "idle" BY DEF WorkerState, Idle
<1> QED BY <1>1, QuietGrade DEF Fail, Finish

LEMMA InsertStep ==
    ASSUME GradeInv, NEW w \in Worker, NEW r \in Row, Insert(w, r)
    PROVE  GradeInv'
<1>1. worker[w].grade \in NewGrade BY WorkerFields DEF Insert, GradeInv
<1>2. worker[w].grade \in Grade /\ worker[w].grade.status # "published"
  BY <1>1 DEF NewGrade, Grade, Status
<1>3. reviewed' \subseteq reviewed \cup {r} BY DEF Insert, AddReview
<1> QED BY <1>2, <1>3, ChangeStep DEF Insert

LEMMA SaveStep == ASSUME GradeInv, NEW w \in Worker, Save(w) PROVE GradeInv'
<1>1. worker[w] \in Saving BY WorkerFields DEF Save, GradeInv
<1> DEFINE r == worker[w].row
           grade == worker[w].grade
<1>2. r \in Row /\ worker[w].previous \in Score /\ grade \in NewGrade
  BY <1>1 DEF Saving
<1>3. grade \in Grade /\ grade.status # "published" BY <1>2 DEF NewGrade, Grade, Status
<1>4. record[r] # None /\ Copying(w, r) BY DEF Save, GradeInv, GradeTypeOK, Copying
<1>5. reviewed' \subseteq reviewed \cup {r} BY DEF Save, AddReview
<1>6. /\ Change(w, r, grade, worker[w].previous)
      /\ UNCHANGED <<result, graded, orphaned>>
      /\ grade.submission = record[r].submission /\ worker[w].op # "marked"
  BY DEF Save, GradeInv, SameSubmission
<1> HIDE DEF r, grade
<1> QED BY <1>2, <1>3, <1>4, <1>5, <1>6, ChangeStep

\* What override_grade and complete_manual_review have in common.
LEMMA RescoreStep ==
    ASSUME GradeInv, NEW w \in Worker, worker[w].op \in {"override", "review"},
           NEW grade \in Grade, grade.status # "published",
           grade.submission = record[worker[w].row].submission,
           Change(w, worker[w].row, grade, worker[w].previous),
           UNCHANGED <<reviewed, result, graded, orphaned>>
    PROVE  GradeInv'
<1> DEFINE r == worker[w].row
<1>1. worker[w] \in Changing BY WorkerFields DEF GradeInv
<1>2. r \in Row /\ worker[w].previous \in Score BY <1>1 DEF Changing
<1>3. record[r] # None /\ Copying(w, r) BY DEF GradeInv, GradeTypeOK, Copying
<1>4. /\ Change(w, r, grade, worker[w].previous)
      /\ grade.submission = record[r].submission
  OBVIOUS
<1> HIDE DEF r
<1> QED BY <1>2, <1>3, <1>4, ChangeStep

LEMMA OverrideStep ==
    ASSUME GradeInv, NEW w \in Worker, NEW score \in Score, NEW max \in Maximum,
           Override(w, score, max)
    PROVE  GradeInv'
<1> DEFINE r == worker[w].row
           grade == [record[r] EXCEPT !.score = score, !.max = max, !.status = "overridden"]
<1>1. worker[w] \in Changing BY WorkerFields DEF Override, GradeInv
<1>2. r \in Row /\ record[r] # None
  BY <1>1 DEF Changing, Override, GradeInv, GradeTypeOK
<1>3. record[r] \in Grade BY <1>2 DEF GradeInv, GradeTypeOK
<1>4. /\ grade \in Grade /\ grade.status # "published"
      /\ grade.submission = record[worker[w].row].submission
  BY <1>3 DEF Grade, Status
<1>5. Change(w, worker[w].row, grade, worker[w].previous) BY DEF Override
<1> HIDE DEF grade
<1> QED BY <1>4, <1>5, RescoreStep DEF Override

LEMMA CompleteReviewStep ==
    ASSUME GradeInv, NEW w \in Worker, NEW score \in Score, CompleteReview(w, score)
    PROVE  GradeInv'
<1> DEFINE r == worker[w].row
           grade == [record[r] EXCEPT !.score = score, !.status = "reviewed"]
<1>1. worker[w] \in Changing BY WorkerFields DEF CompleteReview, GradeInv
<1>2. r \in Row /\ record[r] # None
  BY <1>1 DEF Changing, CompleteReview, GradeInv, GradeTypeOK
<1>3. record[r] \in Grade BY <1>2 DEF GradeInv, GradeTypeOK
<1>4. /\ grade \in Grade /\ grade.status # "published"
      /\ grade.submission = record[worker[w].row].submission
  BY <1>3 DEF Grade, Status
<1>5. Change(w, worker[w].row, grade, worker[w].previous) BY DEF CompleteReview
<1> HIDE DEF grade
<1> QED BY <1>4, <1>5, RescoreStep DEF CompleteReview

LEMMA FindPublishedStep ==
    ASSUME GradeInv, NEW w \in Worker, FindPublished(w) PROVE GradeInv'
<1>1. Idle \in WorkerState /\ Idle.op = "idle" BY DEF WorkerState, Idle
<1> QED BY <1>1, QuietGrade DEF FindPublished, Finish

LEMMA MarkStep == ASSUME GradeInv, NEW w \in Worker, Mark(w) PROVE GradeInv'
<1> DEFINE new == [worker[w] EXCEPT !.op = "marked"]
<1>1. worker[w] \in Publishing BY WorkerFields DEF Mark, GradeInv
<1>2. /\ new \in Publishing /\ new.op = "marked"
      /\ new.row = worker[w].row /\ new.score = worker[w].score
  BY <1>1 DEF Publishing
<1>3. new \in WorkerState BY <1>2 DEF WorkerState, Publishing
<1> HIDE DEF new
<1>4. \A v \in Worker : worker'[v] = IF v = w THEN new ELSE worker[v]
  BY DEF Mark, GradeInv, GradeTypeOK, new
<1>5. UNCHANGED <<record, reviewed, entries, result, raced, orphaned>> /\ MayMark(w)
  BY DEF Mark, gradeTables
<1>6. record[worker[w].row] \in Grade /\ Submitted(w) \in Submission
  BY <1>1 DEF Mark, GradeInv, GradeTypeOK, Publishing, Submitted, Grade
<1>7. GradeTypeOK'
  <2>1. worker' \in [Worker -> WorkerState] BY <1>3 DEF Mark, GradeInv, GradeTypeOK, new
  <2>2. record[worker[w].row] # None BY DEF Mark, GradeInv, GradeTypeOK
  <2> QED BY <1>2, <1>4, <1>5, <1>6, <2>1, <2>2 DEF GradeInv, GradeTypeOK, MayMark
<1>8. GradedMeansPublished'
  <2>1. \A v \in Worker : worker[v].op = "marked" => worker'[v] = worker[v]
    BY <1>4 DEF Mark
  <2>2. worker'[w].op = "marked" /\ Submitted(w)' = Submitted(w)
    BY <1>2, <1>4, <1>5 DEF Submitted
  <2> QED
    BY <1>5, <2>1, <2>2 DEF GradeInv, GradedMeansPublished, RowsOf, Submitted, MayMark
<1>9. (SameSubmission /\ CopiesCurrent)'
  BY <1>2, <1>4, <1>5 DEF GradeInv, SameSubmission, CopiesCurrent, Copying
<1>10. PublishersAccounted'
  BY <1>2, <1>4, <1>5 DEF Mark, GradeInv, PublishersAccounted
<1>11. (HistoryKept /\ RecordMatchesHistory /\ PublishedScoreAccounted
          /\ SerialHistoryChains)'
  BY <1>5 DEF GradeInv, HistoryKept, RecordMatchesHistory, PublishedScoreAccounted,
              SerialHistoryChains
<1> QED BY <1>7, <1>8, <1>9, <1>10, <1>11 DEF GradeInv

LEMMA PublishStep == ASSUME GradeInv, NEW w \in Worker, Publish(w) PROVE GradeInv'
<1> DEFINE r == worker[w].row
           score == worker[w].score
<1>1. worker[w] \in Publishing BY WorkerFields DEF Publish, GradeInv
<1>2. r \in Row /\ score \in Score /\ score # None
  BY <1>1, GradeAssumption DEF Publishing
<1>3. record[r] \in Grade BY <1>2 DEF Publish, GradeInv, GradeTypeOK
<1>4. \A v \in Worker : worker'[v] = IF v = w THEN Idle ELSE worker[v]
  BY DEF Publish, Finish, GradeInv, GradeTypeOK
<1>5. /\ MayMark(w) /\ orphaned' = orphaned \ {record[r].submission}
      /\ record' = [record EXCEPT ![r].status = "published"]
      /\ result' = IF result[r] # None THEN result ELSE [result EXCEPT ![r] = score]
  BY DEF Publish, Submitted
<1> DEFINE grade == [record[r] EXCEPT !.status = "published"]
<1>6. grade \in Grade /\ grade.score = record[r].score BY <1>3 DEF Grade, Status
<1>7. \A s \in Row : record'[s] = IF s = r THEN grade ELSE record[s]
  BY <1>5 DEF GradeInv, GradeTypeOK
<1>8. record' \in [Row -> Grade \cup {None}]
  BY <1>5, <1>6 DEF GradeInv, GradeTypeOK
<1> HIDE DEF grade
<1>9. grade # None /\ record[r] # None BY <1>3, <1>6, GradeAssumption
<1>10. \A s \in Row : (record'[s] = None <=> record[s] = None)
                     /\ record'[s].score = record[s].score
  BY <1>6, <1>7, <1>9
<1>11. \A s \in Row : result'[s] = IF s = r /\ result[r] = None THEN score ELSE result[s]
  BY <1>5 DEF GradeInv, GradeTypeOK
<1>12. result' \in [Row -> Score \cup {None}]
  BY <1>2, <1>5 DEF GradeInv, GradeTypeOK
<1>13. Idle.op = "idle" /\ Idle \in WorkerState BY DEF Idle, WorkerState
<1>14. UNCHANGED <<reviewed, entries, raced>> BY DEF Publish
<1>15. record[r].submission \in Submission /\ grade.submission = record[r].submission
  BY <1>3 DEF Grade, grade
<1>16. GradeTypeOK'
  <2>1. worker' \in [Worker -> WorkerState]
    BY <1>13 DEF Publish, Finish, GradeInv, GradeTypeOK
  <2>2. \A v \in Worker : worker'[v].op \in {"save", "override", "review", "publish", "marked"}
            => record'[worker'[v].row] # None
    BY <1>4, <1>10, <1>13, WorkerFields
    DEF GradeInv, GradeTypeOK, Saving, Changing, Publishing
  <2>3. graded' \subseteq Submission /\ orphaned' \subseteq Submission
    BY <1>5, <1>15 DEF MayMark, Submitted, GradeInv, GradeTypeOK
  <2> QED BY <1>8, <1>10, <1>12, <1>14, <2>1, <2>2, <2>3 DEF GradeInv, GradeTypeOK
<1>17. HistoryKept' /\ RecordMatchesHistory'
  BY <1>10, <1>14 DEF GradeInv, HistoryKept, RecordMatchesHistory
<1>18. PublishersAccounted'
  BY <1>4, <1>13, <1>14 DEF GradeInv, PublishersAccounted
<1>19. PublishedScoreAccounted'
  <2>1. \E i \in DOMAIN entries[r] : entries[r][i].new = score
    BY DEF Publish, GradeInv, PublishersAccounted
  <2> QED BY <1>2, <1>7, <1>11, <1>14, <2>1 DEF GradeInv, PublishedScoreAccounted
<1>20. CopiesCurrent' /\ SerialHistoryChains'
  <2>1. \A v \in Worker, s \in Row : Copying(v, s)' => Copying(v, s) /\ worker'[v] = worker[v]
    BY <1>4, <1>13 DEF Copying
  <2> QED BY <1>10, <1>14, <2>1 DEF GradeInv, CopiesCurrent, SerialHistoryChains
<1>21. SameSubmission'
  <2> SUFFICES ASSUME NEW v \in Worker, worker'[v].op = "save"
               PROVE  worker'[v].grade.submission = record'[worker'[v].row].submission
    BY DEF SameSubmission
  <2>1. worker'[v] = worker[v] /\ worker[v] \in Saving
    BY <1>4, <1>13, WorkerFields DEF GradeInv
  <2> QED BY <1>7, <1>15, <2>1 DEF Saving, GradeInv, SameSubmission
<1>22. GradedMeansPublished'
  <2> SUFFICES ASSUME NEW s \in graded' \ orphaned'
               PROVE  \/ \E q \in RowsOf(s)' : result'[q] # None
                      \/ \E v \in Worker : worker'[v].op = "marked" /\ Submitted(v)' = s
    BY DEF GradedMeansPublished
  <2>1. \A q \in Row : result[q] # None => result'[q] # None BY <1>2, <1>11
  <2>2. RowsOf(s) \subseteq RowsOf(s)' BY <1>7, <1>10, <1>15 DEF RowsOf
  <2>3. CASE s = record[r].submission
    <3>1. r \in RowsOf(s)' BY <1>2, <1>7, <1>9, <1>15, <2>3 DEF RowsOf
    <3>2. result'[r] # None BY <1>2, <1>11
    <3> QED BY <3>1, <3>2
  <2>4. CASE s # record[r].submission
    <3>1. s \in graded \ orphaned BY <1>5, <2>4 DEF MayMark, Submitted
    <3>2. CASE \E q \in RowsOf(s) : result[q] # None
      BY <2>1, <2>2, <3>2 DEF RowsOf
    <3>3. ASSUME NEW v \in Worker, worker[v].op = "marked", Submitted(v) = s
          PROVE  worker'[v].op = "marked" /\ Submitted(v)' = s
      <4>1. v # w /\ worker'[v] = worker[v] BY <1>4, <2>4, <3>3 DEF Submitted
      <4>2. worker[v].row \in Row BY <3>3, WorkerFields DEF GradeInv, Publishing
      <4>3. record'[worker[v].row].submission = record[worker[v].row].submission
        BY <1>7, <1>15, <4>2
      <4> QED BY <3>3, <4>1, <4>3 DEF Submitted
    <3> QED BY <3>1, <3>2, <3>3 DEF GradeInv, GradedMeansPublished
  <2> QED BY <2>3, <2>4
<1> QED BY <1>16, <1>17, <1>18, <1>19, <1>20, <1>21, <1>22 DEF GradeInv

LEMMA RollBackStep == ASSUME GradeInv, NEW w \in Worker, RollBack(w) PROVE GradeInv'
<1> DEFINE s == Submitted(w)
<1>1. worker[w] \in Publishing BY WorkerFields DEF RollBack, GradeInv
<1>2. record[worker[w].row] \in Grade
  BY <1>1 DEF Publishing, RollBack, GradeInv, GradeTypeOK
<1>3. s \in Submission BY <1>2 DEF Grade, Submitted
<1>4. /\ graded' \subseteq graded \cup {s}
      /\ orphaned' = IF \E r \in RowsOf(s) : result[r] # None THEN orphaned
                     ELSE orphaned \cup {s}
      /\ UNCHANGED <<record, reviewed, entries, result, raced>>
  BY DEF RollBack, gradeTables, MayMark
<1>5. \A v \in Worker : worker'[v] = IF v = w THEN Idle ELSE worker[v]
  BY DEF RollBack, Finish, GradeInv, GradeTypeOK
<1>6. Idle.op = "idle" /\ Idle \in WorkerState BY DEF Idle, WorkerState
<1>7. worker' \in [Worker -> WorkerState]
  BY <1>6 DEF RollBack, Finish, GradeInv, GradeTypeOK
<1>8. GradeTypeOK' BY <1>3, <1>4, <1>5, <1>6, <1>7 DEF GradeInv, GradeTypeOK
<1>9. GradedMeansPublished'
  <2> SUFFICES ASSUME NEW q \in graded' \ orphaned'
               PROVE  \/ \E r \in RowsOf(q) : result[r] # None
                      \/ \E v \in Worker : worker'[v].op = "marked" /\ Submitted(v)' = q
    BY <1>4 DEF GradedMeansPublished, RowsOf
  <2>1. CASE q = s BY <1>4, <2>1
  <2>2. CASE q # s
    <3>1. q \in graded \ orphaned BY <1>4, <2>2
    <3>2. \A v \in Worker : worker[v].op = "marked" /\ Submitted(v) = q
              => worker'[v] = worker[v] /\ Submitted(v)' = q
      BY <1>4, <1>5, <2>2 DEF Submitted
    <3> QED BY <3>1, <3>2 DEF GradeInv, GradedMeansPublished
  <2> QED BY <2>1, <2>2
<1>10. (SameSubmission /\ CopiesCurrent /\ PublishersAccounted)'
  BY <1>4, <1>5, <1>6
  DEF GradeInv, SameSubmission, CopiesCurrent, Copying, PublishersAccounted
<1>11. (HistoryKept /\ RecordMatchesHistory /\ PublishedScoreAccounted
          /\ SerialHistoryChains)'
  BY <1>4 DEF GradeInv, HistoryKept, RecordMatchesHistory, PublishedScoreAccounted,
              SerialHistoryChains
<1> QED BY <1>8, <1>9, <1>10, <1>11 DEF GradeInv

LEMMA GradeStep == GradeInv /\ GradeNext => GradeInv'
BY GetStep, InsertStep, SaveStep, LoadPublishStep, LoadChangeStep, OverrideStep,
   CompleteReviewStep, FindPublishedStep, MarkStep, PublishStep, RollBackStep, FailStep
DEF GradeNext

\* Steps of the other part leave the grades alone.
LEMMA GradeStutter == GradeInv /\ UNCHANGED gradeVars => GradeInv'
BY DEF gradeVars, gradeTables, GradeInv, SameSubmission, GradedMeansPublished, RowsOf,
       Submitted, GradeTypeOK, HistoryKept, RecordMatchesHistory,
       PublishersAccounted, PublishedScoreAccounted, CopiesCurrent, Copying,
       SerialHistoryChains

-----------------------------------------------------------------------------
(* Certificates *)

\* A step of one request that changes no table keeps the invariant, if what it knows
\* afterwards is so.
LEMMA QuietCertificate ==
    ASSUME CertificateInv, Observe, NEW c \in Clerk, NEW new \in ClerkState,
           clerk' = [clerk EXCEPT ![c] = new],
           UNCHANGED <<completed, eligible, certificate>>,
           new.op \in {"link", "revoke"} => certificate # None,
           new.op = "completed" => completed,
           new.op = "decided" /\ new.eligible => earned # "no" /\ Passing
    PROVE  CertificateInv'
<1>1. \A d \in Clerk : clerk'[d] = IF d = c THEN new ELSE clerk[d]
  BY DEF CertificateInv, CertificateTypeOK
<1>2. earned' = IF earned = "no" /\ completed THEN "completed"
                ELSE IF earned = "completed" /\ Passing THEN "passed" ELSE earned
  BY DEF Observe
<1>3. CertificateTypeOK' BY <1>1, <1>2 DEF CertificateInv, CertificateTypeOK
<1>4. ClerksHonest'
  <2>1. earned \in {"no", "completed", "passed"} BY DEF CertificateInv, CertificateTypeOK
  <2>2. /\ completed => earned' # "no"
        /\ earned # "no" => earned' # "no"
        /\ earned # "no" /\ Passing => earned' = "passed"
        /\ earned = "passed" => earned' = "passed"
    BY <1>2, <2>1
  <2> QED BY <1>1, <2>2 DEF CertificateInv, ClerksHonest
<1>5. (CertificateEarned /\ EligibleHasCertificate)'
  BY <1>2 DEF CertificateInv, CertificateEarned, EligibleHasCertificate
<1> QED BY <1>3, <1>4, <1>5 DEF CertificateInv

LEMMA FetchProgressStep ==
    ASSUME CertificateInv, Observe, NEW c \in Clerk, FetchProgress(c)
    PROVE  CertificateInv'
<1> DEFINE new == IF completed THEN [op |-> "completed"]
                  ELSE [op |-> "decided", eligible |-> FALSE]
<1>1. new \in ClerkState BY DEF ClerkState
<1>2. /\ new.op = "completed" => completed
      /\ ~(new.op = "decided" /\ new.eligible)
      /\ new.op \notin {"link", "revoke"}
  OBVIOUS
<1>3. clerk' = [clerk EXCEPT ![c] = new] BY DEF FetchProgress
<1> HIDE DEF new
<1> QED BY <1>1, <1>2, <1>3, QuietCertificate DEF FetchProgress

LEMMA ReadResultsStep ==
    ASSUME CertificateInv, Observe, NEW c \in Clerk, ReadResults(c)
    PROVE  CertificateInv'
<1> DEFINE new == [op |-> "decided", eligible |-> Passing]
<1>1. Passing \in BOOLEAN BY DEF Passing
<1>2. new \in ClerkState BY <1>1 DEF ClerkState
<1>3. new.op = "decided" /\ (new.eligible <=> Passing) OBVIOUS
<1>4. earned # "no" BY DEF ReadResults, CertificateInv, ClerksHonest
<1>5. clerk' = [clerk EXCEPT ![c] = new] BY DEF ReadResults
<1> HIDE DEF new
<1> QED BY <1>2, <1>3, <1>4, <1>5, QuietCertificate DEF ReadResults

LEMMA OpenStep ==
    ASSUME CertificateInv, Observe, NEW c \in Clerk, NEW op \in {"link", "revoke"},
           Open(c, op)
    PROVE  CertificateInv'
<1> DEFINE new == [op |-> op, copy |-> certificate]
<1>1. certificate \in Certificate BY DEF Open, CertificateInv, CertificateTypeOK
<1>2. new \in ClerkState /\ new.op \in {"link", "revoke"} BY <1>1 DEF ClerkState
<1>3. clerk' = [clerk EXCEPT ![c] = new] BY DEF Open
<1> HIDE DEF new
<1> QED BY <1>2, <1>3, QuietCertificate DEF Open

\* A request that ends without a change, or with one of the asset alone.
LEMMA EndStep ==
    ASSUME CertificateInv, Observe, NEW c \in Clerk, Link(c) \/ GiveUp(c)
    PROVE  CertificateInv'
<1>1. Idle \in ClerkState /\ Idle.op = "idle" BY DEF ClerkState, Idle
<1>2. clerk' = [clerk EXCEPT ![c] = Idle] BY DEF Link, GiveUp
<1> QED BY <1>1, <1>2, QuietCertificate DEF Link, GiveUp

\* A request that ends with a change of the tables keeps the invariant, if what it
\* writes is justified.
LEMMA WriteStep ==
    ASSUME CertificateInv, Observe, NEW c \in Clerk,
           clerk' = [clerk EXCEPT ![c] = Idle], UNCHANGED completed,
           eligible' \in BOOLEAN \cup {None}, certificate' \in Certificate \cup {None},
           certificate # None => certificate' # None,
           certificate' # None => certificate # None \/ earned = "passed",
           eligible' = TRUE => certificate' # None
    PROVE  CertificateInv'
<1>1. \A d \in Clerk : clerk'[d] = IF d = c THEN Idle ELSE clerk[d]
  BY DEF CertificateInv, CertificateTypeOK
<1>2. Idle \in ClerkState /\ Idle.op = "idle" BY DEF ClerkState, Idle
<1>3. earned' = IF earned = "no" /\ completed THEN "completed"
                ELSE IF earned = "completed" /\ Passing THEN "passed" ELSE earned
  BY DEF Observe
<1>4. CertificateTypeOK' BY <1>1, <1>2, <1>3 DEF CertificateInv, CertificateTypeOK
<1>5. ClerksHonest' BY <1>1, <1>2, <1>3 DEF CertificateInv, ClerksHonest
<1>6. CertificateEarned' BY <1>3 DEF CertificateInv, CertificateEarned
<1>7. EligibleHasCertificate' BY DEF EligibleHasCertificate
<1> QED BY <1>4, <1>5, <1>6, <1>7 DEF CertificateInv

LEMMA StoreDecisionStep ==
    ASSUME CertificateInv, Observe, NEW c \in Clerk, StoreDecision(c)
    PROVE  CertificateInv'
<1>1. clerk[c].eligible \in BOOLEAN
  BY DEF StoreDecision, CertificateInv, CertificateTypeOK, ClerkState, Idle
<1>2. "valid" # None BY CertificateAssumption DEF Certificate
<1>3. clerk[c].eligible => earned = "passed"
  BY DEF StoreDecision, CertificateInv, ClerksHonest
<1>4. certificate \in Certificate \cup {None} BY DEF CertificateInv, CertificateTypeOK
<1>5. certificate' \in Certificate \cup {None}
  BY <1>4 DEF StoreDecision, Issued, Certificate
<1> QED BY <1>1, <1>2, <1>3, <1>5, WriteStep DEF StoreDecision, Issued

LEMMA RevokeStep ==
    ASSUME CertificateInv, Observe, NEW c \in Clerk, Revoke(c)
    PROVE  CertificateInv'
<1>1. "revoked" # None BY CertificateAssumption DEF Certificate
<1>2. certificate # None BY DEF Revoke, CertificateInv, CertificateTypeOK
<1>3. certificate' \in Certificate \cup {None}
  BY DEF Revoke, CertificateInv, CertificateTypeOK, Certificate
<1>4. certificate' # None BY <1>1, <1>2 DEF Revoke
<1> QED
  BY <1>2, <1>3, <1>4, WriteStep DEF Revoke, CertificateInv, CertificateTypeOK

\* Progress and grades may change under the requests.
LEMMA OthersStep ==
    ASSUME CertificateInv, Observe, completed' \in BOOLEAN,
           UNCHANGED <<eligible, certificate, clerk>>
    PROVE  CertificateInv'
<1>1. earned' = IF earned = "no" /\ completed THEN "completed"
                ELSE IF earned = "completed" /\ Passing THEN "passed" ELSE earned
  BY DEF Observe
<1> QED
  BY <1>1 DEF CertificateInv, CertificateTypeOK, ClerksHonest, CertificateEarned,
              EligibleHasCertificate

LEMMA CertificateStep == CertificateInv /\ CertificateNext /\ Observe => CertificateInv'
<1> SUFFICES ASSUME CertificateInv, CertificateNext, Observe PROVE CertificateInv' OBVIOUS
<1>1. CASE Recalculate
  BY <1>1, OthersStep DEF Recalculate, CertificateInv, CertificateTypeOK
<1>2. ASSUME NEW c \in Clerk,
             \/ FetchProgress(c) \/ ReadResults(c) \/ StoreDecision(c)
             \/ \E op \in {"link", "revoke"} : Open(c, op)
             \/ Link(c) \/ Revoke(c) \/ GiveUp(c)
      PROVE  CertificateInv'
  BY <1>2, FetchProgressStep, ReadResultsStep, StoreDecisionStep, OpenStep, EndStep,
     RevokeStep
<1> QED BY <1>1, <1>2 DEF CertificateNext

-----------------------------------------------------------------------------
(* Grading and certificates together *)

LEMMA InitIInv == Init => IInv
<1> SUFFICES ASSUME Init PROVE IInv OBVIOUS
<1>1. GradeInv BY InitGrade DEF Init
<1>2. \A c \in Clerk : clerk[c] = Idle BY DEF Init
<1>3. CertificateTypeOK
  <2>1. Idle \in ClerkState /\ Idle.op = "idle" BY DEF ClerkState, Idle
  <2> QED BY <1>2, <2>1 DEF Init, CertificateTypeOK
<1>4. ClerksHonest /\ CertificateEarned BY <1>2 DEF Init, ClerksHonest, CertificateEarned, Idle
<1>5. EligibleHasCertificate
  BY CertificateAssumption DEF Init, EligibleHasCertificate
<1> QED BY <1>1, <1>3, <1>4, <1>5 DEF IInv, CertificateInv

LEMMA NextIInv == IInv /\ [Next]_vars => IInv'
<1> SUFFICES ASSUME IInv, [Next]_vars PROVE IInv' OBVIOUS
<1>1. CASE GradeNext /\ UNCHANGED certificateVars /\ Observe
  <2>1. completed' \in BOOLEAN /\ UNCHANGED <<eligible, certificate, clerk>>
    BY <1>1 DEF certificateVars, IInv, CertificateInv, CertificateTypeOK
  <2> QED BY <1>1, <2>1, GradeStep, OthersStep DEF IInv
<1>2. CASE CertificateNext /\ UNCHANGED gradeVars /\ Observe
  BY <1>2, GradeStutter, CertificateStep DEF IInv
<1>3. CASE UNCHANGED vars
  <2>1. GradeInv' BY <1>3, GradeStutter DEF vars, IInv
  <2>2. UNCHANGED <<completed, eligible, certificate, clerk, earned>>
    BY <1>3 DEF vars, certificateVars
  <2>3. CertificateInv'
    BY <2>2 DEF IInv, CertificateInv, CertificateTypeOK, ClerksHonest, CertificateEarned,
                EligibleHasCertificate
  <2> QED BY <2>1, <2>3 DEF IInv
<1> QED BY <1>1, <1>2, <1>3 DEF Next

\* Every state the service can reach satisfies the inductive invariant.
THEOREM Invariance == Spec => []IInv
BY InitIInv, NextIInv, PTL DEF Spec

\* Tables and requests keep their types: no request works on a grade record or a
\* certificate that does not exist.
THEOREM TypeCorrect == Spec => []TypeOK
<1>1. IInv => TypeOK BY DEF IInv, GradeInv, CertificateInv, CertificateTypeOK, TypeOK
<1> QED BY <1>1, Invariance, PTL

\* A submission is marked graded without a published score only while a publication of
\* it is under way, or when one was rolled back after the call (publish_grade).
THEOREM GradedPublished == Spec => []GradedMeansPublished
<1>1. IInv => GradedMeansPublished BY DEF IInv, GradeInv
<1> QED BY <1>1, Invariance, PTL

\* The history accounts for every score: the last entry of a record says its score, the
\* published score is one of the entries, and each entry starts from the one before it
\* for the records whose changes did not overlap.
THEOREM HistoryTruthful == Spec => []HistoryAccounts
<1>1. IInv => HistoryAccounts BY DEF IInv, GradeInv, HistoryAccounts
<1> QED BY <1>1, Invariance, PTL

\* Evaluations that overlap each other, publications and overrides issue no
\* certificate that was never earned, and find no student eligible without one.
THEOREM CertificatesJustified == Spec => []CertificatesAgree
<1>1. IInv => CertificatesAgree BY DEF IInv, CertificateInv, CertificatesAgree
<1> QED BY <1>1, Invariance, PTL

\* No step makes a revoked certificate valid again.
THEOREM RevocationPermanent == Spec => RevocationStays
<1>1. ASSUME [Next]_vars, certificate = "revoked" PROVE certificate' = "revoked"
  <2>1. "revoked" # None BY CertificateAssumption DEF Certificate
  <2> QED
    BY <1>1, <2>1
    DEF Next, vars, certificateVars, CertificateNext, Recalculate, FetchProgress,
        ReadResults, StoreDecision, Issued, Open, Link, Revoke, GiveUp
<1>2. [Next]_vars => [certificate = "revoked" => certificate' = "revoked"]_vars BY <1>1
<1> QED BY <1>2, PTL DEF Spec, RevocationStays
=============================================================================
