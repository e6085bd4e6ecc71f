----------------------- MODULE EnrollmentAccessProofs -----------------------
(***************************************************************************)
(* Proofs about EnrollmentAccess, for any students, requests and jobs and  *)
(* any bounds: its types, that access never outlives an enrollment, that   *)
(* changes which come one after the other leave status, history and access *)
(* in agreement, and that jobs say what they did.                          *)
(***************************************************************************)
EXTENDS EnrollmentAccess, SequenceTheorems, TLAPS

\* A grant ends with the enrollment, where the enrollment has an end.
EndsWith(g, e) == e.expires # Never => g.until = e.expires

Grants ==
    \A s \in Student : enrollment[s] # Absent => EndsWith(grant[s], enrollment[s])

\* A status is changed for a student who is enrolled, and the fetched copy of the
\* grant ends with the enrollment too.
Changes ==
    \A w \in Worker : worker[w].op = "transition" =>
        /\ enrollment[worker[w].student] # Absent
        /\ worker[w].step = "fetched" =>
              EndsWith(worker[w].grant, enrollment[worker[w].student])

\* A job that runs has its row.
Jobs == \A w \in Worker : worker[w].op = "job" => job[worker[w].job] # Absent

LastEntry(s) == history[s][Len(history[s])]

\* Of a student whose status changes did not overlap, one request at most is
\* changing the status; status, history and access agree as far as it has come.
InStep(s) ==
    /\ Len(history[s]) # 0
    /\ \A v, w \in Worker : Changing(v, s) /\ Changing(w, s) => v = w
    /\ \A w \in Worker : Changing(w, s) =>
          /\ enrollment[s].status = worker[w].to
          /\ worker[w].step # "saved" => LastEntry(s) = worker[w].to
    /\ Settled(s) =>
          /\ LastEntry(s) = enrollment[s].status
          /\ grant[s].status = "active" => enrollment[s].status = "active"

Serial == \A s \in Student \ torn : enrollment[s] # Absent => InStep(s)

IInv == TypeOK /\ Grants /\ Changes /\ Jobs /\ Serial

-----------------------------------------------------------------------------
(* Types *)

Transition == [op : {"transition"}, step : {"saved", "recorded"},
               student : Student, to : Status]
Fetched == [op : {"transition"}, step : {"fetched"},
            student : Student, to : Status, grant : Grant]
JobRun == [op : {"job"}, job : Job, todo : List, failed : Nat]

\* The fields of a request follow from what it does.
LEMMA RequestFields ==
    ASSUME TypeOK, NEW w \in Worker
    PROVE  /\ worker[w] \in {Idle} \cup Transition \cup Fetched \cup JobRun
           /\ worker[w].op = "job" => worker[w] \in JobRun
           /\ worker[w].op = "transition" =>
                /\ worker[w].student \in Student /\ worker[w].to \in Status
                /\ worker[w] \in Transition \cup Fetched
           /\ worker[w].op = "transition" /\ worker[w].step = "fetched" =>
                worker[w] \in Fetched
           /\ worker[w].op = "transition" /\ worker[w].step \in {"saved", "recorded"} =>
                worker[w] \in Transition
BY DEF TypeOK, WorkerState, Idle, Transition, Fetched, JobRun

\* A list and what is left of it.
LEMMA ListTail ==
    ASSUME NEW l \in List, l # <<>>
    PROVE  Head(l) \in Student /\ Tail(l) \in List
<1>1. PICK n \in 0 .. MaxList : l \in [1 .. n -> Student] BY DEF List
<1>2. n \in Nat /\ n <= MaxList BY <1>1, BoundsAssumption
<1>3. l \in Seq(Student) /\ Len(l) = n BY <1>1, <1>2
<1>4. n # 0 BY <1>3
<1>5. Head(l) \in Student BY <1>3
<1>6. /\ Tail(l) \in Seq(Student)
      /\ Len(Tail(l)) = n - 1
  BY <1>2, <1>3, <1>4
<1>7. Tail(l) \in [1 .. (n - 1) -> Student] BY <1>6, LenProperties
<1>8. n - 1 \in 0 .. MaxList BY <1>2, <1>4, BoundsAssumption
<1> QED BY <1>5, <1>7, <1>8 DEF List

LEMMA InitIInv == Init => IInv
<1> SUFFICES ASSUME Init PROVE IInv OBVIOUS
<1>1. \A w \in Worker : worker[w] = Idle BY DEF Init
<1>2. TypeOK
  BY BoundsAssumption DEF Init, TypeOK, WorkerState, Absent
<1> QED BY <1>1, <1>2 DEF Init, IInv, Grants, Changes, Jobs, Serial, InStep, Idle, Absent

-----------------------------------------------------------------------------
(* Steps *)

\* A step that changes neither enrollments, grants, histories nor what is torn
\* keeps what is said of them, if it moves no request into or out of a change.
LEMMA QuietStep ==
    ASSUME IInv, UNCHANGED <<enrollment, grant, history>>, torn' = torn,
           \A v \in Worker : worker[v].op = "transition" \/ worker'[v].op = "transition"
                => worker'[v] = worker[v]
    PROVE  Grants' /\ Changes' /\ Serial'
<1>1. Grants' BY DEF IInv, Grants
<1>2. Changes' BY DEF IInv, Changes
<1>3. \A v \in Worker, s \in Student : Changing(v, s)' <=> Changing(v, s)
  BY DEF Changing
<1>4. \A s \in Student : /\ Settled(s)' <=> Settled(s)
                         /\ LastEntry(s)' = LastEntry(s)
  BY <1>3 DEF Settled, LastEntry
<1>5. \A v \in Worker, s \in Student : Changing(v, s) => worker'[v] = worker[v]
  BY DEF Changing
<1>6. Serial' BY <1>3, <1>4, <1>5 DEF IInv, Serial, InStep
<1> QED BY <1>1, <1>2, <1>6

LEMMA TickStep == IInv /\ Tick => IInv'
<1> SUFFICES ASSUME IInv, Tick PROVE IInv' OBVIOUS
<1>1. TypeOK' BY BoundsAssumption DEF IInv, TypeOK, Tick
<1>2. Jobs' BY DEF IInv, Jobs, Tick
<1>3. Grants' /\ Changes' /\ Serial' BY QuietStep DEF Tick
<1> QED BY <1>1, <1>2, <1>3 DEF IInv

LEMMA StartJobStep ==
    ASSUME IInv, NEW w \in Worker, NEW j \in Job, NEW students \in List,
           StartJob(w, j, students)
    PROVE  IInv'
<1> DEFINE new == [op |-> "job", job |-> j, todo |-> students, failed |-> 0]
           record == [status |-> "processing", students |-> students]
<1>1. new \in JobRun BY DEF JobRun
<1>2. /\ worker' = [worker EXCEPT ![w] = new] /\ worker[w] = Idle
      /\ job' = [job EXCEPT ![j] = record] /\ record # Absent
  BY DEF StartJob, Absent
<1>3. record \in [status : {"processing", "completed", "failed"}, students : List]
  OBVIOUS
<1>4. new.op = "job" /\ new.job = j OBVIOUS
<1> HIDE DEF new, record
<1>5. TypeOK'
  <2>1. worker' \in [Worker -> WorkerState]
    BY <1>1, <1>2 DEF IInv, TypeOK, WorkerState, JobRun
  <2>2. job' \in [Job -> {Absent} \cup
            [status : {"processing", "completed", "failed"}, students : List]]
    BY <1>2, <1>3 DEF IInv, TypeOK
  <2> QED BY <2>1, <2>2 DEF IInv, TypeOK, StartJob
<1>6. \A v \in Worker : worker'[v] = IF v = w THEN new ELSE worker[v]
  BY <1>2 DEF IInv, TypeOK
<1>7. Jobs' BY <1>2, <1>4, <1>6 DEF IInv, Jobs, TypeOK
<1>8. Grants' /\ Changes' /\ Serial'
  BY <1>2, <1>4, <1>6, QuietStep DEF StartJob, Idle
<1> QED BY <1>5, <1>7, <1>8 DEF IInv

LEMMA FinishJobStep ==
    ASSUME IInv, NEW w \in Worker, FinishJob(w)
    PROVE  IInv'
<1> DEFINE j == worker[w].job
           end == IF worker[w].failed = 0 THEN "completed" ELSE "failed"
<1>1. worker[w].op = "job" /\ j \in Job /\ job[j] # Absent
  BY RequestFields DEF IInv, Jobs, FinishJob, JobRun
<1>2. /\ job' = [job EXCEPT ![j].status = end]
      /\ worker' = [worker EXCEPT ![w] = Idle]
  BY DEF FinishJob
<1>3. end \in {"completed", "failed"} OBVIOUS
<1> HIDE DEF end
<1>4. job[j] \in [status : {"processing", "completed", "failed"}, students : List]
  BY <1>1 DEF IInv, TypeOK
<1>5. [job[j] EXCEPT !.status = end]
        \in [status : {"processing", "completed", "failed"}, students : List]
  BY <1>3, <1>4
<1>6. job' \in [Job -> {Absent} \cup
            [status : {"processing", "completed", "failed"}, students : List]]
  BY <1>2, <1>5 DEF IInv, TypeOK
<1>7. [job[j] EXCEPT !.status = end] # Absent
  <2>1. [job[j] EXCEPT !.status = end].status = end BY <1>4
  <2> QED BY <1>3, <2>1 DEF Absent
<1>8. TypeOK'
  <2>1. worker' \in [Worker -> WorkerState] BY <1>2 DEF IInv, TypeOK, WorkerState
  <2> QED BY <1>6, <2>1 DEF IInv, TypeOK, FinishJob
<1>9. \A v \in Worker : worker'[v] = IF v = w THEN Idle ELSE worker[v]
  BY <1>2 DEF IInv, TypeOK
<1>10. Jobs'
  <2>1. \A i \in Job : job[i] # Absent => job'[i] # Absent
    BY <1>2, <1>7 DEF IInv, TypeOK
  <2> SUFFICES ASSUME NEW v \in Worker, worker'[v].op = "job"
               PROVE  job'[worker'[v].job] # Absent
    BY DEF Jobs
  <2>2. worker'[v] = worker[v] BY <1>9 DEF Idle
  <2>3. worker[v].job \in Job BY <2>2, RequestFields DEF IInv, JobRun
  <2> QED BY <2>1, <2>2, <2>3 DEF IInv, Jobs
<1>11. Grants' /\ Changes' /\ Serial'
  BY <1>1, <1>9, QuietStep DEF FinishJob, Idle
<1> QED BY <1>8, <1>10, <1>11 DEF IInv

\* A student who is enrolled now had no status to change before.
LEMMA EnrollStep ==
    ASSUME IInv, NEW s \in Student, NEW expires \in Date, NEW j \in Job \cup {NoJob},
           Enroll(s, expires, j), torn' = torn,
           \A v \in Worker : worker[v].op = "transition" \/ worker'[v].op = "transition"
                => worker'[v] = worker[v]
    PROVE  /\ enrollment' \in [Student -> Enrollment \cup {Absent}]
           /\ grant' \in [Student -> Grant \cup {Absent}]
           /\ \A t \in Student : grant'[t] = Absent <=> enrollment'[t] = Absent
           /\ history' \in [Student -> Seq(Status)]
           /\ enrolledBy' \in [Student -> Job \cup {NoJob}]
           /\ Grants' /\ Changes' /\ Serial'
<1> DEFINE e == [status |-> "active", expires |-> expires]
           g == [status |-> "active", until |-> expires]
<1>1. e \in Enrollment /\ g \in Grant BY DEF Enrollment, Grant, Status, GrantStatus
<1>2. e # Absent /\ g # Absent /\ EndsWith(g, e) BY DEF Absent, EndsWith
<1>3. /\ enrollment[s] = Absent
      /\ enrollment' = [enrollment EXCEPT ![s] = e]
      /\ grant' = [grant EXCEPT ![s] = g]
      /\ history' = [history EXCEPT ![s] = Append(@, "active")]
      /\ enrolledBy' = [enrolledBy EXCEPT ![s] = j]
  BY DEF Enroll
<1>4. e.status = "active" OBVIOUS
<1> HIDE DEF e, g
<1>5. history[s] \in Seq(Status) /\ "active" \in Status BY DEF IInv, TypeOK, Status
<1>6. /\ Append(history[s], "active") \in Seq(Status)
      /\ Len(Append(history[s], "active")) = Len(history[s]) + 1
      /\ Append(history[s], "active")[Len(history[s]) + 1] = "active"
      /\ Len(history[s]) \in Nat
  BY <1>5
<1>7. /\ enrollment' \in [Student -> Enrollment \cup {Absent}]
      /\ grant' \in [Student -> Grant \cup {Absent}]
      /\ history' \in [Student -> Seq(Status)]
      /\ enrolledBy' \in [Student -> Job \cup {NoJob}]
  BY <1>1, <1>3, <1>6 DEF IInv, TypeOK
<1>8. \A t \in Student :
            /\ enrollment'[t] = IF t = s THEN e ELSE enrollment[t]
            /\ grant'[t] = IF t = s THEN g ELSE grant[t]
            /\ history'[t] = IF t = s THEN Append(history[s], "active") ELSE history[t]
  BY <1>3 DEF IInv, TypeOK
<1>9. \A t \in Student : grant'[t] = Absent <=> enrollment'[t] = Absent
  BY <1>2, <1>8 DEF IInv, TypeOK
<1>10. Grants' BY <1>2, <1>8 DEF IInv, Grants
<1>11. \A v \in Worker : worker[v].op = "transition" =>
            worker[v].student \in Student /\ worker[v].student # s
  BY <1>3, RequestFields DEF IInv, Changes
<1>12. Changes' BY <1>8, <1>11 DEF IInv, Changes
<1>13. \A v \in Worker, t \in Student : Changing(v, t)' <=> Changing(v, t)
  BY DEF Changing
<1>14. \A v \in Worker : ~Changing(v, s) BY <1>11 DEF Changing
<1>15. Serial'
  <2> SUFFICES ASSUME NEW t \in Student \ torn, enrollment'[t] # Absent
               PROVE  InStep(t)'
    BY DEF Serial
  <2>1. CASE t = s
    <3>1. history'[t] = Append(history[s], "active") BY <1>8, <2>1
    <3>2. Len(history'[t]) = Len(history[s]) + 1 /\ Len(history'[t]) # 0
      BY <1>6, <3>1
    <3>3. LastEntry(t)' = "active" BY <1>6, <3>1, <3>2 DEF LastEntry
    <3> QED BY <1>4, <1>8, <1>13, <1>14, <2>1, <3>2, <3>3 DEF InStep, Settled
  <2>2. CASE t # s
    <3>1. /\ enrollment'[t] = enrollment[t] /\ grant'[t] = grant[t]
          /\ history'[t] = history[t]
      BY <1>8, <2>2
    <3>2. LastEntry(t)' = LastEntry(t) /\ (Settled(t)' <=> Settled(t))
      BY <1>13, <3>1 DEF LastEntry, Settled
    <3>3. \A w \in Worker : Changing(w, t) => worker'[w] = worker[w] BY DEF Changing
    <3> QED BY <1>13, <3>1, <3>2, <3>3 DEF IInv, Serial, InStep
  <2> QED BY <2>1, <2>2
<1> QED BY <1>7, <1>9, <1>10, <1>12, <1>15

LEMMA CreateStep ==
    ASSUME IInv, NEW s \in Student, NEW expires \in 1 .. Never, Create(s, expires)
    PROVE  IInv'
<1>1. expires \in Date BY BoundsAssumption DEF Date, Never
<1>2. /\ enrollment' \in [Student -> Enrollment \cup {Absent}]
      /\ grant' \in [Student -> Grant \cup {Absent}]
      /\ \A t \in Student : grant'[t] = Absent <=> enrollment'[t] = Absent
      /\ history' \in [Student -> Seq(Status)]
      /\ enrolledBy' \in [Student -> Job \cup {NoJob}]
      /\ Grants' /\ Changes' /\ Serial'
  BY <1>1, EnrollStep DEF Create
<1>3. TypeOK' BY <1>2 DEF IInv, TypeOK, Create
<1>4. Jobs' BY DEF IInv, Jobs, Create
<1> QED BY <1>2, <1>3, <1>4 DEF IInv

\* What a round of a job leaves of its request.
LEMMA JobRunRest ==
    ASSUME NEW r \in JobRun, NEW rest \in List
    PROVE  LET enrolled == [r EXCEPT !.todo = rest]
               failing == [r EXCEPT !.todo = rest, !.failed = r.failed + 1]
           IN  /\ enrolled \in JobRun /\ enrolled.op = "job" /\ enrolled.job = r.job
               /\ failing \in JobRun /\ failing.op = "job" /\ failing.job = r.job
<1>1. r.failed + 1 \in Nat BY DEF JobRun
<1> DEFINE n == r.failed + 1
<1> HIDE DEF n
<1>2. /\ [r EXCEPT !.todo = rest] \in JobRun
      /\ [r EXCEPT !.todo = rest].op = "job"
      /\ [r EXCEPT !.todo = rest].job = r.job
  BY DEF JobRun
<1>3. /\ [r EXCEPT !.todo = rest, !.failed = n] \in JobRun
      /\ [r EXCEPT !.todo = rest, !.failed = n].op = "job"
      /\ [r EXCEPT !.todo = rest, !.failed = n].job = r.job
  BY <1>1 DEF JobRun, n
<1> QED BY <1>2, <1>3 DEF n

LEMMA RunJobStep ==
    ASSUME IInv, NEW w \in Worker, RunJob(w)
    PROVE  IInv'
<1> DEFINE s == Head(worker[w].todo)
           rest == Tail(worker[w].todo)
<1>1. worker[w].op = "job" /\ worker[w] \in JobRun /\ worker[w].todo # <<>>
  BY RequestFields DEF IInv, RunJob
<1>2. s \in Student /\ rest \in List BY <1>1, ListTail DEF JobRun
<1>3. PICK new \in JobRun : /\ worker' = [worker EXCEPT ![w] = new]
                            /\ new.op = "job" /\ new.job = worker[w].job
  <2>1. \/ worker' = [worker EXCEPT ![w] = [worker[w] EXCEPT !.todo = rest]]
        \/ worker' = [worker EXCEPT ![w] =
                [worker[w] EXCEPT !.todo = rest, !.failed = worker[w].failed + 1]]
    BY DEF RunJob, CountFailure
  <2> DEFINE r == worker[w]
             enrolled == [r EXCEPT !.todo = rest]
             failing == [r EXCEPT !.todo = rest, !.failed = r.failed + 1]
  <2>2. r.op = "job" /\ r \in JobRun /\ rest \in List BY <1>1, <1>2
  <2> HIDE DEF rest, r
  <2>3. /\ enrolled \in JobRun /\ enrolled.op = "job" /\ enrolled.job = r.job
        /\ failing \in JobRun /\ failing.op = "job" /\ failing.job = r.job
    BY <2>2, JobRunRest
  <2>4. \/ worker' = [worker EXCEPT ![w] = enrolled]
        \/ worker' = [worker EXCEPT ![w] = failing]
    BY <2>1 DEF r
  <2> HIDE DEF enrolled, failing
  <2>5. CASE worker' = [worker EXCEPT ![w] = enrolled] BY <2>3, <2>5 DEF r
  <2>6. CASE worker' = [worker EXCEPT ![w] = failing] BY <2>3, <2>6 DEF r
  <2> QED BY <2>4, <2>5, <2>6
<1>4. \A v \in Worker : worker'[v] = IF v = w THEN new ELSE worker[v]
  BY <1>3 DEF IInv, TypeOK
<1>5. \A v \in Worker : worker[v].op = "transition" \/ worker'[v].op = "transition"
            => worker'[v] = worker[v]
  BY <1>1, <1>3, <1>4
<1>6. /\ enrollment' \in [Student -> Enrollment \cup {Absent}]
      /\ grant' \in [Student -> Grant \cup {Absent}]
      /\ \A t \in Student : grant'[t] = Absent <=> enrollment'[t] = Absent
      /\ history' \in [Student -> Seq(Status)]
      /\ enrolledBy' \in [Student -> Job \cup {NoJob}]
      /\ Grants' /\ Changes' /\ Serial'
  <2>1. CASE Enroll(s, Never, worker[w].job)
    <3>1. Never \in Date BY BoundsAssumption DEF Date, Never
    <3>2. worker[w].job \in Job BY <1>1 DEF JobRun
    <3> HIDE DEF s
    <3> QED BY <1>2, <1>5, <2>1, <3>1, <3>2, EnrollStep DEF RunJob
  <2>2. CASE UNCHANGED <<enrollment, grant, history, enrolledBy>>
    <3>1. Grants' /\ Changes' /\ Serial' BY <1>5, <2>2, QuietStep DEF RunJob
    <3> QED BY <2>2, <3>1 DEF IInv, TypeOK
  <2> QED BY <2>1, <2>2 DEF RunJob
<1>7. worker' \in [Worker -> WorkerState]
  BY <1>3 DEF IInv, TypeOK, WorkerState, JobRun
<1>8. TypeOK' BY <1>6, <1>7 DEF IInv, TypeOK, RunJob
<1>9. Jobs' BY <1>1, <1>3, <1>4 DEF IInv, Jobs, RunJob
<1> QED BY <1>6, <1>8, <1>9 DEF IInv

-----------------------------------------------------------------------------
(* Changes of a status *)

LEMMA SaveStatusStep ==
    ASSUME IInv, NEW w \in Worker, NEW s \in Student, NEW to \in Status,
           SaveStatus(w, s, to)
    PROVE  IInv'
<1> DEFINE new == [op |-> "transition", step |-> "saved", student |-> s, to |-> to]
<1>1. /\ worker[w] = Idle /\ enrollment[s] # Absent
      /\ worker' = [worker EXCEPT ![w] = new]
      /\ enrollment' = [enrollment EXCEPT ![s].status = to]
      /\ torn' = IF \E v \in Worker : Changing(v, s) THEN torn \cup {s} ELSE torn
      /\ UNCHANGED <<now, grant, history, job, enrolledBy, crashes>>
  BY DEF SaveStatus
<1>2. /\ new \in Transition /\ new.op = "transition" /\ new.step = "saved"
      /\ new.student = s /\ new.to = to
  BY DEF Transition
<1> HIDE DEF new
<1>3. enrollment[s] \in Enrollment BY <1>1 DEF IInv, TypeOK
<1>4. /\ [enrollment[s] EXCEPT !.status = to] \in Enrollment
      /\ [enrollment[s] EXCEPT !.status = to].status = to
      /\ [enrollment[s] EXCEPT !.status = to].expires = enrollment[s].expires
  BY <1>3 DEF Enrollment
<1>5. \A t \in Student :
            /\ t # s => enrollment'[t] = enrollment[t]
            /\ enrollment'[s] \in Enrollment /\ enrollment'[s].status = to
            /\ enrollment'[s].expires = enrollment[s].expires
  BY <1>1, <1>4 DEF IInv, TypeOK
<1>6. \A e \in Enrollment : e # Absent
  BY DEF Enrollment, Absent, Status
<1>7. \A v \in Worker : worker'[v] = IF v = w THEN new ELSE worker[v]
  BY <1>1 DEF IInv, TypeOK
<1>8. TypeOK'
  <2>1. worker' \in [Worker -> WorkerState]
    BY <1>1, <1>2 DEF IInv, TypeOK, WorkerState, Transition
  <2>2. enrollment' \in [Student -> Enrollment \cup {Absent}]
    BY <1>1, <1>4 DEF IInv, TypeOK
  <2>3. \A t \in Student : grant'[t] = Absent <=> enrollment'[t] = Absent
    BY <1>1, <1>5, <1>6 DEF IInv, TypeOK
  <2>4. torn' \subseteq Student BY <1>1 DEF IInv, TypeOK
  <2> QED BY <1>1, <2>1, <2>2, <2>3, <2>4 DEF IInv, TypeOK
<1>9. Grants'
  BY <1>1, <1>5 DEF IInv, Grants, EndsWith
<1>10. Changes'
  <2> SUFFICES ASSUME NEW v \in Worker, worker'[v].op = "transition"
               PROVE  /\ enrollment'[worker'[v].student] # Absent
                      /\ worker'[v].step = "fetched" =>
                            EndsWith(worker'[v].grant, enrollment'[worker'[v].student])
    BY DEF Changes, EndsWith
  <2>1. CASE v = w BY <1>2, <1>5, <1>6, <1>7, <2>1
  <2>2. CASE v # w
    <3>1. worker'[v] = worker[v] BY <1>7, <2>2
    <3>2. worker[v].student \in Student BY <3>1, RequestFields DEF IInv
    <3> QED BY <1>5, <1>6, <3>1, <3>2 DEF IInv, Changes, EndsWith
  <2> QED BY <2>1, <2>2
<1>11. Jobs' BY <1>1, <1>2, <1>7 DEF IInv, Jobs
<1>12. Serial'
  <2> SUFFICES ASSUME NEW t \in Student \ torn', enrollment'[t] # Absent
               PROVE  InStep(t)'
    BY DEF Serial
  <2>1. t \notin torn BY <1>1
  <2>2. CASE t = s
    <3>1. \A v \in Worker : ~Changing(v, s) BY <1>1, <2>2
    <3>2. \A v \in Worker : Changing(v, s)' <=> v = w
      BY <1>2, <1>7, <3>1 DEF Changing
    <3>3. ~Settled(t)' BY <2>2, <3>2 DEF Settled
    <3>4. Len(history'[t]) # 0 BY <1>1, <2>1, <2>2 DEF IInv, Serial, InStep
    <3> QED BY <1>2, <1>5, <1>7, <2>2, <3>2, <3>3, <3>4 DEF InStep
  <2>3. CASE t # s
    <3>1. \A v \in Worker : Changing(v, t)' <=> Changing(v, t)
      BY <1>1, <1>2, <1>7, <2>3 DEF Changing, Idle
    <3>2. \A v \in Worker : Changing(v, t) => worker'[v] = worker[v]
      BY <1>1, <1>7 DEF Changing, Idle
    <3>3. /\ enrollment'[t] = enrollment[t] /\ grant'[t] = grant[t]
          /\ history'[t] = history[t]
      BY <1>1, <1>5, <2>3
    <3>4. LastEntry(t)' = LastEntry(t) /\ (Settled(t)' <=> Settled(t))
      BY <3>1, <3>3 DEF LastEntry, Settled
    <3> QED BY <2>1, <3>1, <3>2, <3>3, <3>4 DEF IInv, Serial, InStep
  <2> QED BY <2>2, <2>3
<1> QED BY <1>8, <1>9, <1>10, <1>11, <1>12 DEF IInv

\* A step inside a change leaves the other students as they are.
LEMMA OthersSerial ==
    ASSUME IInv, NEW w \in Worker, NEW s \in Student, Changing(w, s),
           enrollment' = enrollment,
           \A t \in Student : t # s => grant'[t] = grant[t] /\ history'[t] = history[t],
           \A v \in Worker : v # w => worker'[v] = worker[v],
           worker'[w].op = "transition" => worker'[w].student = s,
           NEW t \in Student \ torn, t # s, enrollment[t] # Absent
    PROVE  InStep(t)'
<1>1. \A v \in Worker : Changing(v, t)' <=> Changing(v, t) BY DEF Changing
<1>2. \A v \in Worker : Changing(v, t) => worker'[v] = worker[v] BY DEF Changing
<1>3. LastEntry(t)' = LastEntry(t) /\ (Settled(t)' <=> Settled(t))
  BY <1>1 DEF LastEntry, Settled
<1> QED BY <1>1, <1>2, <1>3 DEF IInv, Serial, InStep

LEMMA RecordHistoryStep ==
    ASSUME IInv, NEW w \in Worker, RecordHistory(w)
    PROVE  IInv'
<1> DEFINE s == worker[w].student
           new == [worker[w] EXCEPT !.step = "recorded"]
<1>1. /\ worker[w].op = "transition" /\ worker[w].step = "saved"
      /\ worker' = [worker EXCEPT ![w] = new]
      /\ history' = [history EXCEPT ![s] = Append(@, worker[w].to)]
      /\ UNCHANGED <<now, enrollment, grant, job, enrolledBy, torn, crashes>>
  BY DEF RecordHistory, At
<1>2. /\ worker[w] \in Transition /\ s \in Student /\ worker[w].to \in Status
  BY <1>1, RequestFields DEF IInv
<1>3. /\ new \in Transition /\ new.op = "transition" /\ new.step = "recorded"
      /\ new.student = s /\ new.to = worker[w].to
  BY <1>2 DEF Transition
<1> HIDE DEF new
<1>4. \A v \in Worker : worker'[v] = IF v = w THEN new ELSE worker[v]
  BY <1>1 DEF IInv, TypeOK
<1>5. history[s] \in Seq(Status) BY <1>2 DEF IInv, TypeOK
<1>6. /\ Append(history[s], worker[w].to) \in Seq(Status)
      /\ Len(Append(history[s], worker[w].to)) = Len(history[s]) + 1
      /\ Append(history[s], worker[w].to)[Len(history[s]) + 1] = worker[w].to
      /\ Len(history[s]) \in Nat
  BY <1>2, <1>5
<1>7. \A t \in Student : history'[t] =
            IF t = s THEN Append(history[s], worker[w].to) ELSE history[t]
  BY <1>1 DEF IInv, TypeOK
<1>8. TypeOK'
  <2>1. worker' \in [Worker -> WorkerState]
    BY <1>1, <1>3 DEF IInv, TypeOK, WorkerState, Transition
  <2>2. history' \in [Student -> Seq(Status)] BY <1>1, <1>6 DEF IInv, TypeOK
  <2> QED BY <1>1, <2>1, <2>2 DEF IInv, TypeOK
<1>9. Grants' BY <1>1 DEF IInv, Grants
<1>10. Changes' BY <1>1, <1>3, <1>4 DEF IInv, Changes
<1>11. Jobs' BY <1>1, <1>3, <1>4 DEF IInv, Jobs
<1>12. Changing(w, s) BY <1>1 DEF Changing
<1>13. Serial'
  <2> SUFFICES ASSUME NEW t \in Student \ torn', enrollment'[t] # Absent
               PROVE  InStep(t)'
    BY DEF Serial
  <2>1. t \notin torn /\ enrollment[t] # Absent BY <1>1
  <2>2. CASE t = s
    <3>1. \A v \in Worker : Changing(v, s) => v = w
      BY <1>12, <2>1, <2>2 DEF IInv, Serial, InStep
    <3>2. \A v \in Worker : Changing(v, t)' <=> v = w
      BY <1>3, <1>4, <2>2, <3>1 DEF Changing
    <3>3. ~Settled(t)' BY <2>2, <3>2 DEF Settled
    <3>4. history'[t] = Append(history[s], worker[w].to) BY <1>7, <2>2
    <3>5. Len(history'[t]) = Len(history[s]) + 1 /\ Len(history'[t]) # 0
      BY <1>6, <3>4
    <3>6. LastEntry(t)' = worker[w].to BY <1>6, <3>4, <3>5 DEF LastEntry
    <3>7. enrollment'[t].status = worker[w].to
      BY <1>1, <1>12, <2>1, <2>2 DEF IInv, Serial, InStep
    <3> QED BY <1>3, <1>4, <2>2, <3>2, <3>3, <3>5, <3>6, <3>7 DEF InStep
  <2>3. CASE t # s
    <3> HIDE DEF s
    <3> QED BY <1>1, <1>2, <1>3, <1>4, <1>7, <1>12, <2>1, <2>3, OthersSerial
  <2> QED BY <2>2, <2>3
<1> QED BY <1>8, <1>9, <1>10, <1>11, <1>13 DEF IInv

LEMMA FetchGrantStep ==
    ASSUME IInv, NEW w \in Worker, FetchGrant(w)
    PROVE  IInv'
<1> DEFINE s == worker[w].student
           new == [op |-> "transition", step |-> "fetched", student |-> s,
                   to |-> worker[w].to, grant |-> grant[s]]
<1>1. /\ worker[w].op = "transition" /\ worker[w].step = "recorded"
      /\ worker' = [worker EXCEPT ![w] = new]
      /\ UNCHANGED <<now, enrollment, grant, history, job, enrolledBy, torn, crashes>>
  BY DEF FetchGrant, At
<1>2. /\ s \in Student /\ worker[w].to \in Status /\ enrollment[s] # Absent
  BY <1>1, RequestFields DEF IInv, Changes
<1>3. grant[s] \in Grant /\ EndsWith(grant[s], enrollment[s])
  BY <1>2 DEF IInv, TypeOK, Grants
<1>4. /\ new \in Fetched /\ new.op = "transition" /\ new.step = "fetched"
      /\ new.student = s /\ new.to = worker[w].to /\ new.grant = grant[s]
  BY <1>2, <1>3 DEF Fetched
<1> HIDE DEF new
<1>5. \A v \in Worker : worker'[v] = IF v = w THEN new ELSE worker[v]
  BY <1>1 DEF IInv, TypeOK
<1>6. TypeOK'
  <2>1. worker' \in [Worker -> WorkerState]
    BY <1>1, <1>4 DEF IInv, TypeOK, WorkerState, Fetched
  <2> QED BY <1>1, <2>1 DEF IInv, TypeOK
<1>7. Grants' BY <1>1 DEF IInv, Grants
<1>8. Changes' BY <1>1, <1>2, <1>3, <1>4, <1>5 DEF IInv, Changes, EndsWith
<1>9. Jobs' BY <1>1, <1>4, <1>5 DEF IInv, Jobs
<1>10. Serial'
  <2> SUFFICES ASSUME NEW t \in Student \ torn', enrollment'[t] # Absent
               PROVE  InStep(t)'
    BY DEF Serial
  <2>1. InStep(t) BY <1>1 DEF IInv, Serial
  <2>2. \A v \in Worker : Changing(v, t)' <=> Changing(v, t)
    BY <1>1, <1>4, <1>5 DEF Changing
  <2>3. \A v \in Worker : worker[v].op = "transition" =>
            /\ worker'[v].to = worker[v].to
            /\ worker'[v].step # "saved" => worker[v].step # "saved"
    BY <1>1, <1>4, <1>5
  <2>4. LastEntry(t)' = LastEntry(t) /\ (Settled(t)' <=> Settled(t))
    BY <1>1, <2>2 DEF LastEntry, Settled
  <2>5. \A v \in Worker : Changing(v, t) =>
            /\ enrollment[t].status = worker'[v].to
            /\ worker'[v].step # "saved" => LastEntry(t) = worker'[v].to
    BY <2>1, <2>3 DEF InStep, Changing
  <2> QED BY <1>1, <2>1, <2>2, <2>4, <2>5 DEF InStep
<1> QED BY <1>6, <1>7, <1>8, <1>9, <1>10 DEF IInv

\* What sync_access_grant makes of a grant ends when the grant did, where that had
\* an end, and is active for an active enrollment only.
LEMMA SyncedGrant ==
    ASSUME TypeOK, NEW g \in Grant, NEW to \in Status
    PROVE  /\ Synced(g, to) \in Grant
           /\ g.until # Never => Synced(g, to).until = g.until
           /\ Synced(g, to).status = "active" => to = "active"
<1>1. g.until \in Date /\ Ended(g) \in Date /\ (g.until # Never => Ended(g) = g.until)
  BY BoundsAssumption DEF Grant, Ended, Date, Never, TypeOK
<1> HIDE DEF Date, Never, Ended
<1>2. CASE to = "active" BY <1>1, <1>2 DEF Synced, Grant, GrantStatus
<1>3. CASE to = "expired" BY <1>1, <1>3 DEF Synced, Grant, GrantStatus
<1>4. CASE to = "suspended" BY <1>1, <1>4 DEF Synced, Grant, GrantStatus
<1>5. CASE to \in {"cancelled", "completed"}
  BY <1>1, <1>5 DEF Synced, Grant, GrantStatus
<1> QED BY <1>2, <1>3, <1>4, <1>5 DEF Status

LEMMA SaveGrantStep ==
    ASSUME IInv, NEW w \in Worker, SaveGrant(w)
    PROVE  IInv'
<1> DEFINE s == worker[w].student
           g == worker[w].grant
           new == Synced(g, worker[w].to)
<1>1. /\ worker[w].op = "transition" /\ worker[w].step = "fetched"
      /\ worker' = [worker EXCEPT ![w] = Idle]
      /\ grant' = [grant EXCEPT ![s] = new]
      /\ UNCHANGED <<now, enrollment, history, job, enrolledBy, torn, crashes>>
  BY DEF SaveGrant, At
<1>2. worker[w] \in Fetched BY <1>1, RequestFields DEF IInv
<1>3. s \in Student /\ worker[w].to \in Status /\ g \in Grant
  BY <1>2 DEF Fetched
<1>4. enrollment[s] # Absent /\ EndsWith(g, enrollment[s])
  BY <1>1 DEF IInv, Changes
<1>5. /\ new \in Grant
      /\ g.until # Never => new.until = g.until
      /\ new.status = "active" => worker[w].to = "active"
  BY <1>3, SyncedGrant DEF IInv
<1> HIDE DEF new
<1>6. new # Absent
  <2>1. \A h \in Grant : h.status \in GrantStatus BY DEF Grant
  <2> QED BY <1>5, <2>1 DEF GrantStatus, Absent
<1>7. EndsWith(new, enrollment[s]) BY <1>4, <1>5 DEF EndsWith
<1>8. /\ \A v \in Worker : worker'[v] = IF v = w THEN Idle ELSE worker[v]
      /\ \A t \in Student : grant'[t] = IF t = s THEN new ELSE grant[t]
  BY <1>1 DEF IInv, TypeOK
<1>9. TypeOK'
  <2>1. worker' \in [Worker -> WorkerState] BY <1>1 DEF IInv, TypeOK, WorkerState
  <2>2. grant' \in [Student -> Grant \cup {Absent}] BY <1>1, <1>5 DEF IInv, TypeOK
  <2>3. \A t \in Student : grant'[t] = Absent <=> enrollment'[t] = Absent
    BY <1>1, <1>4, <1>6, <1>8 DEF IInv, TypeOK
  <2> QED BY <1>1, <2>1, <2>2, <2>3 DEF IInv, TypeOK
<1>10. Grants' BY <1>1, <1>7, <1>8 DEF IInv, Grants, EndsWith
<1>11. Changes' BY <1>1, <1>8 DEF IInv, Changes, EndsWith, Idle
<1>12. Jobs' BY <1>1, <1>8 DEF IInv, Jobs, Idle
<1>13. Changing(w, s) BY <1>1 DEF Changing
<1>14. Serial'
  <2> SUFFICES ASSUME NEW t \in Student \ torn', enrollment'[t] # Absent
               PROVE  InStep(t)'
    BY DEF Serial
  <2>1. t \notin torn /\ enrollment[t] # Absent BY <1>1
  <2>2. CASE t = s
    <3>1. InStep(t) BY <2>1 DEF IInv, Serial
    <3>2. /\ \A v \in Worker : Changing(v, t) => v = w
          /\ enrollment[t].status = worker[w].to
          /\ LastEntry(t) = worker[w].to
      BY <1>1, <1>13, <2>2, <3>1 DEF InStep
    <3>3. \A v \in Worker : ~Changing(v, t)' BY <1>8, <3>2 DEF Changing, Idle
    <3>4. grant'[t] = new BY <1>8, <2>2
    <3>5. LastEntry(t)' = LastEntry(t) BY <1>1 DEF LastEntry
    <3> QED BY <1>1, <1>5, <3>1, <3>2, <3>3, <3>4, <3>5 DEF InStep
  <2>3. CASE t # s
    <3> HIDE DEF s
    <3> QED BY <1>1, <1>3, <1>8, <1>13, <2>1, <2>3, OthersSerial DEF Idle
  <2> QED BY <2>2, <2>3
<1> QED BY <1>9, <1>10, <1>11, <1>12, <1>14 DEF IInv

\* A request that stops inside a change tears it.
LEMMA CrashStep ==
    ASSUME IInv, NEW w \in Worker, Crash(w)
    PROVE  IInv'
<1>1. /\ worker[w] # Idle /\ crashes < MaxCrashes /\ crashes' = crashes + 1
      /\ worker' = [worker EXCEPT ![w] = Idle]
      /\ torn' = torn \cup {s \in Student : Changing(w, s)}
      /\ UNCHANGED <<now, enrollment, grant, history, job, enrolledBy>>
  BY DEF Crash
<1>2. \A v \in Worker : worker'[v] = IF v = w THEN Idle ELSE worker[v]
  BY <1>1 DEF IInv, TypeOK
<1>3. TypeOK'
  <2>1. worker' \in [Worker -> WorkerState] BY <1>1 DEF IInv, TypeOK, WorkerState
  <2>2. crashes' \in 0 .. MaxCrashes BY <1>1, BoundsAssumption DEF IInv, TypeOK
  <2>3. torn' \subseteq Student BY <1>1 DEF IInv, TypeOK
  <2> QED BY <1>1, <2>1, <2>2, <2>3 DEF IInv, TypeOK
<1>4. Grants' BY <1>1 DEF IInv, Grants
<1>5. Changes' BY <1>1, <1>2 DEF IInv, Changes, Idle
<1>6. Jobs' BY <1>1, <1>2 DEF IInv, Jobs, Idle
<1>7. Serial'
  <2> SUFFICES ASSUME NEW t \in Student \ torn', enrollment'[t] # Absent
               PROVE  InStep(t)'
    BY DEF Serial
  <2>1. t \notin torn /\ ~Changing(w, t) /\ enrollment[t] # Absent BY <1>1
  <2>2. InStep(t) BY <2>1 DEF IInv, Serial
  <2>3. \A v \in Worker : Changing(v, t)' <=> Changing(v, t)
    BY <1>2, <2>1 DEF Changing, Idle
  <2>4. \A v \in Worker : Changing(v, t) => worker'[v] = worker[v]
    BY <1>2, <2>1
  <2>5. LastEntry(t)' = LastEntry(t) /\ (Settled(t)' <=> Settled(t))
    BY <1>1, <2>3 DEF LastEntry, Settled
  <2> QED BY <1>1, <2>2, <2>3, <2>4, <2>5 DEF InStep
<1> QED BY <1>3, <1>4, <1>5, <1>6, <1>7 DEF IInv

-----------------------------------------------------------------------------
(* Theorems *)

LEMMA NextIInv == IInv /\ [Next]_vars => IInv'
<1> SUFFICES ASSUME IInv, [Next]_vars PROVE IInv' OBVIOUS
<1>1. CASE Tick BY <1>1, TickStep
<1>2. CASE \E s \in Student, expires \in 1 .. Never : Create(s, expires)
  BY <1>2, CreateStep
<1>3. ASSUME NEW w \in Worker,
             \/ \E j \in Job, students \in List : StartJob(w, j, students)
             \/ RunJob(w) \/ FinishJob(w)
      PROVE  IInv'
  BY <1>3, StartJobStep, RunJobStep, FinishJobStep
<1>4. ASSUME NEW w \in Worker,
             \/ \E s \in Student, to \in Status : SaveStatus(w, s, to)
             \/ RecordHistory(w) \/ FetchGrant(w) \/ SaveGrant(w)
      PROVE  IInv'
  BY <1>4, SaveStatusStep, RecordHistoryStep, FetchGrantStep, SaveGrantStep
<1>5. ASSUME NEW w \in Worker, Crash(w) PROVE IInv' BY <1>5, CrashStep
<1>6. CASE UNCHANGED vars
  <2>1. /\ UNCHANGED <<now, enrollment, grant, history, job, worker>>
        /\ UNCHANGED <<enrolledBy, torn, crashes>>
    BY <1>6 DEF vars
  <2>2. TypeOK' BY <2>1 DEF IInv, TypeOK
  <2>3. Jobs' BY <2>1 DEF IInv, Jobs
  <2>4. Grants' /\ Changes' /\ Serial' BY <2>1, QuietStep
  <2> QED BY <2>2, <2>3, <2>4 DEF IInv
<1> QED BY <1>1, <1>2, <1>3, <1>4, <1>5, <1>6 DEF Next

\* Every state the service can reach satisfies the inductive invariant.
THEOREM Invariance == Spec => []IInv
BY InitIInv, NextIInv, PTL DEF Spec

\* Rows, jobs and requests keep their types: a grant exists exactly where its
\* enrollment does, and no request works on one that does not.
THEOREM TypeCorrect == Spec => []TypeOK
<1>1. IInv => TypeOK BY DEF IInv
<1> QED BY <1>1, Invariance, PTL

\* However many changes of a student's status overlap, are cut short or save an old
\* copy of the grant, has_active_access never says yes past the end of the
\* enrollment.
THEOREM AccessEnds == Spec => []AccessEndsWithEnrollment
<1>1. IInv => AccessEndsWithEnrollment
  <2> SUFFICES ASSUME IInv, NEW s \in Student, enrollment[s] # Absent, Access(s)
               PROVE  now < enrollment[s].expires
    BY DEF AccessEndsWithEnrollment
  <2>1. EndsWith(grant[s], enrollment[s]) /\ grant[s].until > now
    BY DEF IInv, Grants, Access
  <2>2. now < Never BY BoundsAssumption DEF IInv, TypeOK, Never
  <2>3. CASE enrollment[s].expires = Never BY <2>2, <2>3
  <2>4. CASE enrollment[s].expires # Never
    <3>1. enrollment[s] \in Enrollment BY DEF IInv, TypeOK
    <3>2. enrollment[s].expires \in Nat /\ now \in Nat
      BY <3>1, BoundsAssumption DEF Enrollment, Date, Never, IInv, TypeOK
    <3> QED BY <2>1, <2>4, <3>2 DEF EndsWith
  <2> QED BY <2>3, <2>4
<1> QED BY <1>1, Invariance, PTL

\* The code that changes a status without a transaction is right as long as the
\* changes of a student come one after the other: status, history and access agree.
THEOREM SerialSafe == Spec => []SerialChangesAgree
<1>1. IInv => SerialChangesAgree
  BY DEF IInv, Serial, InStep, LastEntry, Access, SerialChangesAgree
<1> QED BY <1>1, Invariance, PTL

-----------------------------------------------------------------------------
(* Jobs.  The operators take the enrollments and who made them as arguments, so that    *)
(* they can be said of the state before and of the state after a step.                  *)

\* Of job j the first d of the listed students have had their turn: they are enrolled,
\* the job has enrolled no others, and it counts no failure if and only if it has enrolled
\* each of them itself, once.
Through(rows, by, j, students, d, failed) ==
    /\ \A i \in 1 .. d : rows[students[i]] # Absent
    /\ \A s \in Student : by[s] = j => \E i \in 1 .. d : students[i] = s
    /\ failed = 0 <=> \A i \in 1 .. d :
          /\ by[students[i]] = j
          /\ \A k \in 1 .. d : students[i] = students[k] => i = k

\* What is left to the request of a running job is the rest of the list.
RunAgrees(rows, by, students, m) ==
    /\ Len(m.todo) <= Len(students)
    /\ \A i \in 1 .. Len(m.todo) : m.todo[i] = students[Len(students) - Len(m.todo) + i]
    /\ Through(rows, by, m.job, students, Len(students) - Len(m.todo), m.failed)

\* What JobStatusTruthful says of one job.
Truthful(rows, by, j, record) ==
    record.status \in {"completed", "failed"} =>
        LET students == record.students IN
        /\ \A i \in DOMAIN students : rows[students[i]] # Absent
        /\ record.status = "completed" <=>
              \A i \in DOMAIN students :
                /\ by[students[i]] = j
                /\ \A k \in DOMAIN students : students[i] = students[k] => i = k

JobInv ==
    /\ \A w \in Worker : worker[w].op = "job" =>
          /\ job[worker[w].job].status = "processing"
          /\ RunAgrees(enrollment, enrolledBy, job[worker[w].job].students, worker[w])
    /\ \A v, w \in Worker :
          worker[v].op = "job" /\ worker[w].op = "job" /\ worker[v].job = worker[w].job => v = w
    /\ \A j \in Job : job[j] = Absent => \A s \in Student : enrolledBy[s] # j
    /\ \A j \in Job : Truthful(enrollment, enrolledBy, j, job[j])

\* Students stay enrolled, by whoever enrolled them, and j enrolls nobody.
Passes(rows, by, rows2, by2, j) ==
    \A s \in Student :
        /\ rows[s] # Absent => rows2[s] # Absent /\ by2[s] = by[s]
        /\ by2[s] = by[s] \/ by2[s] # j

LEMMA ThroughKept ==
    ASSUME NEW rows, NEW by, NEW rows2, NEW by2, NEW j, NEW students, NEW d, NEW failed,
           \A i \in 1 .. d : students[i] \in Student,
           Passes(rows, by, rows2, by2, j), Through(rows, by, j, students, d, failed)
    PROVE  Through(rows2, by2, j, students, d, failed)
BY DEF Passes, Through

LEMMA TruthfulKept ==
    ASSUME NEW rows, NEW by, NEW rows2, NEW by2, NEW j, NEW record,
           \A i \in DOMAIN record.students : record.students[i] \in Student,
           Passes(rows, by, rows2, by2, j), Truthful(rows, by, j, record)
    PROVE  Truthful(rows2, by2, j, record)
BY DEF Passes, Truthful

\* A list is a sequence of students.
LEMMA ListMembers ==
    ASSUME NEW l \in List
    PROVE  /\ l \in Seq(Student) /\ Len(l) \in Nat /\ DOMAIN l = 1 .. Len(l)
           /\ \A i \in 1 .. Len(l) : l[i] \in Student
<1>1. PICK n \in 0 .. MaxList : l \in [1 .. n -> Student] BY DEF List
<1>2. n \in Nat BY <1>1, BoundsAssumption
<1>3. l \in Seq(Student) /\ Len(l) = n BY <1>1, <1>2
<1> QED BY <1>1, <1>2, <1>3

\* The next student, the students had so far, and the rest of the list.
LEMMA NextStudent ==
    ASSUME NEW students \in List, NEW todo \in List, todo # <<>>, Len(todo) <= Len(students),
           \A i \in 1 .. Len(todo) : todo[i] = students[Len(students) - Len(todo) + i]
    PROVE  LET d == Len(students) - Len(todo) IN
           /\ d \in Nat /\ d + 1 \in 1 .. Len(students)
           /\ Head(todo) = students[d + 1]
           /\ Len(Tail(todo)) <= Len(students) /\ Len(students) - Len(Tail(todo)) = d + 1
           /\ \A i \in 1 .. Len(Tail(todo)) : Tail(todo)[i] = students[d + 1 + i]
<1>1. /\ Len(students) \in Nat /\ Len(todo) \in Nat /\ Len(todo) # 0
      /\ todo \in Seq(Student)
  BY ListMembers
<1>2. /\ Head(todo) = todo[1] /\ Len(Tail(todo)) = Len(todo) - 1
      /\ \A i \in 1 .. Len(Tail(todo)) : Tail(todo)[i] = todo[i + 1]
  BY <1>1
<1> DEFINE n == Len(students)
           m == Len(todo)
           l == Len(Tail(todo))
<1>3. n \in Nat /\ m \in Nat /\ m # 0 /\ m <= n /\ l = m - 1 BY <1>1, <1>2
<1>4. \A i \in 1 .. m : todo[i] = students[n - m + i] OBVIOUS
<1>5. \A i \in 1 .. l : Tail(todo)[i] = todo[i + 1] BY <1>2
<1> HIDE DEF n, m, l
<1>6. todo[1] = students[n - m + 1] BY <1>3, <1>4
<1>7. ASSUME NEW i \in 1 .. l PROVE Tail(todo)[i] = students[n - m + 1 + i]
  <2>1. i + 1 \in 1 .. m /\ n - m + (i + 1) = n - m + 1 + i BY <1>3
  <2> QED BY <1>4, <1>5, <2>1
<1>8. n - m \in Nat /\ n - m + 1 \in 1 .. n /\ l <= n /\ n - l = n - m + 1 BY <1>3
<1> QED BY <1>2, <1>6, <1>7, <1>8 DEF n, m, l

\* The list of a job, and the fields of the request that runs it.
LEMMA JobFields ==
    ASSUME IInv, NEW w \in Worker, worker[w].op = "job"
    PROVE  /\ worker[w] \in JobRun /\ worker[w].job \in Job /\ worker[w].todo \in List
           /\ worker[w].failed \in Nat
           /\ job[worker[w].job].students \in List
<1>1. worker[w] \in JobRun BY RequestFields DEF IInv
<1>2. /\ worker[w].job \in Job /\ worker[w].todo \in List /\ worker[w].failed \in Nat
  BY <1>1 DEF JobRun
<1>3. job[worker[w].job] # Absent BY DEF IInv, Jobs
<1> QED BY <1>1, <1>2, <1>3 DEF IInv, TypeOK

\* Enrolling a student passes every job by but the one that enrolls.
LEMMA EnrollPasses ==
    ASSUME IInv, NEW s \in Student, NEW expires, NEW j, Enroll(s, expires, j),
           NEW i, i # j
    PROVE  Passes(enrollment, enrolledBy, enrollment', enrolledBy', i)
<1>1. /\ enrollment[s] = Absent
      /\ enrolledBy' = [enrolledBy EXCEPT ![s] = j]
      /\ enrollment' = [enrollment EXCEPT ![s] = [status |-> "active", expires |-> expires]]
  BY DEF Enroll
<1>2. /\ \A t \in Student : t # s => enrollment'[t] = enrollment[t]
      /\ \A t \in Student : enrolledBy'[t] = IF t = s THEN j ELSE enrolledBy[t]
  BY <1>1 DEF IInv, TypeOK
<1> QED BY <1>1, <1>2 DEF Passes

\* A running job that is passed by stands as it did.
LEMMA RunKept ==
    ASSUME IInv, NEW w \in Worker, worker[w].op = "job", NEW rows, NEW by,
           RunAgrees(enrollment, enrolledBy, job[worker[w].job].students, worker[w]),
           Passes(enrollment, enrolledBy, rows, by, worker[w].job)
    PROVE  RunAgrees(rows, by, job[worker[w].job].students, worker[w])
<1> DEFINE students == job[worker[w].job].students
           m == worker[w]
           d == Len(students) - Len(m.todo)
<1>1. /\ students \in List /\ m.todo \in List BY JobFields
<1>2. /\ Len(students) \in Nat /\ Len(m.todo) \in Nat /\ Len(m.todo) <= Len(students)
      /\ \A i \in 1 .. Len(students) : students[i] \in Student
  BY <1>1, ListMembers DEF RunAgrees
<1>3. d \in Nat /\ d <= Len(students)
  <2>1. \A n, k \in Nat : k <= n => n - k \in Nat /\ n - k <= n OBVIOUS
  <2> HIDE DEF students, m
  <2> QED BY <1>2, <2>1
<1>4. \A i \in 1 .. d : students[i] \in Student
  <2>1. 1 .. d \subseteq 1 .. Len(students)
    <3> HIDE DEF d
    <3> QED BY <1>2, <1>3
  <2> QED BY <1>2, <2>1
<1>5. Through(enrollment, enrolledBy, m.job, students, d, m.failed) BY DEF RunAgrees
<1> HIDE DEF students, m, d
<1>6. Through(rows, by, m.job, students, d, m.failed)
  BY <1>4, <1>5, ThroughKept DEF m
<1> QED BY <1>6 DEF RunAgrees, students, m, d

\* The outcome of a job that is passed by stands, if its row does.
LEMMA OutcomeKept ==
    ASSUME IInv, JobInv, NEW i \in Job, NEW rows, NEW by,
           Passes(enrollment, enrolledBy, rows, by, i)
    PROVE  Truthful(rows, by, i, job[i])
<1>1. CASE job[i] = Absent BY <1>1 DEF Absent, Truthful
<1>2. CASE job[i] # Absent
  <2>1. job[i].students \in List BY <1>2 DEF IInv, TypeOK
  <2>2. \A k \in DOMAIN job[i].students : job[i].students[k] \in Student
    BY <2>1, ListMembers
  <2> QED BY <2>2, TruthfulKept DEF JobInv
<1> QED BY <1>1, <1>2

\* Steps that enroll nobody and leave the jobs alone.
LEMMA QuietJobs ==
    ASSUME IInv, JobInv, UNCHANGED <<job, enrolledBy>>,
           \A s \in Student : enrollment[s] # Absent => enrollment'[s] # Absent,
           \A v \in Worker : worker'[v].op = "job" => worker'[v] = worker[v]
    PROVE  JobInv'
<1>1. \A i : Passes(enrollment, enrolledBy, enrollment', enrolledBy', i) BY DEF Passes
<1>2. ASSUME NEW v \in Worker, worker'[v].op = "job"
      PROVE  /\ job'[worker'[v].job].status = "processing"
             /\ RunAgrees(enrollment', enrolledBy', job'[worker'[v].job].students, worker'[v])
  <2>1. worker'[v] = worker[v] /\ worker[v].op = "job" BY <1>2
  <2>2. RunAgrees(enrollment', enrolledBy', job[worker[v].job].students, worker[v])
    BY <1>1, <2>1, RunKept DEF JobInv
  <2> QED BY <2>1, <2>2 DEF JobInv
<1>3. \A i \in Job : Truthful(enrollment', enrolledBy', i, job[i])
  BY <1>1, OutcomeKept
<1>4. \A v, w \in Worker :
          worker'[v].op = "job" /\ worker'[w].op = "job" /\ worker'[v].job = worker'[w].job
          => v = w
  BY DEF JobInv
<1> QED BY <1>2, <1>3, <1>4 DEF JobInv

LEMMA CreateJobs ==
    ASSUME IInv, JobInv, NEW s \in Student, NEW expires \in 1 .. Never, Create(s, expires)
    PROVE  JobInv'
<1>1. Enroll(s, expires, NoJob) /\ UNCHANGED <<job, worker>> BY DEF Create
<1>2. \A i \in Job : Passes(enrollment, enrolledBy, enrollment', enrolledBy', i)
  BY <1>1, EnrollPasses, BoundsAssumption
<1>3. ASSUME NEW v \in Worker, worker[v].op = "job"
      PROVE  RunAgrees(enrollment', enrolledBy', job[worker[v].job].students, worker[v])
  BY <1>2, <1>3, RunKept, JobFields DEF JobInv
<1>4. \A i \in Job : Truthful(enrollment', enrolledBy', i, job[i]) BY <1>2, OutcomeKept
<1>5. \A i \in Job : job[i] = Absent => \A t \in Student : enrolledBy'[t] # i
  <2>1. \A t \in Student : enrolledBy'[t] \in {enrolledBy[t], NoJob}
    BY <1>1 DEF Enroll, IInv, TypeOK
  <2> QED BY <2>1, BoundsAssumption DEF JobInv
<1> QED BY <1>1, <1>3, <1>4, <1>5 DEF JobInv

\* A job that starts finds its row free, and so nobody enrolled by it.
LEMMA StartJobJobs ==
    ASSUME IInv, JobInv, NEW w \in Worker, NEW j \in Job, NEW students \in List,
           StartJob(w, j, students)
    PROVE  JobInv'
<1> DEFINE new == [op |-> "job", job |-> j, todo |-> students, failed |-> 0]
           record == [status |-> "processing", students |-> students]
<1>1. /\ worker' = [worker EXCEPT ![w] = new] /\ job' = [job EXCEPT ![j] = record]
      /\ job[j] = Absent /\ UNCHANGED <<enrollment, enrolledBy>>
  BY DEF StartJob
<1>2. /\ new.op = "job" /\ new.job = j /\ new.todo = students /\ new.failed = 0
      /\ record.status = "processing" /\ record.students = students
  OBVIOUS
<1>3. record # Absent BY DEF Absent
<1>4. Len(students) \in Nat BY ListMembers
<1>5. Through(enrollment, enrolledBy, j, students, 0, 0)
  BY <1>1 DEF JobInv, Through
<1>6. RunAgrees(enrollment, enrolledBy, students, new)
  <2> HIDE DEF new, record
  <2>1. Len(students) - Len(students) = 0 /\ Len(students) <= Len(students) BY <1>4
  <2>2. \A i \in 1 .. Len(students) : students[i] = students[0 + i] BY <1>4
  <2> QED BY <1>2, <1>5, <2>1, <2>2 DEF RunAgrees
<1> HIDE DEF new, record
<1>7. /\ \A v \in Worker : worker'[v] = IF v = w THEN new ELSE worker[v]
      /\ \A i \in Job : job'[i] = IF i = j THEN record ELSE job[i]
  BY <1>1 DEF IInv, TypeOK
<1>8. ASSUME NEW v \in Worker, v # w, worker[v].op = "job" PROVE worker[v].job \in Job \ {j}
  BY <1>1, <1>8, JobFields DEF IInv, Jobs
<1>9. \A i \in Job : Truthful(enrollment, enrolledBy, i, job'[i])
  <2>1. Truthful(enrollment, enrolledBy, j, record) BY <1>2 DEF Truthful
  <2> QED BY <1>7, <2>1 DEF JobInv
<1>10. ASSUME NEW v \in Worker, worker'[v].op = "job"
       PROVE  /\ job'[worker'[v].job].status = "processing"
              /\ RunAgrees(enrollment, enrolledBy, job'[worker'[v].job].students, worker'[v])
  <2>1. CASE v = w BY <1>2, <1>6, <1>7, <2>1
  <2>2. CASE v # w BY <1>7, <1>8, <1>10, <2>2 DEF JobInv
  <2> QED BY <2>1, <2>2
<1>11. \A u, v \in Worker :
          worker'[u].op = "job" /\ worker'[v].op = "job" /\ worker'[u].job = worker'[v].job
          => u = v
  BY <1>2, <1>7, <1>8 DEF JobInv
<1>12. \A i \in Job : job'[i] = Absent => \A t \in Student : enrolledBy[t] # i
  BY <1>3, <1>7 DEF JobInv
<1> QED BY <1>1, <1>9, <1>10, <1>11, <1>12 DEF JobInv

\* The next student of the list is enrolled by the job ...
LEMMA NextEnrolled ==
    ASSUME NEW rows, NEW by, NEW rows2, NEW by2, NEW j, NEW students, NEW d \in Nat, NEW failed,
           \A i \in 1 .. (d + 1) : students[i] \in Student,
           Through(rows, by, j, students, d, failed),
           rows[students[d + 1]] = Absent, rows2[students[d + 1]] # Absent,
           by2[students[d + 1]] = j,
           \A s \in Student : s # students[d + 1] => rows2[s] = rows[s] /\ by2[s] = by[s]
    PROVE  Through(rows2, by2, j, students, d + 1, failed)
<1>1. \A i \in 1 .. d : students[i] # students[d + 1] BY DEF Through
<1>2. \A i \in 1 .. d : /\ rows2[students[i]] = rows[students[i]]
                        /\ by2[students[i]] = by[students[i]]
  BY <1>1
<1>3. \A i \in 1 .. (d + 1) : i \in 1 .. d \/ i = d + 1 OBVIOUS
<1>4. \A i \in 1 .. (d + 1) : rows2[students[i]] # Absent BY <1>2, <1>3 DEF Through
<1>5. \A s \in Student : by2[s] = j => \E i \in 1 .. (d + 1) : students[i] = s
  <2> SUFFICES ASSUME NEW s \in Student, by2[s] = j PROVE \E i \in 1 .. (d + 1) : students[i] = s
    OBVIOUS
  <2>1. CASE s = students[d + 1] BY <2>1
  <2>2. CASE s # students[d + 1] BY <2>2 DEF Through
  <2> QED BY <2>1, <2>2
<1>6. failed = 0 <=> \A i \in 1 .. (d + 1) :
          /\ by2[students[i]] = j
          /\ \A k \in 1 .. (d + 1) : students[i] = students[k] => i = k
  <2>1. 1 .. d \subseteq 1 .. (d + 1) OBVIOUS
  <2> QED BY <1>1, <1>2, <1>3, <2>1 DEF Through
<1> QED BY <1>4, <1>5, <1>6 DEF Through

\* ... or was enrolled before, and is counted.
LEMMA NextFails ==
    ASSUME NEW rows, NEW by, NEW j, NEW students, NEW d \in Nat, NEW failed \in Nat,
           \A i \in 1 .. (d + 1) : students[i] \in Student,
           Through(rows, by, j, students, d, failed), rows[students[d + 1]] # Absent
    PROVE  Through(rows, by, j, students, d + 1, failed + 1)
<1>1. failed + 1 # 0 OBVIOUS
<1>2. \A i \in 1 .. (d + 1) : i \in 1 .. d \/ i = d + 1 OBVIOUS
<1>3. 1 .. d \subseteq 1 .. (d + 1) /\ d + 1 \in 1 .. (d + 1) /\ d + 1 \notin 1 .. d OBVIOUS
<1>4. ~ \A i \in 1 .. (d + 1) :
          /\ by[students[i]] = j
          /\ \A k \in 1 .. (d + 1) : students[i] = students[k] => i = k
  <2> SUFFICES ASSUME by[students[d + 1]] = j
               PROVE  \E i \in 1 .. (d + 1), k \in 1 .. (d + 1) : students[i] = students[k] /\ i # k
    BY <1>3
  <2> QED BY <1>3 DEF Through
<1> QED BY <1>1, <1>2, <1>3, <1>4 DEF Through

LEMMA RunJobJobs ==
    ASSUME IInv, JobInv, NEW w \in Worker, RunJob(w)
    PROVE  JobInv'
<1> DEFINE m == worker[w]
           j == m.job
           students == job[j].students
           d == Len(students) - Len(m.todo)
           s == Head(m.todo)
           rest == Tail(m.todo)
<1>1. m.op = "job" /\ m.todo # <<>> /\ job' = job BY DEF RunJob
<1>2. /\ m \in JobRun /\ j \in Job /\ m.todo \in List /\ m.failed \in Nat
      /\ students \in List
  BY <1>1, JobFields
<1>3. /\ job[j].status = "processing"
      /\ Len(m.todo) <= Len(students)
      /\ \A i \in 1 .. Len(m.todo) : m.todo[i] = students[d + i]
      /\ Through(enrollment, enrolledBy, j, students, d, m.failed)
  BY <1>1 DEF JobInv, RunAgrees
<1>4. /\ d \in Nat /\ d + 1 \in 1 .. Len(students) /\ s = students[d + 1]
      /\ Len(rest) <= Len(students) /\ Len(students) - Len(rest) = d + 1
      /\ \A i \in 1 .. Len(rest) : rest[i] = students[d + 1 + i]
  <2> HIDE DEF students, m
  <2> QED BY <1>1, <1>2, <1>3, NextStudent
<1>5. \A i \in 1 .. (d + 1) : students[i] \in Student
  <2>1. \A i \in 1 .. Len(students) : students[i] \in Student BY <1>2, ListMembers
  <2>2. Len(students) \in Nat BY <1>2, ListMembers
  <2>3. 1 .. (d + 1) \subseteq 1 .. Len(students)
    <3> HIDE DEF d, students
    <3> QED BY <1>4, <2>2
  <2> QED BY <2>1, <2>3
<1>6. s \in Student
  <2>1. d + 1 \in 1 .. (d + 1)
    <3> HIDE DEF d
    <3> QED BY <1>4
  <2> QED BY <1>4, <1>5, <2>1
\* The request and the other jobs.
<1>7. PICK new : /\ worker' = [worker EXCEPT ![w] = new]
                 /\ new.op = "job" /\ new.job = j /\ new.todo = rest
                 /\ Through(enrollment', enrolledBy', j, students, d + 1, new.failed)
                 /\ \A i \in Job \ {j} : Passes(enrollment, enrolledBy, enrollment', enrolledBy', i)
                 /\ \A t \in Student : enrolledBy'[t] \in {enrolledBy[t], j}
  <2>1. CASE Enroll(s, Never, j) /\ worker' = [worker EXCEPT ![w].todo = rest]
    <3> DEFINE new == [m EXCEPT !.todo = rest]
    <3>1. worker' = [worker EXCEPT ![w] = new] BY <2>1
    <3>2. /\ new.op = "job" /\ new.job = j /\ new.todo = rest /\ new.failed = m.failed
      BY <1>1, <1>2 DEF JobRun
    <3>3. /\ enrollment[s] = Absent
          /\ \A t \in Student : /\ enrolledBy'[t] = IF t = s THEN j ELSE enrolledBy[t]
                                /\ t # s => enrollment'[t] = enrollment[t]
          /\ enrollment'[s] # Absent
      BY <1>6, <2>1 DEF Enroll, IInv, TypeOK, Absent
    <3> HIDE DEF new, d, students, j, s, m
    <3>4. Through(enrollment', enrolledBy', j, students, d + 1, m.failed)
      <4>1. /\ enrollment[students[d + 1]] = Absent
            /\ enrollment'[students[d + 1]] # Absent
            /\ enrolledBy'[students[d + 1]] = j
            /\ \A t \in Student : t # students[d + 1] =>
                  enrollment'[t] = enrollment[t] /\ enrolledBy'[t] = enrolledBy[t]
        BY <1>4, <1>6, <3>3
      <4>2. d \in Nat BY <1>4
      <4> QED BY <1>3, <1>5, <4>1, <4>2, NextEnrolled
    <3>5. \A i \in Job \ {j} : Passes(enrollment, enrolledBy, enrollment', enrolledBy', i)
      BY <1>6, <2>1, EnrollPasses
    <3> QED BY <3>1, <3>2, <3>3, <3>4, <3>5
  <2>2. CASE /\ enrollment[s] # Absent /\ UNCHANGED <<enrollment, enrolledBy>>
             /\ worker' = [worker EXCEPT ![w].todo = rest, ![w].failed = m.failed + 1]
    <3> DEFINE new == [m EXCEPT !.todo = rest, !.failed = m.failed + 1]
    <3>1. worker' = [worker EXCEPT ![w] = new] BY <2>2 DEF IInv, TypeOK
    <3>2. new.op = "job" /\ new.job = j /\ new.todo = rest /\ new.failed = m.failed + 1
      BY <1>1, <1>2 DEF JobRun
    <3> HIDE DEF new, d, students, j, s, m
    <3>3. Through(enrollment, enrolledBy, j, students, d + 1, m.failed + 1)
      BY <1>2, <1>3, <1>4, <1>5, <2>2, NextFails
    <3>4. \A i : Passes(enrollment, enrolledBy, enrollment', enrolledBy', i)
      BY <2>2 DEF Passes
    <3> QED BY <2>2, <3>1, <3>2, <3>3, <3>4
  <2> QED BY <2>1, <2>2 DEF RunJob, CountFailure
<1>8. \A v \in Worker : worker'[v] = IF v = w THEN new ELSE worker[v]
  BY <1>7 DEF IInv, TypeOK
<1>9. ASSUME NEW v \in Worker, v # w, worker[v].op = "job" PROVE worker[v].job \in Job \ {j}
  BY <1>1, <1>9, JobFields DEF JobInv
<1>10. RunAgrees(enrollment', enrolledBy', students, new)
  <2> HIDE DEF d, students, j, s, m, rest
  <2> QED BY <1>4, <1>7 DEF RunAgrees
<1>11. ASSUME NEW v \in Worker, worker'[v].op = "job"
       PROVE  /\ job'[worker'[v].job].status = "processing"
              /\ RunAgrees(enrollment', enrolledBy', job'[worker'[v].job].students, worker'[v])
  <2>1. CASE v = w BY <1>1, <1>3, <1>7, <1>8, <1>10, <2>1
  <2>2. CASE v # w
    <3>1. worker'[v] = worker[v] /\ worker[v].job \in Job \ {j} BY <1>8, <1>9, <1>11, <2>2
    <3>2. RunAgrees(enrollment', enrolledBy', job[worker[v].job].students, worker[v])
      BY <1>7, <1>11, <3>1, RunKept DEF JobInv
    <3> QED BY <1>1, <1>11, <3>1, <3>2 DEF JobInv
  <2> QED BY <2>1, <2>2
<1>12. \A i \in Job : Truthful(enrollment', enrolledBy', i, job'[i])
  <2>1. Truthful(enrollment', enrolledBy', j, job[j]) BY <1>3 DEF Truthful
  <2>2. \A i \in Job \ {j} : Truthful(enrollment', enrolledBy', i, job[i])
    BY <1>7, OutcomeKept
  <2> QED BY <1>1, <2>1, <2>2
<1>13. \A u, v \in Worker :
          worker'[u].op = "job" /\ worker'[v].op = "job" /\ worker'[u].job = worker'[v].job
          => u = v
  BY <1>7, <1>8, <1>9 DEF JobInv
<1>14. \A i \in Job : job'[i] = Absent => \A t \in Student : enrolledBy'[t] # i
  BY <1>1, <1>3, <1>7 DEF JobInv, Absent
<1> QED BY <1>11, <1>12, <1>13, <1>14 DEF JobInv

\* A job ends when every student of the list has had a turn.
LEMMA FinishJobJobs ==
    ASSUME IInv, JobInv, NEW w \in Worker, FinishJob(w)
    PROVE  JobInv'
<1> DEFINE m == worker[w]
           j == m.job
           students == job[j].students
           end == IF m.failed = 0 THEN "completed" ELSE "failed"
           record == [job[j] EXCEPT !.status = end]
<1>1. /\ m.op = "job" /\ m.todo = <<>>
      /\ job' = [job EXCEPT ![j] = record] /\ worker' = [worker EXCEPT ![w] = Idle]
      /\ UNCHANGED <<enrollment, enrolledBy>>
  BY DEF FinishJob
<1>2. j \in Job /\ students \in List BY <1>1, JobFields
<1>3. job[j] \in [status : {"processing", "completed", "failed"}, students : List]
  BY <1>1, <1>2 DEF IInv, Jobs, TypeOK
<1>4. record.status = end /\ record.students = students /\ record # Absent
  <2>1. record.status = end /\ record.students = students BY <1>3
  <2> QED BY <2>1 DEF Absent
<1>5. Through(enrollment, enrolledBy, j, students, Len(students), m.failed)
  <2>1. Len(students) - Len(m.todo) = Len(students) BY <1>1, <1>2, ListMembers
  <2> QED BY <1>1, <2>1 DEF JobInv, RunAgrees
<1>6. Truthful(enrollment, enrolledBy, j, record)
  <2>1. DOMAIN students = 1 .. Len(students) BY <1>2, ListMembers
  <2>2. end = "completed" <=> m.failed = 0 OBVIOUS
  <2> HIDE DEF record, end, students
  <2> QED BY <1>4, <1>5, <2>1, <2>2 DEF Truthful, Through
<1> HIDE DEF record
<1>7. /\ \A v \in Worker : worker'[v] = IF v = w THEN Idle ELSE worker[v]
      /\ \A i \in Job : job'[i] = IF i = j THEN record ELSE job[i]
  BY <1>1, <1>2 DEF IInv, TypeOK
<1>8. \A i \in Job : Truthful(enrollment, enrolledBy, i, job'[i])
  BY <1>6, <1>7 DEF JobInv
<1>9. ASSUME NEW v \in Worker, worker'[v].op = "job"
      PROVE  worker'[v] = worker[v] /\ worker[v].job \in Job \ {j}
  <2>1. v # w /\ worker'[v] = worker[v] BY <1>7, <1>9 DEF Idle
  <2> QED BY <1>1, <1>9, <2>1, JobFields DEF JobInv
<1>10. \A i \in Job : job'[i] = Absent => \A t \in Student : enrolledBy[t] # i
  BY <1>4, <1>7 DEF JobInv
<1> QED BY <1>1, <1>7, <1>8, <1>9, <1>10 DEF JobInv

LEMMA NextJobs == IInv /\ JobInv /\ [Next]_vars => JobInv'
<1> SUFFICES ASSUME IInv, JobInv, [Next]_vars PROVE JobInv' OBVIOUS
<1>1. CASE Tick \/ UNCHANGED vars BY <1>1, QuietJobs DEF Tick, vars
<1>2. CASE \E s \in Student, expires \in 1 .. Never : Create(s, expires)
  BY <1>2, CreateJobs
<1>3. ASSUME NEW w \in Worker, \E j \in Job, students \in List : StartJob(w, j, students)
      PROVE  JobInv'
  BY <1>3, StartJobJobs
<1>4. ASSUME NEW w \in Worker, RunJob(w) \/ FinishJob(w) PROVE JobInv'
  BY <1>4, RunJobJobs, FinishJobJobs
<1>5. ASSUME NEW w \in Worker, NEW s \in Student, NEW to \in Status, SaveStatus(w, s, to)
      PROVE  JobInv'
  <2>1. enrollment[s] \in Enrollment /\ enrollment' = [enrollment EXCEPT ![s].status = to]
    BY <1>5 DEF SaveStatus, IInv, TypeOK
  <2>2. [enrollment[s] EXCEPT !.status = to] # Absent
    <3>1. [enrollment[s] EXCEPT !.status = to].status = to BY <2>1 DEF Enrollment
    <3> QED BY <3>1 DEF Status, Absent
  <2>3. \A t \in Student : enrollment[t] # Absent => enrollment'[t] # Absent
    BY <2>1, <2>2 DEF IInv, TypeOK
  <2>4. \A v \in Worker : worker'[v].op = "job" => worker'[v] = worker[v]
    BY <1>5 DEF SaveStatus, IInv, TypeOK
  <2> QED BY <1>5, <2>3, <2>4, QuietJobs DEF SaveStatus
<1>6. ASSUME NEW w \in Worker,
             RecordHistory(w) \/ FetchGrant(w) \/ SaveGrant(w) \/ Crash(w)
      PROVE  JobInv'
  <2>1. UNCHANGED <<enrollment, job, enrolledBy>>
    BY <1>6 DEF RecordHistory, FetchGrant, SaveGrant, Crash
  <2>2. \A v \in Worker : worker'[v].op = "job" => worker'[v] = worker[v]
    <3>1. CASE RecordHistory(w)
      <4>1. worker[w] \in Transition BY <3>1, RequestFields DEF RecordHistory, At, IInv
      <4>2. [worker[w] EXCEPT !.step = "recorded"].op = "transition" BY <4>1 DEF Transition
      <4> QED BY <3>1, <4>2 DEF RecordHistory, IInv, TypeOK
    <3>2. CASE FetchGrant(w) BY <3>2 DEF FetchGrant, IInv, TypeOK
    <3>3. CASE SaveGrant(w) \/ Crash(w) BY <3>3 DEF SaveGrant, Crash, Idle, IInv, TypeOK
    <3> QED BY <1>6, <3>1, <3>2, <3>3
  <2> QED BY <2>1, <2>2, QuietJobs
<1> QED BY <1>1, <1>2, <1>3, <1>4, <1>5, <1>6 DEF Next

\* A batch or cohort job that says it has completed has enrolled every student of its list
\* itself and once, and one that says it has failed has left none of them out, whatever
\* other jobs and requests did meanwhile: create_batch_enrollment_job.
THEOREM JobsTruthful == Spec => []JobStatusTruthful
<1>1. Init => JobInv
  BY BoundsAssumption DEF Init, JobInv, Truthful, Idle, Absent
<1>2. JobInv => JobStatusTruthful
  BY DEF JobInv, Truthful, JobStatusTruthful
<1> QED BY <1>1, <1>2, NextJobs, Invariance, PTL DEF Spec

=============================================================================
