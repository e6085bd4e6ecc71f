-------------------------- MODULE EnrollmentAccess --------------------------
(***************************************************************************)
(* Enrollments of the students of one course in enrollment-service, and    *)
(* the access grants other services ask about.                             *)
(*                                                                         *)
(* An enrollment is created with its first history entry and its grant in  *)
(* one transaction.  A change of its status has no transaction: saving the *)
(* status, adding the history entry, fetching the grant and saving it      *)
(* again are queries of their own, between which another request may run   *)
(* or the process may stop.  Batch and cohort jobs enroll one student      *)
(* after the other.                                                        *)
(***************************************************************************)
EXTENDS Naturals, Sequences, Functions

CONSTANTS
    Student,
    Worker,          \* requests in progress
    Job,             \* rows of batch_enrollments and cohort_enrollments
    NoJob,
    MaxTime,         \* bound on the clock
    MaxRecorded,     \* no status change begins with that many history entries
    MaxList,         \* bound on the students of a job
    MaxCrashes       \* bound on requests cut short

ASSUME BoundsAssumption ==
    /\ MaxTime \in Nat /\ MaxRecorded \in Nat
    /\ MaxList \in Nat /\ MaxCrashes \in Nat
    /\ NoJob \notin Job

VARIABLES
    now,
    enrollment,   \* status and expires_at; Absent before the row exists
    grant,        \* access_status and valid_until of the student's grant
    history,      \* to_status of the entries of enrollment_history
    job,          \* status and students of each job
    worker,       \* what each request is doing
    enrolledBy,   \* the job that enrolled a student
    torn,         \* students with status changes that overlapped or were cut short
    crashes

vars == <<now, enrollment, grant, history, job, worker, enrolledBy, torn, crashes>>

Status == {"active", "completed", "expired", "cancelled", "suspended"}
GrantStatus == {"active", "expired", "suspended", "revoked"}

\* A date is a time, or later than every time where it is null.
Never == MaxTime + 1
Date == 0 .. Never

Absent == [status |-> "absent"]
Idle == [op |-> "idle"]

Enrollment == [status : Status, expires : Date]
Grant == [status : GrantStatus, until : Date]

\* Student ids as a request lists them, repetitions included.
List == UNION {[1 .. n -> Student] : n \in 0 .. MaxList}

WorkerState ==
    {Idle}
    \cup [op : {"transition"}, step : {"saved", "recorded"},
          student : Student, to : Status]
    \cup [op : {"transition"}, step : {"fetched"},
          student : Student, to : Status, grant : Grant]
    \cup [op : {"job"}, job : Job, todo : List, failed : Nat]

TypeOK ==
    /\ now \in 0 .. MaxTime
    /\ enrollment \in [Student -> Enrollment \cup {Absent}]
    /\ grant \in [Student -> Grant \cup {Absent}]
    /\ \A s \in Student : grant[s] = Absent <=> enrollment[s] = Absent
    /\ history \in [Student -> Seq(Status)]
    /\ job \in [Job -> {Absent} \cup
            [status : {"processing", "completed", "failed"}, students : List]]
    /\ worker \in [Worker -> WorkerState]
    /\ enrolledBy \in [Student -> Job \cup {NoJob}]
    /\ torn \subseteq Student
    /\ crashes \in 0 .. MaxCrashes

Init ==
    /\ now = 0
    /\ enrollment = [s \in Student |-> Absent]
    /\ grant = [s \in Student |-> Absent]
    /\ history = [s \in Student |-> <<>>]
    /\ job = [j \in Job |-> Absent]
    /\ worker = [w \in Worker |-> Idle]
    /\ enrolledBy = [s \in Student |-> NoJob]
    /\ torn = {}
    /\ crashes = 0

Tick ==
    /\ now < MaxTime
    /\ now' = now + 1
    /\ UNCHANGED <<enrollment, grant, history, job, worker, enrolledBy, torn, crashes>>

-----------------------------------------------------------------------------
(* Enrolling *)

\* Mutation of Enroll: the grant is left to the first change of status.
UngrantedEnroll(s, expires, j) ==
    /\ enrollment[s] = Absent
    /\ enrollment' = [enrollment EXCEPT ![s] = [status |-> "active", expires |-> expires]]
    /\ history' = [history EXCEPT ![s] = Append(@, "active")]
    /\ enrolledBy' = [enrolledBy EXCEPT ![s] = j]
    /\ UNCHANGED grant

\* create_enrollment: one transaction, refused for a student who is enrolled.
Enroll(s, expires, j) ==
    /\ enrollment[s] = Absent
    /\ enrollment' = [enrollment EXCEPT ![s] = [status |-> "active", expires |-> expires]]
    /\ history' = [history EXCEPT ![s] = Append(@, "active")]
    /\ grant' = [grant EXCEPT ![s] = [status |-> "active", until |-> expires]]
    /\ enrolledBy' = [enrolledBy EXCEPT ![s] = j]

\* A request for one student, with any expires_at (one in the past is as good as
\* one that passes next).
Create(s, expires) ==
    /\ Enroll(s, expires, NoJob)
    /\ UNCHANGED <<now, job, worker, torn, crashes>>

\* create_batch_enrollment_job, create_cohort_enrollment_job
StartJob(w, j, students) ==
    /\ worker[w] = Idle /\ job[j] = Absent
    /\ job' = [job EXCEPT ![j] = [status |-> "processing", students |-> students]]
    /\ worker' = [worker EXCEPT ![w] =
          [op |-> "job", job |-> j, todo |-> students, failed |-> 0]]
    /\ UNCHANGED <<now, enrollment, grant, history, enrolledBy, torn, crashes>>

\* Mutation of CountFailure: a student who is enrolled already is passed over.
CountNothing(failed) == failed

CountFailure(failed) == failed + 1

\* A round of _create_many_enrollments: the next student is enrolled, or fails.
RunJob(w) ==
    LET s == Head(worker[w].todo) IN
    /\ worker[w].op = "job" /\ worker[w].todo # <<>>
    /\ \/ /\ Enroll(s, Never, worker[w].job)
          /\ worker' = [worker EXCEPT ![w].todo = Tail(@)]
       \/ /\ enrollment[s] # Absent
          /\ worker' = [worker EXCEPT ![w].todo = Tail(@), ![w].failed = CountFailure(@)]
          /\ UNCHANGED <<enrollment, grant, history, enrolledBy>>
    /\ UNCHANGED <<now, job, torn, crashes>>

FinishJob(w) ==
    /\ worker[w].op = "job" /\ worker[w].todo = <<>>
    /\ job' = [job EXCEPT ![worker[w].job].status =
          IF worker[w].failed = 0 THEN "completed" ELSE "failed"]
    /\ worker' = [worker EXCEPT ![w] = Idle]
    /\ UNCHANGED <<now, enrollment, grant, history, enrolledBy, torn, crashes>>

-----------------------------------------------------------------------------
(* Changing a status: transition_enrollment and sync_access_grant *)

At(w, step) == worker[w].op = "transition" /\ worker[w].step = step

\* The request has changed the status and not yet the grant.
Changing(w, s) == worker[w].op = "transition" /\ worker[w].student = s

Recorded == FoldFunction(+, 0, [s \in Student |-> Len(history[s])])

\* The row was loaded by the view; its other columns never change.
SaveStatus(w, s, to) ==
    /\ worker[w] = Idle /\ enrollment[s] # Absent
    /\ Recorded < MaxRecorded
    /\ enrollment' = [enrollment EXCEPT ![s].status = to]
    /\ worker' = [worker EXCEPT ![w] =
          [op |-> "transition", step |-> "saved", student |-> s, to |-> to]]
    /\ torn' = IF \E v \in Worker : Changing(v, s) THEN torn \cup {s} ELSE torn
    /\ UNCHANGED <<now, grant, history, job, enrolledBy, crashes>>

RecordHistory(w) ==
    LET s == worker[w].student IN
    /\ At(w, "saved")
    /\ history' = [history EXCEPT ![s] = Append(@, worker[w].to)]
    /\ worker' = [worker EXCEPT ![w].step = "recorded"]
    /\ UNCHANGED <<now, enrollment, grant, job, enrolledBy, torn, crashes>>

FetchGrant(w) ==
    LET s == worker[w].student IN
    /\ At(w, "recorded")
    /\ worker' = [worker EXCEPT ![w] =
          [op |-> "transition", step |-> "fetched", student |-> s, to |-> worker[w].to,
           grant |-> grant[s]]]
    /\ UNCHANGED <<now, enrollment, grant, history, job, enrolledBy, torn, crashes>>

\* The end of the grant stays where it has one.
Ended(g) == IF g.until = Never THEN now ELSE g.until

\* Mutation of Synced: a completed enrollment keeps its access.
LenientSynced(g, status) ==
    CASE status \in {"active", "completed"} -> [g EXCEPT !.status = "active"]
      [] status = "expired"   -> [status |-> "expired", until |-> Ended(g)]
      [] status = "suspended" -> [g EXCEPT !.status = "suspended"]
      [] status = "cancelled" -> [status |-> "revoked", until |-> Ended(g)]

\* Mutation of Synced: activating an enrollment removes the end of its grant.
EndlessSynced(g, status) ==
    CASE status = "active"    -> [status |-> "active", until |-> Never]
      [] status = "expired"   -> [status |-> "expired", until |-> Ended(g)]
      [] status = "suspended" -> [g EXCEPT !.status = "suspended"]
      [] status \in {"cancelled", "completed"} -> [status |-> "revoked", until |-> Ended(g)]

\* The grant of an enrollment of that status.
Synced(g, status) ==
    CASE status = "active"    -> [g EXCEPT !.status = "active"]
      [] status = "expired"   -> [status |-> "expired", until |-> Ended(g)]
      [] status = "suspended" -> [g EXCEPT !.status = "suspended"]
      [] status \in {"cancelled", "completed"} -> [status |-> "revoked", until |-> Ended(g)]

SaveGrant(w) ==
    /\ At(w, "fetched")
    /\ grant' = [grant EXCEPT ![worker[w].student] = Synced(worker[w].grant, worker[w].to)]
    /\ worker' = [worker EXCEPT ![w] = Idle]
    /\ UNCHANGED <<now, enrollment, history, job, enrolledBy, torn, crashes>>

\* A process dies, or a query fails: what was saved stays.
Crash(w) ==
    /\ worker[w] # Idle /\ crashes < MaxCrashes
    /\ crashes' = crashes + 1
    /\ worker' = [worker EXCEPT ![w] = Idle]
    /\ torn' = torn \cup {s \in Student : Changing(w, s)}
    /\ UNCHANGED <<now, enrollment, grant, history, job, enrolledBy>>

-----------------------------------------------------------------------------

Next ==
    \/ Tick
    \/ \E s \in Student, expires \in 1 .. Never : Create(s, expires)
    \/ \E w \in Worker :
        \/ \E j \in Job, students \in List : StartJob(w, j, students)
        \/ \E s \in Student, to \in Status : SaveStatus(w, s, to)
        \/ RunJob(w) \/ FinishJob(w)
        \/ RecordHistory(w) \/ FetchGrant(w) \/ SaveGrant(w)
        \/ Crash(w)

Spec == Init /\ [][Next]_vars

-----------------------------------------------------------------------------
(* Properties *)

\* has_active_access
Access(s) == grant[s].status = "active" /\ grant[s].until > now

Settled(s) == \A w \in Worker : ~Changing(w, s)

\* No sequence of status changes, however they overlap, are cut short or work on
\* an old copy of the grant, gives access past the end of the enrollment.
AccessEndsWithEnrollment ==
    \A s \in Student : enrollment[s] # Absent /\ Access(s) => now < enrollment[s].expires

\* As long as the status changes of a student come one after the other, its
\* status, its history and its access agree.
SerialChangesAgree ==
    \A s \in Student \ torn : enrollment[s] # Absent /\ Settled(s) =>
        /\ history[s][Len(history[s])] = enrollment[s].status
        /\ Access(s) => enrollment[s].status = "active"

\* A job that has finished leaves none of its students out.  It reports success
\* if and only if it has enrolled them all itself, each of them once; whatever
\* other jobs and requests did meanwhile.
JobStatusTruthful ==
    \A j \in Job : job[j].status \in {"completed", "failed"} =>
        LET students == job[j].students IN
        /\ \A i \in DOMAIN students : enrollment[students[i]] # Absent
        /\ job[j].status = "completed" <=>
              \A i \in DOMAIN students :
                /\ enrolledBy[students[i]] = j
                /\ \A k \in DOMAIN students : students[i] = students[k] => i = k

\* "Course access is granted only for active enrollment"
\* (docs/specs/009-enrollment-access-management.md:24), once no change is in progress.
\* The code does not meet it: of two overlapping changes one may save its status last
\* and the other its grant.
AccessOnlyIfActive ==
    \A s \in Student : enrollment[s] # Absent /\ Settled(s) /\ Access(s) =>
        enrollment[s].status = "active"

=============================================================================
