---------------------------- MODULE Certificates ----------------------------
(***************************************************************************)
(* The certificate of the student whose grades Grading models: evaluating  *)
(* the eligibility from the progress of the course and the published       *)
(* results, issuing the certificate, linking an asset to it, revoking it.  *)
(* The system is grading and certificates together, and progress-service,  *)
(* which says whether the course is completed.                             *)
(***************************************************************************)
EXTENDS Grading

CONSTANTS
    Clerk,        \* requests about the certificate in progress
    Threshold     \* certificate_min_percent, or its default

\* A certificate by its revoked_at; which asset shows it tells nothing apart.
Certificate == {"valid", "revoked"}

ASSUME CertificateAssumption ==
    Threshold \in Nat /\ None \notin Certificate /\ None \notin BOOLEAN

VARIABLES
    completed,      \* what progress-service says of the course
    eligible,       \* the row of certificate_eligibility, None before it exists
    certificate,    \* None before it is issued
    clerk,          \* what each request is doing
    earned          \* history: has the course been completed, and have the published
                    \* results reached the threshold after that

certificateVars == <<completed, eligible, certificate, clerk>>
vars == <<gradeVars, certificateVars, earned>>

ClerkState ==
    {Idle}
    \cup [op : {"completed"}]
    \cup [op : {"decided"}, eligible : BOOLEAN]
    \cup [op : {"link", "revoke"}, copy : Certificate]

TypeOK ==
    /\ GradeTypeOK
    /\ completed \in BOOLEAN
    /\ eligible \in BOOLEAN \cup {None}
    /\ certificate \in Certificate \cup {None}
    /\ clerk \in [Clerk -> ClerkState]
    /\ \A c \in Clerk : clerk[c].op \in {"link", "revoke"} => certificate # None
    /\ earned \in {"no", "completed", "passed"}

\* published_grade_percent, rounded half up to hundredths, against the threshold:
\* published scores over the maxima the records have now.
Passing ==
    LET rows == {r \in Row : result[r] # None}
        total == MapThenSumSet(LAMBDA r : result[r], rows)
        max == MapThenSumSet(LAMBDA r : record[r].max, rows)
    IN  max > 0 /\ (20000 * total + max) \div (2 * max) >= 100 * Threshold

Init ==
    /\ GradeInit
    /\ completed = FALSE
    /\ eligible = None
    /\ certificate = None
    /\ clerk = [c \in Clerk |-> Idle]
    /\ earned = "no"

-----------------------------------------------------------------------------
(* evaluate_certificate_eligibility *)

\* Progress is completed, or has more to complete again.
Recalculate ==
    /\ completed' = ~completed
    /\ UNCHANGED <<eligible, certificate, clerk>>

\* Mutation of FetchProgress: missing progress is passed over.
SkipProgress(c) ==
    /\ clerk[c] = Idle
    /\ clerk' = [clerk EXCEPT ![c] = [op |-> "completed"]]
    /\ UNCHANGED <<completed, eligible, certificate>>

\* A request for an evaluation begins by asking progress-service.
FetchProgress(c) ==
    /\ clerk[c] = Idle
    /\ clerk' = [clerk EXCEPT ![c] =
          IF completed THEN [op |-> "completed"]
          ELSE [op |-> "decided", eligible |-> FALSE]]
    /\ UNCHANGED <<completed, eligible, certificate>>

ReadResults(c) ==
    /\ clerk[c].op = "completed"
    /\ clerk' = [clerk EXCEPT ![c] = [op |-> "decided", eligible |-> Passing]]
    /\ UNCHANGED <<completed, eligible, certificate>>

\* issue_certificate: the existing certificate, revoked or not, or a new one.
Issued(old) == IF old = None THEN "valid" ELSE old

\* The commit.  The transaction holds the lock of the eligibility row.
StoreDecision(c) ==
    /\ clerk[c].op = "decided"
    /\ eligible' = clerk[c].eligible
    /\ certificate' = IF clerk[c].eligible THEN Issued(certificate) ELSE certificate
    /\ clerk' = [clerk EXCEPT ![c] = Idle]
    /\ UNCHANGED completed

-----------------------------------------------------------------------------
(* update_certificate_asset, revoke_certificate *)

\* Mutation of Open: a certificate that is not there is not noticed.
OpenMissing(c, op) ==
    /\ clerk[c] = Idle
    /\ clerk' = [clerk EXCEPT ![c] = [op |-> op, copy |-> certificate]]
    /\ UNCHANGED <<completed, eligible, certificate>>

\* The views load the certificate first, or answer 404.
Open(c, op) ==
    /\ clerk[c] = Idle /\ certificate # None
    /\ clerk' = [clerk EXCEPT ![c] = [op |-> op, copy |-> certificate]]
    /\ UNCHANGED <<completed, eligible, certificate>>

\* Mutation of Link: save() writes every column of the copy.
LinkCopy(c) ==
    /\ clerk[c].op = "link"
    /\ certificate' = clerk[c].copy
    /\ clerk' = [clerk EXCEPT ![c] = Idle]
    /\ UNCHANGED <<completed, eligible>>

\* Only the asset is written.
Link(c) ==
    /\ clerk[c].op = "link"
    /\ clerk' = [clerk EXCEPT ![c] = Idle]
    /\ UNCHANGED <<completed, eligible, certificate>>

Revoke(c) ==
    /\ clerk[c].op = "revoke"
    /\ certificate' = IF clerk[c].copy = "revoked" THEN certificate ELSE "revoked"
    /\ clerk' = [clerk EXCEPT ![c] = Idle]
    /\ UNCHANGED <<completed, eligible>>

GiveUp(c) ==
    /\ clerk[c] # Idle
    /\ clerk' = [clerk EXCEPT ![c] = Idle]
    /\ UNCHANGED <<completed, eligible, certificate>>

CertificateNext ==
    \/ Recalculate
    \/ \E c \in Clerk :
        \/ FetchProgress(c) \/ ReadResults(c) \/ StoreDecision(c)
        \/ \E op \in {"link", "revoke"} : Open(c, op)
        \/ Link(c) \/ Revoke(c) \/ GiveUp(c)

-----------------------------------------------------------------------------
(* Grading and certificates together *)

\* What has been true in a state before the step.
Observe ==
    earned' = IF earned = "no" /\ completed THEN "completed"
              ELSE IF earned = "completed" /\ Passing THEN "passed"
              ELSE earned

Next ==
    /\ \/ GradeNext /\ UNCHANGED certificateVars
       \/ CertificateNext /\ UNCHANGED gradeVars
    /\ Observe

Spec == Init /\ [][Next]_vars

-----------------------------------------------------------------------------
(* Properties *)

\* No certificate without published results that reached the threshold once the
\* course had been completed, although evaluations, publications and overrides
\* interleave.
CertificateEarned == certificate # None => earned = "passed"

\* A student who is eligible has a certificate.
EligibleHasCertificate == eligible = TRUE => certificate # None

\* A revoked certificate stays revoked: neither another evaluation nor a request
\* that loaded it before the revocation makes it valid again.
RevocationStays ==
    [][certificate = "revoked" => certificate' = "revoked"]_vars

\* Certificates are for students who earned them, and exist for those who are eligible.
CertificatesAgree == CertificateEarned /\ EligibleHasCertificate

=============================================================================
