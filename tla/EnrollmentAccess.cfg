SPECIFICATION Spec
CONSTANTS
    Student = {s1, s2}
    Worker = {w1, w2}
    Job = {j1}
    NoJob = NoJob
    MaxTime = 1
    MaxRecorded = 3
    MaxList = 2
    MaxCrashes = 1
SYMMETRY Symmetry
INVARIANTS
    TypeOK
    AccessEndsWithEnrollment
    SerialChangesAgree
    JobStatusTruthful
CHECK_DEADLOCK FALSE
