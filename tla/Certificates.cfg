SPECIFICATION Spec
CONSTANTS
    Row = {r1}
    Submission = {q1}
    Worker = {w1, w2}
    Clerk = {c1, c2}
    None = None
    Score = {1, 2}
    Maximum = {2}
    Threshold = 70
    MaxChanges = 2
SYMMETRY Symmetry
INVARIANTS
    TypeOK
    HistoryAccounts
    GradedMeansPublished
    CertificatesAgree
PROPERTY RevocationStays
