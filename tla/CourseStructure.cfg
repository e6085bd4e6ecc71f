SPECIFICATION Spec
CONSTANTS
    Row = {r1, r2}
    Scope = {s1, s2}
    Worker = {w1, w2}
    NoWorker = NoWorker
    Kinds = {"module", "lesson", "topic"}
    MaxPosition = 3
SYMMETRY Symmetry
INVARIANTS
    TypeOK
    LeaseProtects
    ReorderFitsBelowArchived
CHECK_DEADLOCK FALSE
