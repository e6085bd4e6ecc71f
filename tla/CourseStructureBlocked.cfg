SPECIFICATION Spec
CONSTANTS
    Row = {r1, r2}
    Scope = {s1}
    Worker = {w1}
    NoWorker = NoWorker
    Kinds = {"module"}
    MaxPosition = 3
SYMMETRY Symmetry
INVARIANT ReorderAlwaysFits
CHECK_DEADLOCK FALSE
