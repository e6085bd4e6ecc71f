SPECIFICATION Spec
CONSTANTS
    Question = {q1}
    Worker = {w1, w2}
    Limits = {1, 2}
    MaxPoints = 1
    MaxEdits = 1
    MaxAttempts = 2
SYMMETRY Symmetry
INVARIANTS
    AttemptsAgree
    AttemptsWithinLimit
PROPERTY ClosedIsFinal
CHECK_DEADLOCK FALSE
