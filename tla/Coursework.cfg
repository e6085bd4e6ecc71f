CONSTANTS
    b1 = b1
    q1 = q1
    x = x
    Bank = {b1}
    Question = {q1, q2}
    Home <- MCHome
    Choice = {x}
    Payload <- MCPayload
    Seed <- MCSeed
    Position = {1, 2}
    Date = {1}
    Student = {s1}
    Enrolled = {s1}
    Granted <- MCGranted
    Worker = {w1, w2}
    None = none
    MaxTime = 2
    MaxStarted = 3
SPECIFICATION CourseworkSpec
SYMMETRY Symmetry
INVARIANTS
    AuthoringAgrees
    SubmissionsAgree
PROPERTY ShutTakesNothing
CHECK_DEADLOCK FALSE
