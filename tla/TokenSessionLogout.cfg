SPECIFICATION Spec
CONSTANTS
    Account = {a1}
    Pair = {k1, k2}
    Request = {r1, r2}
    None = None
    MaxTime = 3
    MaxRevocations = 0
    AccessLifetime = 4
    RefreshLifetime = 5
    TicksPerSecond = 2
    RedisCanFail = TRUE
    Operations = {"login", "logout"}
SYMMETRY Symmetry
CHECK_DEADLOCK FALSE
INVARIANTS
    LoggedOutAccessRejected
