SPECIFICATION Spec
CONSTANTS
    Account = {a1}
    Pair = {k1, k2, k3}
    Request = {r1, r2}
    None = None
    MaxTime = 1
    MaxRevocations = 2
    AccessLifetime = 1
    RefreshLifetime = 2
    TicksPerSecond = 1
    RedisCanFail = TRUE
    Operations = {"login", "refresh", "deactivate", "reset", "status"}
SYMMETRY Symmetry
CHECK_DEADLOCK FALSE
INVARIANTS
    TypeOK
    RotatedAtMostOnce
    RevocationCutsOffOldCredentials
    
PROPERTY RevokedNeverRotated
