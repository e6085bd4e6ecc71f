CONSTANTS
    a1 = a1
    i1 = i1
    i2 = i2
    Account = {a1}
    Role = {"institution_admin"}
    Permission <- MCPermission
    Institution = {i1, i2}
    Platform = platform
    Key <- MCKey
    Row = {r1, r2}
    Worker = {w1, w2}
    None = none
    MaxRoleChanges = 1
    Section = {d1}
    Home <- MCHome
    Seeded = {i2, d1}
    Clerk = {c1, c2}
    MaxStarted = 2
    Secret = {r1, r2}
    User = {c1, c2}
    Asker = {w1, w2}
    Nobody = nobody
    Limit = 1
    MaxAsked = 4
SPECIFICATION AccountServicesSpec
SYMMETRY Symmetry
INVARIANTS
    CacheAgrees
    AccountsAgree
PROPERTIES
    LoginsGuarded
    ImplementsOneTimeSecret
CHECK_DEADLOCK FALSE
