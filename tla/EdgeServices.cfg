SPECIFICATION EdgeSpec
CONSTANTS
    Profile = {owner, p1}
    Owner = owner
    Link = {l1}
    Client = {w1, w2}
    None = none
    ScanEnabled = TRUE
    MaxStarted = 4
    Recipient = {p2, p3}
    Notice = {n1}
    Handler = {h1, h2}
    Opener = {o1}
    MaxHandlings = 2
    MaxEdits = 2
    Viewer = {v1}
    Viewing = {d1, d2}
    Writing = {a1}
    LastDay = 2
    MaxMetrics = 2
    MaxRedisFaults = 1
    Fact = {f1, f2}
    Metric = {m1}
    Resource = {r1}
    Institution = {i1, i2}
    Snapshot = {s1}
    MaxWrites = 2
INVARIANTS
    DashboardsAgree
    ReportsAgree
PROPERTIES
    
    NoticesAgree
CHECK_DEADLOCK FALSE
