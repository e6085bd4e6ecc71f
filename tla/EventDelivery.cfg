SPECIFICATION FairSpec
CONSTANTS
    Event = {e1, e2}
    MayBeMalformed = {e2}
    Services = {"progress", "notification", "analytics"}
    MaxAttempts = 2
    MaxFaults = 2
    MaxCrashes = 1
    MaxIngests = 1
    MaxReplays = 1
INVARIANTS
    QueuesAgree
    UniqueEventIdAppliedAtMostOnce
    AtomicHandlerLosesNothing
PROPERTY EventuallySettled
CHECK_DEADLOCK FALSE
