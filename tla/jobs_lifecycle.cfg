SPECIFICATION FairSpec
CONSTANTS
    NoRecord = NoRecord
    Jobs = {1, 2}
    MaxJobs = 1
    MaxBytes = 3
    Ttl = 1
    PassLimit = 1
    ReuseEarly = FALSE
    Outcomes = {"completed"}
    Stuck = {1}
    MaxAttempts = 1
    MaxTime = 1
    MaxCrashes = 1
    MaxFaults = 0
INVARIANTS
    VaultReopens
PROPERTIES
    ImplementsLifecycle
    PendingResolves
CHECK_DEADLOCK FALSE
