SPECIFICATION Spec
CONSTANTS
    NoRecord = NoRecord
    Jobs = {1}
    MaxJobs = 1
    MaxBytes = 2
    Ttl = 1
    PassLimit = 1
    ReuseEarly = FALSE
    Outcomes = {"completed", "cancelled", "failed"}
    Stuck = {}
    MaxAttempts = 3
    MaxTime = 2
    MaxCrashes = 1
    MaxFaults = 1
INVARIANTS
    SettledBeforeTerminal
    EndsAsStaged
PROPERTIES
    NoSecondExecution
    EvidenceKept
CHECK_DEADLOCK FALSE
