SPECIFICATION FairSpec
CONSTANTS
    NoEntry = NoEntry
    Names = {"worker", "once"}
    Configured <- OneWorker
    Restarts = {"worker"}
    Threshold = 2
    MaxTasks = 2
    MaxFaults = 2
INVARIANTS
    StatusTruthful
PROPERTIES
    TasksObey
CHECK_DEADLOCK FALSE
