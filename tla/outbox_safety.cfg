SPECIFICATION Spec
CONSTANTS
    NoReceipt = NoReceipt
    a1 = a1
    Attempts = {a1}
    MaxSeq = 2
    MaxEntries = 3
    Reserve = 1
    MaxSessions = 1
    BuyerExpiry = TRUE
    Workers = {"fresh", "retry"}
    DiskFaults = TRUE
    MaxCrashes = 1
INVARIANTS
    OutboxLoadable
    CloseFreezesNothing
PROPERTIES
    EvidenceDurable
CHECK_DEADLOCK FALSE
