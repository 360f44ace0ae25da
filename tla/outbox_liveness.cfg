SPECIFICATION FairSpec
CONSTANTS
    NoReceipt = NoReceipt
    a1 = a1
    Attempts = {a1}
    MaxSeq = 2
    MaxEntries = 3
    Reserve = 1
    MaxSessions = 1
    BuyerExpiry = FALSE
    Workers = {"retry"}
    DiskFaults = FALSE
    MaxCrashes = 1
PROPERTIES
    ProviderEntriesRetire
    ReservationsClose
CHECK_DEADLOCK FALSE
