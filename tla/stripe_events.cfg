\* One webhook request at a time beside the backfill loop: the payment and its first
\* dispute reach only the backfill, the second dispute both.
SPECIFICATION FairSpec
CONSTANTS
    p1 = p1  d1 = d1  d2 = d2  w1 = w1
    Payments = {p1}  Disputes = {d1, d2}
    Of <- MCOf  Minor <- MCMinor  Created <- MCCreated
    Foreign = {}  Malformed = {}
    AuPerCent = 2
    Workers = {w1}  Backfill = backfill  None = none
    Silent = {p1, d1}
    MaxDeliveries = 2  MaxLost = 1  MaxCrashes = 1
INVARIANTS
    RecordedIsApplied
    ExactShare
    NothingSkipped
PROPERTY SilentRecorded
