\* Settlement in pages: two buyers, two providers, three receipts whose gross
\* amounts straddle the points where fee and burn are rounded, on the TAP rail.
SPECIFICATION Spec
CONSTANTS
    u1 = u1  u2 = u2  p1 = p1  p2 = p2  b1 = b1  b2 = b2  b3 = b3
    r1 = r1  r2 = r2  r3 = r3  r4 = r4  d1 = d1  d2 = d2
    User = {u1, u2}  Provider = {p1, p2}  Billing = {b1, b2, b3}
    Reservation = {r1, r2, r3}
    Deposit = {d1, d2}  DepositTerms <- TwoDeposits  Reversible = {d2}
    Dispute = {}  DisputedAu = {}
    Rail = "tap"  FeeBps = 1500
    MaxSpend = {10}  Owed = {6, 10}  Baseline = {}
    ExpiryEpochs = 1  GraceEpochs = 0  MaxApplyBatch = 4  IndexPageSize = 1
    Churning = {}
    MaxAttempt = 0  MaxSeq = 1  MaxRevision = 1  MaxEpoch = 2  LastReserveEpoch = 1
SYMMETRY IdSymmetry
INVARIANTS
    PagingIsNeutral
    CommitReachable
    NoReceiptLeftBehind
    IndexedOnce
    IngressAlwaysOpen
CHECK_DEADLOCK FALSE
