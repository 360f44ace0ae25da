\* A provider rotates its payout target while a receipt of the old revision is open.
SPECIFICATION LiveSpec
CONSTANTS
    u1 = u1  u2 = u2  p1 = p1  p2 = p2  b1 = b1  b2 = b2  b3 = b3
    r1 = r1  r2 = r2  r3 = r3  r4 = r4  d1 = d1  d2 = d2
    User = {u1}  Provider = {p1}  Billing = {b1}
    Reservation = {r1}
    Deposit = {d1}  DepositTerms <- OneDeposit8  Reversible = {}
    Dispute = {}  DisputedAu = {}
    Rail = "fiat"  FeeBps = 1500
    MaxSpend = {4}  Owed = {2, 4}  Baseline = {}
    ExpiryEpochs = 1  GraceEpochs = 1  MaxApplyBatch = 3  IndexPageSize = 2
    Churning = {}
    MaxAttempt = 0  MaxSeq = 1  MaxRevision = 2  MaxEpoch = 4  LastReserveEpoch = 2
PROPERTY
    ReceiptsSettle
CHECK_DEADLOCK FALSE
