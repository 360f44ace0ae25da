\* Billing under dispute: one buyer, two billing ids of up to three attempts, reservations
\* that are closed without a receipt and renewed, a chargeback, a ban, a rail change and a
\* payout rotation at any point.
SPECIFICATION Spec
CONSTANTS
    u1 = u1  u2 = u2  p1 = p1  p2 = p2  b1 = b1  b2 = b2  b3 = b3
    r1 = r1  r2 = r2  r3 = r3  r4 = r4  d1 = d1  d2 = d2
    User = {u1}  Provider = {p1}  Billing = {b1, b2}
    Reservation = {r1, r2, r3}
    Deposit = {d1}  DepositTerms <- OneDeposit8  Reversible = {d1}
    Dispute = {1}  DisputedAu = {5}
    Rail = "fiat"  FeeBps = 1500
    MaxSpend = {4}  Owed = {2, 4}  Baseline = {0, 2, 4}
    ExpiryEpochs = 1  GraceEpochs = 0  MaxApplyBatch = 10  IndexPageSize = 2
    Churning = {p1}
    MaxAttempt = 2  MaxSeq = 2  MaxRevision = 2  MaxEpoch = 2  LastReserveEpoch = 1
SYMMETRY IdSymmetry
INVARIANTS
    ReservedBacked
    ValueConserved
    ReservedIsOutstanding
    AttemptChain
    BilledOnce
PROPERTY EvidenceFixed
CHECK_DEADLOCK FALSE
