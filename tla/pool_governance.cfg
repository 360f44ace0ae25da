SPECIFICATION LiveSpec
CONSTANTS
    alice = alice
    operator = operator
    governor = governor
    pool = pool
    zero = zero
    Address <- MCAddress
    ZeroAddress = zero
    PoolAddress = pool
    GovernanceSigner = governor
    InitialOwner = operator
    GovernanceDelay = 1
    InitialMaxEpochDelta = 7
    LocalChain = FALSE
    MaxTime = 3
    Epoch = {1, 2}
    Roots <- GovernanceRoots
    Spend = {6, 7}
    CapChoice = {8}
    Amount = {1, 7}
    Fee = {0, 1}
    OwnerCandidate <- OwnerChoices
    MaxInflow = 8
    MaxSigned = 2
INVARIANTS SplitWithinOneWei Solvency GovernanceNeverStalls ClaimsMatchRoots
PROPERTY RootLands
CHECK_DEADLOCK FALSE
