\* The withdrawal queue without slashing: requests, closings, maturity, claims.
SPECIFICATION Spec
CONSTANTS
    None = None
    v1 = v1  v2 = v2  v3 = v3  v4 = v4  u1 = u1  u2 = u2
    Users = {u1, u2}
    Treasury = u2
    Validators = {v1, v2}
    Allowlist = {v1, v2}
    InitialWeights <- TwoEqual
    WindowLength = 1
    UnbondingPeriod = 1
    EntryCeiling = 2
    ChainMaxEntries = 3
    MinDeposit = 1
    InitialFee = 1000
    InitialMaxFee = 1000
    MaxWeight = 5000
    MaxPerformanceFee = 2000
    MigrationMaxFee = 1500
    MinBootstrapSeed = 2
    MaxTotalSupply = 12
    ReleaseLag = 0
    SlashBps = 5000
    Seeds = {2}
    Deposits = {3}
    Requests = {1, 2}
    Rewards = {}
    FeeChoices = {}
    WeightChoices <- NoWeights
    Moves <- NoMoves
    PauseChoices = {}
    PageLimits = {}
    CollectLimits = {1, 2}
    ClaimLists <- AllOrOne
    Bound <- QueueBound
    MaxTime = 4
INVARIANTS
    QueueWellFormed
    LiabilitiesMatchWindows
    ClaimsMatchWindows
    EntrySlotsMatchWindows
    FullPaymentUnlessSlashed
PROPERTIES
    ClaimsAreFinal
    WindowsMoveForward
