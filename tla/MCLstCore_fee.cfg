\* The performance fee: harvests of one page and of the whole set, with Sync, a deposit, a request, a burn, a slash, gifts and changes of the fee between them.
SPECIFICATION Spec
CONSTANTS
    None = None
    v1 = v1  v2 = v2  v3 = v3  v4 = v4  u1 = u1  u2 = u2
    Users = {u1, u2}
    Treasury = u2
    Validators = {v1, v2}
    Allowlist = {v1, v2}
    InitialWeights <- TwoEqual
    WindowLength = 1
    UnbondingPeriod = 1
    EntryCeiling = 2
    ChainMaxEntries = 3
    MinDeposit = 1
    InitialFee = 1000
    InitialMaxFee = 1000
    MaxWeight = 5000
    MaxPerformanceFee = 2000
    MigrationMaxFee = 1500
    MinBootstrapSeed = 100
    MaxTotalSupply = 300
    ReleaseLag = 0
    SlashBps = 5000
    Seeds = {100}
    Deposits = {70}
    Requests = {60}
    Rewards = {30}
    FeeChoices = {1000, 1500}
    WeightChoices <- NoWeights
    Moves <- NoMoves
    PauseChoices = {}
    PageLimits = {1, 2}
    CollectLimits = {}
    ClaimLists <- AllOrOne
    Bound <- FeeBound
    MaxTime = 0
INVARIANTS
    FeeWithinLimit
PROPERTIES
    FeeIsExact
