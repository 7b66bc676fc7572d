\* The manager between users: new weights and rebalancing between deposits and harvests.
SPECIFICATION Spec
CONSTANTS
    None = None
    v1 = v1  v2 = v2  v3 = v3  v4 = v4  u1 = u1  u2 = u2
    Users = {u1, u2}
    Treasury = u2
    Validators = {v1, v2, v3, v4}
    Allowlist = {v1, v2, v3}
    InitialWeights <- TwoEqual
    WindowLength = 1
    UnbondingPeriod = 1
    EntryCeiling = 2
    ChainMaxEntries = 3
    MinDeposit = 1
    InitialFee = 1000
    InitialMaxFee = 1000
    MaxWeight = 5000
    MaxPerformanceFee = 2000
    MigrationMaxFee = 1500
    MinBootstrapSeed = 2
    MaxTotalSupply = 9
    ReleaseLag = 0
    SlashBps = 5000
    Seeds = {2}
    Deposits = {4}
    Requests = {}
    Rewards = {2}
    FeeChoices = {}
    WeightChoices <- Rotations
    Moves <- SomeMoves
    PauseChoices = {TRUE, FALSE}
    PageLimits = {3}
    CollectLimits = {}
    ClaimLists <- OnlyAll
    Bound <- ManagerBound
    MaxTime = 0
INVARIANTS
    WeightsComplete
    EntriesAreUnique
PROPERTIES
    DrainingGainsNothing
