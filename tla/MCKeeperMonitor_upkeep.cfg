\* Sync and Compound by pages, between deposits, requests and burns that the cache does not see.
SPECIFICATION MonitorSpec
CONSTANTS
    None = None
    v1 = v1  v2 = v2  v3 = v3  v4 = v4  u1 = u1  u2 = u2
    Users = {u1, u2}
    Treasury = u2
    Validators = {v1, v2}
    Allowlist = {v1, v2}
    InitialWeights <- TwoEqual
    WindowLength = 1
    UnbondingPeriod = 1
    EntryCeiling = 2
    ChainMaxEntries = 3
    MinDeposit = 1
    InitialFee = 2000
    InitialMaxFee = 2000
    MaxWeight = 5000
    MaxPerformanceFee = 2000
    MigrationMaxFee = 1500
    MinBootstrapSeed = 2
    MaxTotalSupply = 9
    ReleaseLag = 0
    SlashBps = 5000
    Seeds = {2}
    Deposits = {4}
    Requests = {1}
    Rewards = {3}
    FeeChoices = {}
    WeightChoices <- NoWeights
    Moves <- NoMoves
    PauseChoices = {}
    PageLimits = {1, 2}
    CollectLimits = {1}
    ClaimLists <- OnlyAll
    Bound <- UpkeepBound
    MaxTime = 2
INVARIANTS
    StakeCacheTracksChain
    SupplyMirrored
PROPERTIES
    EntryAndExitDoNotDilute
    FreshOnlyAfterWholeSweep
    AlarmIsExplained
