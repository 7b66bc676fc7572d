\* One page of the application at a time, each with everything that may come between its awaits.
SPECIFICATION AppSpec
CONSTANTS
    \* WalletSession
    Accounts = {a1, a2}
    None = None
    MaxAttempts = 2
    MaxReads = 2
    \* StakeForm
    WindowTicks = 1
    UnbondTicks = 1
    Reserve = 1
    Unread = Unread
    Horizon = 2
    MaxPolls = 2
    MostHeld = 1
    \* UpkeepPage
    Length = 2
    Unbonding = 2
    PageSize = 3
    MaxWindows = 4
    \* ManagerConsole
    v1 = v1
    v2 = v2
    Validators = {v1, v2}
    Listed <- TwoListed
    MaxWeight = 6000
    InitialMaxFee = 1600
    MigratedMaxFee = 1500
    TypedWeights = {0, 22497, 27502, 50000}
    TypedFees = {8000}
    OtherWeights <- TwoSplits
    OtherFees = {800}
    \* ChartHistory
    Ranges <- ShortAndLong
    Blocks <- BlocksOf
    Points = 3
    Created = 2
    MaxHeight = 5
    MaxUpgrades = 2
    \* Endpoints
    Nodes = {n1, n2, n3}
    DefaultNode = n0
    MaxCustom = 2
    Tabs = {t1, t2}
INVARIANTS
    ShownBalanceIsCurrent
    DueIsOffered
    NothingElseIsMissing
    ChosenIsListed
    AccountFollowed
    DateToldIsEarliest
PROPERTIES
    
    BoundsEnforcedUpFront
    ChartFollowsRange
