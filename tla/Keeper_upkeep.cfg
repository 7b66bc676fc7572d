\* A keeper of two pages with two faults, restarts and other callers.
SPECIFICATION Spec
CONSTANTS
    WindowLength = 1
    UnbondingPeriod = 2
    StaleAfter = 7
    Pages = 2
    CompoundInterval = 2
    WindowInterval = 3
    CallCap = 2
    Lead = 1
    MaxPass = 1
    MaxDown = 1
    MaxFaults = 2
INVARIANTS
    OverdueIsBounded
    CacheKeptFresh
PROPERTIES
    UpkeepIsDone
    RewardsAreHarvested
