\* More windows than one query answers with: the open one is not on the page.
SPECIFICATION UpkeepSpec
CONSTANTS
    Length = 2
    Unbonding = 2
    PageSize = 3
    MaxWindows = 4
INVARIANTS
    NeverTalkedOut
