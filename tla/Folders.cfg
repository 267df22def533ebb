CONSTANTS
    Assets = {1, 2, 3, 4, 5}
    Taken <- MCTaken
    Local <- MCLocal
    Display <- MCDisplay
    HoursPerDay = 2
    DaysPerMonth = 2
    MonthsPerYear = 2
    Horizon = 16
    PageSize = 1
    MaxPages = 3
    Libraries <- MCLibraries
    Settings <- MCSettings
    MaxEvents = 1
SPECIFICATION Spec
INVARIANTS
    TypeOK
    ListingIsWhole
    ListingInventsNothing
    RefusedOnlyIfLong
    ListedOpens
    EveryNameHasItsMember
    NamesStick
