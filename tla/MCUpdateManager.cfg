SPECIFICATION ManagerFairSpec
CONSTANTS
    Current = 1
    MaxVersion = 3
    Size = 2
    MaxChecks = 3
    NumEntries = 2
    OldPaths <- MCOldPaths
    NewPaths <- MCNewPaths
    MaxFailures = 7
CHECK_DEADLOCK FALSE
INVARIANTS
    OfferSound
    InstallationKept
PROPERTIES
    BusyEnds
