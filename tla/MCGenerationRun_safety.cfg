SPECIFICATION FairSpec
CONSTANTS
    NumRuns = 1
    NumChunks = 2
    NumModules = 3
    Cap = 3
    ExtractWidth = 2
    ModuleWidth = 2
    StartOptions <- MCOptions
    MaxRefused = 1
    MaxEvents = 4
INVARIANTS
    TypeOK
    PaidOnce
    MoneyOnRecord
    PathMatchesRun
    CancelReachesBatch
PROPERTIES
    KeepsPromise
    RunRests
CHECK_DEADLOCK FALSE
