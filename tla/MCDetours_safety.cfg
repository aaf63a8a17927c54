SPECIFICATION FairSpec
CONSTANTS
    c1 = c1
    c2 = c2
    i1 = i1
    None = None
    Lessons = {1, 2}
    ModuleOf <- MCModuleOf
    Concepts = {c1, c2}
    Carded = {c1}
    Items = {i1}
    Signals <- MCSignals
    OverrideEnds = {0}
    MaxPerWeek = 2
    Week = 1
    RevisitCoreAt = 2
    BoostTime = 1
    CleanReviews = 2
    LastVersion = 2
    LastTick = 1
    MaxEvents = 4
INVARIANTS
    TypeOK
    LimitsHold
    OnRecordOnce
PROPERTIES
    StayClosed
    OverridesRespected
    QueueDrains
CHECK_DEADLOCK FALSE
