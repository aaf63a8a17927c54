SPECIFICATION Spec
CONSTANTS
    NumLessons = 2
    HeadSize = 1
    FullQa = TRUE
    Faulty = {2}
    Claimless <- MCClaimless
    MaxEvents = 3
INVARIANTS
    TypeOK
    DoneOnce
    VerdictOnText
    PaidOnce
PROPERTIES
    CompletedLeavesNone
CHECK_DEADLOCK FALSE
