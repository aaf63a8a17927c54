SPECIFICATION FairSpec
CONSTANTS
    NumLessons = 2
    HeadSize = 1
    FullQa = TRUE
    Faulty = {2}
    Claimless <- MCClaimless
    MaxEvents = 2
PROPERTIES
    ExpansionRests
CHECK_DEADLOCK FALSE
