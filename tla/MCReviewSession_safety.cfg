SPECIFICATION FairSpec
CONSTANTS
    NumCards = 2
    Known = {1}
    Maintenance = {1}
    LeechAt = 1
    FinalDrill = TRUE
    MaxChains = 2
    MaxEvents = 2
INVARIANTS
    TypeOK
    CardIsItsHistory
PROPERTIES
    ClosedStaysClosed
    SessionsEnd
CHECK_DEADLOCK FALSE
