SPECIFICATION Spec
CONSTANTS
    NumCards = 2
    Known = {1}
    Maintenance = {1}
    LeechAt = 1
    FinalDrill = TRUE
    MaxChains = 2
    MaxEvents = 2
CHECK_DEADLOCK FALSE
INVARIANT PickedUpInPlace
