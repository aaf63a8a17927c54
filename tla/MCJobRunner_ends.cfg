SPECIFICATION FairSpec
CONSTANTS
    j1 = j1
    j2 = j2
    Jobs <- MCOneJob
    Priority <- MCOnePriority
    None = None
    NumSlots = 2
    MaxAttempts = 2
    MaxLaunches = 1
    MaxDeaths = 2
    MaxCancels = 2
    MaxRetries = 1
    MaxUnrecorded = 1
PROPERTIES
    QueuedJobSettles
    CancelledWorkerStops
CHECK_DEADLOCK FALSE
