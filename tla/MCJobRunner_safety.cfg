SPECIFICATION Spec
CONSTANTS
    j1 = j1
    j2 = j2
    Jobs <- MCJobs
    Priority <- MCPriority
    None = None
    NumSlots = 2
    MaxAttempts = 2
    MaxLaunches = 2
    MaxDeaths = 1
    MaxCancels = 1
    MaxRetries = 1
    MaxUnrecorded = 1
INVARIANTS
    TypeOK
    BooksAgree
    AttemptsBounded
    NoStrandedJob
    NoDoubleRun
CHECK_DEADLOCK FALSE
