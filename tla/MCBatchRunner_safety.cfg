SPECIFICATION Spec
CONSTANTS
    b1 = b1
    b2 = b2
    i1 = i1
    i2 = i2
    Batches <- MCTwo
    Items <- MCItems
    Work <- MCSharedWork
    Durable = {b1}
    None = None
    MaxRetries = 1
    MaxPollFailures = 1
    MaxLaunches = 2
    MaxCancels = 1
    MaxWriteFailures = 1
INVARIANTS
    TypeOK
    OneRowPerCharge
    RetriesOnlyFailures
    Accounted
    JobOnRecord
CHECK_DEADLOCK FALSE
