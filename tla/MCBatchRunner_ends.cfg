SPECIFICATION FairSpec
CONSTANTS
    b1 = b1
    b2 = b2
    i1 = i1
    i2 = i2
    Batches <- MCTwo
    Items <- MCItems
    Work <- MCSmallWork
    Durable = {b1}
    None = None
    MaxRetries = 1
    MaxPollFailures = 2
    MaxLaunches = 1
    MaxCancels = 1
    MaxWriteFailures = 0
PROPERTIES
    BatchEnds
CHECK_DEADLOCK FALSE
