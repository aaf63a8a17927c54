SPECIFICATION Spec
CONSTANTS
    Models = {gemma, bge}
    LastBuild = 2
    MaxJobs = 4
    MaxEvents = 3
INVARIANT RemovedIsGone
CHECK_DEADLOCK FALSE
