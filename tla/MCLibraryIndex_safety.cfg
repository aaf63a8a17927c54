SPECIFICATION FairSpec
CONSTANTS
    Models = {gemma, bge}
    LastBuild = 2
    MaxJobs = 9
    MaxEvents = 2
INVARIANTS
    TypeOK
    OneSpace
PROPERTIES
    ReadyLosesNothing
    EmbeddingEnds
CHECK_DEADLOCK FALSE
