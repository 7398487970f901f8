SPECIFICATION FairSpec
CONSTANTS
    ShardCount = 2
    Entities = 1
    NoEntity = NoEntity
    MaxSlices <- SomeSlices
    MaxPolls = 1
    MaxFaults = 1
    KickOffRepeats = TRUE

PROPERTIES SuccessMeansAll
CHECK_DEADLOCK FALSE
