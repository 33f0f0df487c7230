SPECIFICATION FairSpec
CONSTANTS
    NumWorkers = 2
    WORK_CHUNK_SIZE = 1
    Golden = {}
    TimeLimited = TRUE
    MaxCounter = 2
    MaxStats = 0
PROPERTIES
    EveryRankFinalizes
CHECK_DEADLOCK FALSE
