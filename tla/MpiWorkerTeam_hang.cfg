SPECIFICATION FairSpec
CONSTANTS
    NumThreads = 2
    WORK_CHUNK_SIZE = 8
    Stride = 2
    StatsBatch = 4
    Golden = {}
    MaxCounter = 8
PROPERTIES
    TeamTerminates
CHECK_DEADLOCK FALSE
