SPECIFICATION FairSpec
CONSTANTS
    NumWorkers = 2
    WORK_CHUNK_SIZE = 1
    Golden = {1, 2}
    TimeLimited = TRUE
    MaxCounter = 3
    MaxStats = 0
PROPERTIES
    MasterTerminates
    CoinReachesVault
    WorkersKeepPort
CHECK_DEADLOCK FALSE
