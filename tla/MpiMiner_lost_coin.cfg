SPECIFICATION Spec
CONSTANTS
    NumWorkers = 1
    WORK_CHUNK_SIZE = 2
    Golden = {1}
    TimeLimited = TRUE
    MaxCounter = 2
    MaxStats = 1
INVARIANTS
    NoCoinLost
CHECK_DEADLOCK FALSE
