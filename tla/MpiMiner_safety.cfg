SPECIFICATION Spec
CONSTANTS
    NumWorkers = 2
    WORK_CHUNK_SIZE = 2
    Golden = {2, 5}
    TimeLimited = FALSE
    MaxCounter = 6
    MaxStats = 1
INVARIANTS
    TypeOK
    RangesDisjoint
    LeaveOnlyOnStop
    OneAnswerPerRequest
    ActiveNeverOverCounts
    StopNeverLost
    CoinsAccounted
    StatsNeverOverstate
PROPERTIES
    LedgerSpec
CHECK_DEADLOCK FALSE
