SPECIFICATION FairSpec
CONSTANTS
    NumThreads = 3
    WORK_CHUNK_SIZE = 20
    Stride = 2
    StatsBatch = 4
    Golden = {2, 19}
    MaxCounter = 60
INVARIANTS
    EachCounterOnce
    RangeExhausted
    SameRange
    RequestAlone
    ReportsExact
PROPERTIES
    TeamEndsOrSplits
    PortSpec
CHECK_DEADLOCK FALSE
