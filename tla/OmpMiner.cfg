SPECIFICATION FairSpec
CONSTANTS
    NumThreads = 3
    Lanes = 2
    STRIDE = 5
    BATCH = 4
    MAX_SAVED_COINS = 2
    Golden = {2, 3, 5, 11}
    MaxHashes = 6
INVARIANTS
    EveryCoinCounted
    StatisticsExact
PROPERTIES
    VaultSpec
    StopEnds
CHECK_DEADLOCK FALSE
