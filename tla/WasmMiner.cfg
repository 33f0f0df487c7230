SPECIFICATION FairSpec
CONSTANTS
    LANES = 2
    WORD = 16
    MAX_COINS = 2
    BatchSizes = {1, 3, 6}
    Seeds = {3, 11, 15}
    Golden = {52, 54, 55, 56, 63, 176, 188, 192, 193, 240, 255, 0, 2, 3}
    MaxHashes = 18
    MaxStarts = 3
INVARIANTS PageHasEveryCoin CountersContiguous
PROPERTIES TimersEnd
CHECK_DEADLOCK FALSE
