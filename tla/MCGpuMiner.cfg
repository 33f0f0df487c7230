SPECIFICATION FairSpec
CONSTANTS
    Programs = {"cuda", "cuda_test", "opencl"}
    THREADS = 4
    COINS_BUFFER_SIZE = 8
    COIN_WORDS = 3
    WORD = 16
    VAULT_LINES = 2
    A <- MCA
    C <- MCC
    FirstBases <- MCFirstBases
    Golden <- MCGolden
    Bad <- MCBad
    MaxLaunches = 8
    MaxFaults = 2
INVARIANTS BufferIsTheLaunch KeptOrDropped NoCoinTwice HandlesReleasedOnce
PROPERTY StopEnds
CHECK_DEADLOCK FALSE
