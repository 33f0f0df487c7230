SPECIFICATION Spec
CONSTANTS
    ByteSize = 6
    NL = 2
    END = 3
    Letters <- MCLetters
    Texts <- MCTexts
    Times <- MCTimes
    Offsets <- MCOffsets
    AnyOffsets <- MCAnyOffsets
    LaunchThreads = 4
    MaxSteps = 6
INVARIANTS LanesHoldTheirCoins VaultAccepts
CHECK_DEADLOCK FALSE
