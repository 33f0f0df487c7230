SPECIFICATION Spec
CONSTANTS
    Coins <- MCCoins
    MAX_SAVED_COINS = 2
    MaxCalls = 6
INVARIANTS
    TypeOK
    NothingLost
    FileKeepsAcceptedOrder
    FourErrorsTolerated
PROPERTIES
    FileOnlyGrows
CHECK_DEADLOCK FALSE
