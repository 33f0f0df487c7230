SPECIFICATION Sha1Spec
CONSTANTS
    Messages <- MCMessages
INVARIANTS
    HashIsSha1
    WordsOfSchedule
CHECK_DEADLOCK FALSE
