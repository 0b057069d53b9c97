CONSTANTS
    Unsolicited = 2
    StartsInTime = TRUE
    MaxCommands = 3
SPECIFICATION FairSpec
INVARIANTS
    TypeOK
    MutexIsLive
    ReadNeverBlocks
PROPERTIES
    CloseReturns
CHECK_DEADLOCK FALSE
