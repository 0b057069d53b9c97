CONSTANTS
    Unsolicited = 0
    StartsInTime = FALSE
    MaxCommands = 1
SPECIFICATION FairSpec
PROPERTIES
    CloseReturns
CHECK_DEADLOCK FALSE
