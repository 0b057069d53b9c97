CONSTANTS
    SysIds <- OneSys
    Modules <- OneModule
    Image <- OneImage
    RESEND_COUNT = 2
    Bad = Bad
    MaxFaults = 1
SPECIFICATION FairSpec
INVARIANTS
    TypeOK
    SuccessMeansFlashed
    NothingMisplaced
PROPERTIES
    NoStaleAnswer
    Terminates
    ImplementsModuleUpdate
CHECK_DEADLOCK FALSE
