CONSTANTS
    SysIds <- TwoSys
    Modules <- TwoModules
    Image <- SmallImages
    RESEND_COUNT = 2
    Bad = Bad
    MaxFaults = 2
SPECIFICATION MCSpec
INVARIANTS
    BoardsLeaveUpgradeMode
    EveryModuleTried
PROPERTIES
    ImplementsModuleUpdate
CHECK_DEADLOCK FALSE
