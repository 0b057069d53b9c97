CONSTANTS
    Images <- TwoImages
    Options <- AllOptions
    Requests <- AllRequests
    FactoryBoot <- FactoryMessages
    Cards <- AllCards
    FwUpdate = TRUE
    MaxAsks = 2
    MaxPicks = 1
    MaxCrashes = 1
SPECIFICATION MCSpec
INVARIANTS
    TypeOK
    SystemIsResumed
    MainSystemIsWhole
    SuccessMeansDone
    
    SuccessMeansInstalled
PROPERTIES
    NotCarriedOutTwice
    RequestSettles
CHECK_DEADLOCK FALSE
