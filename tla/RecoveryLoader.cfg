CONSTANTS
    Images <- FullImage
    Options <- AllOptions
    Requests <- ImageRequests
    FactoryBoot <- NoMessages
    Cards <- NoCard
    FwUpdate = TRUE
    MaxAsks = 1
    MaxPicks = 0
    MaxCrashes = 1
SPECIFICATION Spec
INVARIANTS
    LoaderIsResumed
CHECK_DEADLOCK FALSE
