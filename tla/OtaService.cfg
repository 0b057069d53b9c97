CONSTANTS
    QueryThreads = {"q1","q2"}
    Md5Threads = {"m1"}
    InstallThreads = {"i1"}
    MaxVersion = 2
    MaxTasks = 2
    MaxQueue = 2
    LeadingZero = {2}
    MaxStops = 1
    MaxQueries = 2
    MaxPresses = 2
    Budget = 3
SPECIFICATION MCSpec
INVARIANTS
    TypeOK
    TaskSurvives
    OnlyWholePackages
    ThereIsAWayOn
CHECK_DEADLOCK FALSE
