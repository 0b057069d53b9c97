CONSTANTS
    QueryThreads = {"q1", "q2"}
    Md5Threads = {"m1"}
    InstallThreads = {"i1"}
    MaxVersion = 1
    MaxTasks = 1
    MaxQueue = 1
    LeadingZero = {}
    MaxStops = 0
    MaxQueries = 2
    MaxPresses = 1
    Budget = 3
SPECIFICATION MCSpec
PROPERTIES
    QueryAnswered
    EndIsTaken
CHECK_DEADLOCK FALSE
