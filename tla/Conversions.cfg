CONSTANTS
    Packets <- MCPackets
    Files   <- MCFiles
    Chunks  <- MCChunks
    STEP         = 2
    COMPARE_STEP = 8
    COPY         = 4
    Contents     = {0, 1}
    Zero         = 0
    Items   <- MCItems
    Disks   <- MCDisks
SPECIFICATION MCSpec
INVARIANTS
    RoundTrip
    SentIsReadable
    LoadedIsFile
    AscendingIsSafe
    BurstIsNoticed
    EqualIsWhole
    WrittenIsEqual
CHECK_DEADLOCK FALSE
