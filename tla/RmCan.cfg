CONSTANTS
    s1 = s1
    s2 = s2
    Sources = {s1, s2}
    U8 = 4
    TimeOutId = 1
    MaxSum = 1
    TxQueue = 2
    MaxPackets <- SixAndOne
    MaxWhole <- LastOnly
    MaxFaults = 3
SPECIFICATION LinkSpec
INVARIANTS
    TypeOK
    NoMixing
    BoundedResidue
    DeliveredInOrder
CHECK_DEADLOCK FALSE
