CONSTANTS
    s1 = s1
    s2 = s2
    Sources = {s1}
    U8 = 4
    TimeOutId = 1
    MaxSum = 2
    TxQueue = 2
    MaxPackets <- Five
    MaxWhole <- One
    MaxFaults = 1
SPECIFICATION FairLinkSpec
PROPERTIES
    ImplementsLink
    ImplementsFairLink
CHECK_DEADLOCK FALSE
