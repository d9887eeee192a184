CONSTANTS
    b1 = b1
    InitStreamPos = 1
    Mtu = 2
    MaxStreamPos = 3
    MaxSackRanges = 1
    DupAckModulus = 5
    BufferIds = {b1}
    BufferLen <- ShortLength
    Threads = {1}
    NetCapacity = 2
SPECIFICATION FairSpec
PROPERTIES
    HandedOverUnlessStalled
    ReportedUnlessStalled
CHECK_DEADLOCK FALSE
