CONSTANTS
    b1 = b1
    InitStreamPos = 1
    Mtu = 2
    MaxStreamPos = 4
    MaxSackRanges = 1
    DupAckModulus = 5
    BufferIds = {b1}
    BufferLen <- OneLength
    Threads = {1}
    NetCapacity = 2
SPECIFICATION Spec
INVARIANTS
    DroppedIsReceived
    CompletionNotStranded
    RestMeansDone
PROPERTY IsByteStream
CHECK_DEADLOCK FALSE
