CONSTANTS
    b1 = b1
    b2 = b2
    InitStreamPos = 1
    Mtu = 2
    Segments <- FourPayloads
    BufferIds = {b1, b2}
    BufferLen <- TwoLengths
    Threads = {1, 2}
    MaxSackRanges = 2
SPECIFICATION ListedSpec
INVARIANTS
    TypeOK
    DeliveredInOrder
    AcknowledgedIsStored
    ListIsBlocks
    NothingStranded
PROPERTY AcknowledgedIsDelivered
