CONSTANTS
    InitStreamPos = 1
    Mtu = 2
    MaxStreamPos = 5
    MaxSackRanges = 2
    DupAckModulus = 6
SPECIFICATION ListSpec
INVARIANTS
    FlightLostAccounting
    OutstandingTracked
    BlocksInQueuedBuffers
    ListsAscending
PROPERTIES
    FastRetransmitOnce
    ImplementsSendQueue
