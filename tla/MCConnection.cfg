CONSTANTS
    Connectors = {"PACKAGE", "STREAM", "REVERSE_STREAM", "BUILDER"}
    SnCalled = {"added"}
    Closers = {"active", "passive"}
    Resetters = {"active", "passive"}
    Dispatchers = {"udp"}
SPECIFICATION FairSpec
INVARIANTS
    TypeOK
    ClosedIsSettled
    ResultReported
    AnswerNotStranded
PROPERTIES
    ProviderKept
    ConnectingEnds
CHECK_DEADLOCK FALSE
