CONSTANTS
    Connectors = {"PACKAGE", "BUILDER"}
    SnCalled = {"added", "refused"}
    Closers = {}
    Resetters = {}
    Dispatchers = {"udp"}
SPECIFICATION Spec
INVARIANTS
    WaitsForBuilding
CHECK_DEADLOCK FALSE
