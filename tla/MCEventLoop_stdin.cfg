SPECIFICATION Spec
CONSTANTS
    Conn = {c1}
    RequestKinds = {"page", "bad", "panic", "hang"}
    RequestPieces = 1
    ResponsePieces = 2
    SendBuffer = 1
    EventCapacity = 4
    LineKinds = {"shutdown", "other", "garbled", "part"}
    MaxLines = 2
    Faults = {"poll", "registry", "accept", "host"}
    NoConn = NoConn
INVARIANTS
    BrokenHasCause
PROPERTIES
    ServesConnections
CHECK_DEADLOCK FALSE
