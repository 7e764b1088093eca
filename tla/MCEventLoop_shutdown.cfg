SPECIFICATION FairSpec
CONSTANTS
    Conn = {c1}
    RequestKinds = {"page"}
    RequestPieces = 1
    ResponsePieces = 1
    SendBuffer = 1
    EventCapacity = 4
    LineKinds = {"shutdown", "other"}
    MaxLines = 2
    Faults = {}
    NoConn = NoConn
PROPERTY ShutdownClosesListener
