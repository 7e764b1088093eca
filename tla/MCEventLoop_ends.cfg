SPECIFICATION FairSpec
CONSTANTS
    Conn = {c1, c2}
    RequestKinds = {"page"}
    RequestPieces = 1
    ResponsePieces = 2
    SendBuffer = 1
    EventCapacity = 4
    LineKinds = {}
    MaxLines = 0
    Faults = {}
    NoConn = NoConn
PROPERTY
    EveryConnectionEnds
