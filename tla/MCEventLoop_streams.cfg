SPECIFICATION Spec
CONSTANTS
    Conn = {c1, c2}
    RequestKinds = {"page", "bad"}
    RequestPieces = 2
    ResponsePieces = 2
    SendBuffer = 1
    EventCapacity = 1
    LineKinds = {}
    MaxLines = 0
    Faults = {}
    NoConn = NoConn
SYMMETRY Symmetry
INVARIANTS
    TypeOK
    InterestMatchesState
    NoEdgeLost
    EveryReaderWatched
    TokensUnique
    ResponseWhole
PROPERTIES
    TimeoutSparesCompleteRequest
    ServesConnections
