SPECIFICATION FairServer
CONSTANTS
    Texts <- AllTexts
    Models = {"single", "pool", "select"}
    None = None
    Conn = {c1, c2}
    RequestKinds = {"page", "bad", "panic", "silent"}
    MaxAcceptErrors = 1
    NoConn = NoConn
INVARIANTS
    ReadIffWellFormed
    DirectivesOfOwnBlock
PROPERTIES
    DispatchesConnections
    SettledUnlessHeld
CHECK_DEADLOCK FALSE
