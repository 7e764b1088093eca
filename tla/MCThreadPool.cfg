SPECIFICATION FairSpec
CONSTANTS
    Worker = {w1, w2, w3}
    Conn = {c1, c2, c3}
    RequestKinds <- AnyRequest
    MaxAcceptErrors = 1
    MaxFaulty = 1
    NoConn = NoConn
    AcceptError = AcceptError
    NoWorker = NoWorker
INVARIANTS
    TypeOK
    ReadyMeansWaiting
    OneStreamAtATime
    StrandedByAcceptErrors
    SpareWorkerKept
    GoodRequestNotDropped
PROPERTIES
    OverloadVerdictExact
    DispatchesConnections
    EveryConnectionSettled
CHECK_DEADLOCK FALSE
