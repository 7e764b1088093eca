SPECIFICATION Spec
CONSTANTS
    Worker = {w1, w2}
    Conn = {c1, c2}
    RequestKinds <- OnlyPages
    MaxAcceptErrors = 1
    MaxFaulty = 0
    NoConn = NoConn
    AcceptError = AcceptError
    NoWorker = NoWorker
INVARIANT PoppedThreadIsTasked
CHECK_DEADLOCK FALSE
