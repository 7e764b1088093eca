SPECIFICATION FairSpec
CONSTANTS
    Inputs <- AllInputs
    BufSize = 3
    MaxHeaders = 2
INVARIANTS
    FullRequestIsTheOneSent
    NoWaitOnWholeRequest
PROPERTIES
    WholeRequestRefusedOnlyByCut
    ProcessingEnds
CHECK_DEADLOCK FALSE
