SPECIFICATION HandlerSpec
CONSTANTS
    Tree <- ATree
    Configs <- AllConfigs
    Requests <- Routed
    None = None
    Values <- AllValues
    Damaged <- ADate
    DatedRequests <- AllDated
INVARIANTS
    ServedBelowRoot
    OwnFilesReachable
    ReadBackOrRefused
CHECK_DEADLOCK FALSE
