CONSTANTS
    TxnId = {1, 2}
    NumProxies = 2
    Deployments <- DefaultWithOwned
SPECIFICATION SPSpec
INVARIANTS
    NoProcessorPanics
CHECK_DEADLOCK FALSE
