CONSTANTS
    TxnId = {1, 2}
    NumProxies = 3
    Deployments <- AllModes
SPECIFICATION SPSpec
INVARIANTS
    SPTypeOK
    VerifiedFirst
    ReceiversNotAbandoned
    NoEntryLeft
    NoProcessorPanics
PROPERTIES
    EveryLocalTxnVerified
CHECK_DEADLOCK FALSE
