CONSTANTS
    TxnId = {1, 2}
    NumProxies = 2
    Deployments <- PreOnly
SPECIFICATION SPSpec
INVARIANTS
    RequestToAppropriateProxy
CHECK_DEADLOCK FALSE
