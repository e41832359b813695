CONSTANTS
    TxnId = {1, 2}
    NumProxies = 2
    Deployments <- PostOnly
SPECIFICATION SPSpec
PROPERTIES
    EveryTxnVerified
CHECK_DEADLOCK FALSE
