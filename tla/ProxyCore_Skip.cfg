CONSTANTS
    Object = {1}
    MaxTxns = 2
    NumProxies = 2
    MayFail = {1}
SPECIFICATION PXSpec
PROPERTIES
    EveryTxnExecutedOrSkipped
CHECK_DEADLOCK FALSE
