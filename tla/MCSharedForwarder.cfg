CONSTANTS
    Object = {1, 2}
    MaxTxns = 4
    NumProxies = 2
    NumWorkers = 2
    BufferSize = 1
    Deployments <- MCDeployments
SPECIFICATION SFSpec
INVARIANTS
    VersionsIncrease
    VersionChain
    MapHoldsTail
    SFTypeOK
    ExclusiveRouting
    NoLostWakeup
    OneOwnerPerObject
    OnlyTailsRemain
PROPERTIES
    RoutesRefined
    VerifiersRefined
    EveryTxnForwarded
