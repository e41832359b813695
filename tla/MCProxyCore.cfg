CONSTANTS
    Object = {1, 2}
    MaxTxns = 3
    NumProxies = 3
    MayFail = {1}
SPECIFICATION MCSpec
INVARIANTS
    PXTypeOK
    CopiesAgree
    SameNotify
    OnlyTailsRemain
PROPERTIES
    StoreMovesForward
    SerialRefined
    EveryTxnCompletes
