CONSTANTS
    BatchSize = 2
    MaxInflightBatches = 2
    PreSeparation = TRUE
    MaxArrivals = 3
    NumTxns = 3
    NumClients = 2
    Link = {1, 2, 3}
    Kept = {1, 2}
    Proxy = 3
    Oversized = {2}
    MAX_BATCH_SIZE = 2
    ChannelSize = 1
    MaxFaults = 1
SPECIFICATION CPSpec
INVARIANTS
    MCTypeOK
    InflightBounded
    ExactlyOnce
    PreparedFirst
    NeverTwice
PROPERTIES
    EveryArrivalCommitted
    WrittenReachesProxy
CHECK_DEADLOCK FALSE
