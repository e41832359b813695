CONSTANTS
    WorkloadType = {"FakeEthereumTransfers"}
    Accounts = {1, 16777216}
    NumInputs = 2
    NumTxns = 3
    BatchSize = 2
    NumProxies = 2
    SeparationMode = {"NoSeparation"}
    NumSeparated = 3
SPECIFICATION PSSpec
INVARIANT
    EngineKeepsRunning
