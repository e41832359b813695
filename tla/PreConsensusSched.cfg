CONSTANTS
    WorkloadType = {"FakeSolanaTransactions", "FakeEthereumTransfers", "FakeEthereumNftMint",
                    "FakeUniswapNormal", "FakeUniswapPeak", "FakeZipfian"}
    Accounts = {1, 16777217}
    NumInputs = 2
    NumTxns = 4
    BatchSize = 4
    NumProxies = 2
    SeparationMode = {"NoSeparation", "PrimaryPreSeparation", "PrimaryPostSeparation"}
    NumSeparated = 3
SPECIFICATION PSSpec
INVARIANT
    PlanExplained
PROPERTY
    SubgraphsAreComponents
