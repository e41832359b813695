CONSTANTS
    NumWarehouses = 2
    NumNodes = 3
    Hotspots = {"some", "all"}
    RotationInterval = 1
    ExpectedTps = 2
    TotalTxns = 3
    NumTasks = 2
    Districts = {1}
    Customers = {1}
    Items = {1}
    OrderCounts = {1, 2}
    Quantities = {10}
    Amounts = {100}
    MaxTxns = 3
    Object <- TpccObjects
    StockQuantity = {19}
    MayFail = {1}
SPECIFICATION TpccSpec
INVARIANTS
    TpccTypeOK
    SkipsCascade
    BooksBalance
    OrderNumbersDense
    GenerationExact
