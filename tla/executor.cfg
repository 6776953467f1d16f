SPECIFICATION Spec
CONSTANTS
    OwnerOf <- MCOwnerOf
    Symbol = {"call"}
    Account = {"alice", "alice2", "maker"}
    MarketMaker = "maker"
    Price = {1}
    Quantity = {1, 2}
    TimeInForce = {"Gtd"}
    ClientOrderId = {"k"}
    Status = {"Active", "Halted"}
    StpMode = "CancelMaker"
    Snapshots = TRUE
    MaxSeq = 2
    MaxRestarts = 1
    None = None
INVARIANTS
    RegistryIsSound
    BooksAreSound
    OneOrderPerKey
PROPERTIES
    RemovedForAReason
CHECK_DEADLOCK FALSE
