SPECIFICATION FlowSpec
CONSTANTS
    btc = btc
    eth = eth
    r1 = r1
    f1 = f1
    alice = alice
    k1 = k1
    k2 = k2
    None = None
    Underlying <- MCUnderlying
    Rest <- MCRest
    Fix <- MCFix
    AccountOf <- MCAccountOf
    Key <- MCKey
    Qty = {1, 2}
    Batches <- MCBatches
    MaxEntries = 1
    MaxPerAccount = 1
    MaxTracked = 1
    MaxOrders = 2
    MaxRestarts = 1
    MaxSubmitted = 2
    MaxPriceCents = 3
    MaxOrderQuantity = 2
SYMMETRY Symmetric
INVARIANTS
    IndexIsSound
    AnswersHold
PROPERTIES
    RestartKeepsCorrelation
CHECK_DEADLOCK FALSE
