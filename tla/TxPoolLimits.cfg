SPECIFICATION Spec
CONSTANTS
    Tx <- CrowdTx
    TxOrder <- CrowdOrder
    SubLimit <- OneEach
    Senders <- Two
    RemoteTxs = {"a0", "a0bump", "a0tip", "b0", "b1"}
    LocalBatches <- CrowdLocal
    Genesis <- Rich
    Balances = {100}
    Fees = {8, 9}
    GasLimits = {5}
    MinFeeCap = 1
    AccountSlots = 16
    PriceBump = 10
    Behind = 1
    Ahead = 0
    LateChecks = TRUE
    MaxBlockTxs = 1
    MaxReorg = 0
    MaxUnprocessed = 1
    Budgets <- CrowdBudgets
INVARIANTS
    
    SuccessMeansPooled

    
CHECK_DEADLOCK FALSE
