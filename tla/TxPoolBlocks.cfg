SPECIFICATION Spec
CONSTANTS
    Tx <- RowTx
    TxOrder <- RowOrder
    SubLimit <- Unlimited
    Senders <- Two
    RemoteTxs = {"a0", "a1", "b0"}
    LocalBatches <- RowLocal
    Genesis <- Rich
    Balances = {100}
    Fees = {8, 9}
    GasLimits = {2}
    MinFeeCap = 1
    AccountSlots = 16
    PriceBump = 10
    Behind = 0
    Ahead = 0
    LateChecks = FALSE
    MaxBlockTxs = 1
    MaxReorg = 1
    MaxUnprocessed = 1
    Budgets <- RowBudgets
INVARIANTS
    PoolTruthful
    
PROPERTIES
    MinedLeave
    UnwoundReturn
CHECK_DEADLOCK FALSE
