SPECIFICATION Spec
CONSTANTS
    Tx <- PairTx
    TxOrder <- PairOrder
    SubLimit <- Unlimited
    Senders <- Two
    RemoteTxs = {}
    LocalBatches = {}
    Genesis <- Rich
    Balances = {100}
    Fees = {8}
    GasLimits = {5}
    MinFeeCap = 1
    AccountSlots = 16
    PriceBump = 10
    Behind = 0
    Ahead = 0
    LateChecks = FALSE
    MaxBlockTxs = 1
    MaxReorg = 2
    MaxUnprocessed = 1
    Budgets <- PairBudgets
PROPERTIES
    UnwoundReturn
CHECK_DEADLOCK FALSE
