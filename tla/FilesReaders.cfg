SPECIFICATION FairSpec
CHECK_DEADLOCK FALSE
CONSTANTS
    StepsInBiggestFile = 4
    Readers = {r1}
    Folder <- Empty
    MaxTxNum = 4
    PruneLimit = 9
    KeepInDB = 2
    Budgets <- Calm
    r1 = r1
INVARIANTS
    NothingLost
    CalmContextsServe
    MergesTile
PROPERTIES
    GarbageGoes
