SPECIFICATION FairSpec
CONSTANTS
  Readers = {r1, r2}
  Validators = {v1}
  acc = acc
  slot = slot
  code = code
  one = one
  AccountKeys = {acc}
  StorageKeys = {}
  Codes = {}
  Values = {one}
  ZeroHash = ZeroHash
  NoValue = NoValue
  NotCached = NotCached
  NoJob = NoJob
  NoOut = NoOut
  NoTx = NoTx
  KeepViews = 1
  CacheSize = 1
  CodeCacheSize = 1
  MaxWaits = 1
  WaitForNewBlock = TRUE
  WithStorage = TRUE
  ReadKeys = {acc}
  AskAbsentCode = FALSE
  Genesis <- MCGenesis
  FirstVersion = 1
  MaxVersion = 2
  Batches <- WaitBatches
INVARIANTS TypeOK  ReadsSnapshot
PROPERTIES CallsReturn
CHECK_DEADLOCK FALSE
