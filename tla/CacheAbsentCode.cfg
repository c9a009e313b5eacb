SPECIFICATION Spec
CONSTANTS
  Readers = {r1}
  Validators = {}
  acc = acc
  slot = slot
  code = code
  one = one
  AccountKeys = {acc}
  StorageKeys = {}
  Codes = {code}
  Values = {one}
  ZeroHash = ZeroHash
  NoValue = NoValue
  NotCached = NotCached
  NoJob = NoJob
  NoOut = NoOut
  NoTx = NoTx
  KeepViews = 1
  CacheSize = 1
  CodeCacheSize = 2
  MaxWaits = 1
  WaitForNewBlock = TRUE
  WithStorage = TRUE
  ReadKeys = {acc, code}
  AskAbsentCode = TRUE
  Genesis <- MCGenesis
  FirstVersion = 1
  MaxVersion = 3
  Batches <- CodeBatches
INVARIANTS ReadsSnapshot
CHECK_DEADLOCK FALSE
