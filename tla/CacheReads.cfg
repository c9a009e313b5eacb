SPECIFICATION Spec
CONSTANTS
  Readers = {r1, r2}
  Validators = {}
  acc = acc
  slot = slot
  code = code
  one = one
  AccountKeys = {acc}
  StorageKeys = {slot}
  Codes = {code}
  Values = {one}
  ZeroHash = ZeroHash
  NoValue = NoValue
  NotCached = NotCached
  NoJob = NoJob
  NoOut = NoOut
  NoTx = NoTx
  KeepViews = 1
  CacheSize = 1
  CodeCacheSize = 1
  MaxWaits = 1
  WaitForNewBlock = FALSE
  WithStorage = TRUE
  ReadKeys = {acc, code}
  AskAbsentCode = FALSE
  Genesis <- MCGenesis
  FirstVersion = 1
  MaxVersion = 3
  Batches <- ReadBatches
INVARIANTS LatestCanonical CachedCoherent RecentViewsServed
PROPERTIES RefinesSnapshot
CHECK_DEADLOCK FALSE
SYMMETRY ReaderSymmetry
