SPECIFICATION Spec
CHECK_DEADLOCK FALSE
CONSTANTS
  r1 = r1
INVARIANTS
  ReadsAsOf
  WalksAsOf
  
  UnwindRestores
  NothingLost
