SPECIFICATION LocalitySpec
CHECK_DEADLOCK FALSE
CONSTANTS
  r1 = r1
INVARIANTS
  LocalityIndexHasInfo
