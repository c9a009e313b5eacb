SPECIFICATION Spec
CHECK_DEADLOCK FALSE
INVARIANTS
  WordsReadBack
  SomebodyRuns
  
  NothingFails
