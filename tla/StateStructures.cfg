SPECIFICATION Spec
CHECK_DEADLOCK FALSE
CONSTANTS
  StepsInBiggestFile = 2
INVARIANTS
  
  CommitmentCoversState
  RootHashIsStateRoot
  IndexReadsBack
  
  MatchesGenuine
