SPECIFICATION Spec
CHECK_DEADLOCK FALSE
CONSTANTS
  p1 = p1
  p2 = p2
  p3 = p3
  c1 = c1
  c2 = c2
  n1 = n1
  n2 = n2
  tbl = tbl
INVARIANTS
  LoadReplays
  TablesReadBack
  TransactionsSound
  RemoteReads
  

  
