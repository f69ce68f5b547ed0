SPECIFICATION TxSpec
CONSTANTS
  t1 = t1
  t2 = t2
  n1 = n1
  NoParent = NoParent
  Calls <- MCCalls
  Parent <- MCParent
  Overlap = TRUE
INVARIANT ResolvedIsDurable
CHECK_DEADLOCK FALSE
