SPECIFICATION MCSpec
CONSTANTS
  Callers = {c1, c2, c3, c4}
  Threshold = 3
  OpenMs = 2
  Probes = 2
  Window = 4
  MinCalls = 4
  RatioNum = 1
  RatioDen = 2
  r1 = r1
  r2 = r2
  r3 = r3
  other = other
  k1 = k1
  same = same
  different = different
  Requests <- MCRequests
  Keys <- MCKeys
  KeyOf <- MCKeyOf
  Prints <- MCPrints
  PrintOf <- MCPrintOf
  NoRequest = NoRequest
INVARIANTS
  
  RingCountsFailures
  AtMostOnce
  OneRunnerPerLease
  ReplayIsGenuine
  NotRunMeansNotRun
PROPERTIES
  OpenPeriodNotExtended
  ClaimsEndedByOwner
SYMMETRY Symmetry
CHECK_DEADLOCK FALSE
