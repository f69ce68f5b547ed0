SPECIFICATION Spec
CONSTANTS
  Callers = {c1, c2, c3}
  MaxConcurrent = 1
  MaxQueued = 2
  Timed = TRUE
  Threshold = 2
  OpenMs = 1
  Probes = 1
  Window = 0
  MinCalls = 0
  RatioNum = 1
  RatioDen = 1
  MaxRetries = 1
  HasFallback = TRUE
INVARIANTS SuccessIsFinal SlotsConserved
PROPERTIES FirstComeFirstServed KeepsBulkheadContract  RunSettles
