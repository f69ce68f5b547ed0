SPECIFICATION Spec
CONSTANTS
  Callers = {c1, c2, c3}
  Threshold = 3
  OpenMs = 2
  Probes = 1
  Window = 0
  MinCalls = 0
  RatioNum = 1
  RatioDen = 1
INVARIANT ProbeLimit
