SPECIFICATION MCSpec
CONSTANTS
  Bindings <- MCBindings
  Graphs <- MCGraphs
  Eager <- MCEager
  None = None
  MaxGets = 1
  MaxRequests = 1
  MaxFailures = 2
  Modules <- MCModules
  Root = "root"
  Tokens <- MCTokens
  Classes = {}
  Layouts <- MCLayouts
INVARIANTS
  BuildOrder
  CyclesFound
  
  RequestsKeepProviders
  
  ScopesByRule
PROPERTIES
  ShutdownCloses
CHECK_DEADLOCK FALSE
