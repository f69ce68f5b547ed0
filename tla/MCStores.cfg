SPECIFICATION MCSpec
CONSTANTS
  Nothing = Nothing
  Earlier = Earlier
  Callers = {c1, c2, c3}
  TierChoices = {{"local"}, {"remote"}, {"local", "remote"}}
  MaxLapses = 1
  r1 = r1
  r2 = r2
  r3 = r3
  r4 = r4
  k1 = k1
  k2 = k2
  k3 = k3
  print = print
  Requests <- MCRequests
  Keys <- MCKeys
  KeyOf <- MCKeyOf
  Prints <- MCPrints
  PrintOf <- MCPrintOf
  MaxKeys = 2
  Lease = 2
  Ttl = 3
  MaxTime = 5
  Slots = {p1, p2}
  Subjects = {c1, c2, c3}
  Limit = 1
  Window = 2
  MaxWindows = 2
  MaxCount = 2
  Faulty = TRUE
  Tenants = {a, b}
  Clients = {p1, p2}
  MaxLive = 1
  MaxEntries = 3
  MaxEvicted = 1
  Sweeps = 1
  t1 = t1
  t2 = t2
  n1 = n1
  n2 = n2
  n3 = n3
  NoParent = NoParent
  Calls <- MCCalls
  Parent <- MCParent
  Overlap = FALSE
  Users = {p1, p2}
  Channels = {a, b}
  Listeners = {l1st, l2nd}
  Sockets = {o1, o2}
  NoSocket = NoSocket
  Racing = FALSE
INVARIANTS
  SingleFlight
  DelKept
  BudgetPerWindow
  PoolAccounted
  UseKeepsConnection
  
  
PROPERTIES
  LiveEntriesKept
  ImplementsStore
  WindowLasts
SYMMETRY Symmetry
CHECK_DEADLOCK FALSE
