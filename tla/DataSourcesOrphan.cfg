SPECIFICATION DsSpec
CONSTANTS
  Tenants = {a, b}
  Clients = {c1, c2, c3}
  MaxLive = 1
  MaxEntries = 3
  MaxEvicted = 0
  Sweeps = 0
INVARIANT NeverOrphaned
CHECK_DEADLOCK FALSE
