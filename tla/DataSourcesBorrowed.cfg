SPECIFICATION DsSpec
CONSTANTS
  Tenants = {a, b}
  Clients = {c1, c2}
  MaxLive = 2
  MaxEntries = 3
  MaxEvicted = 0
  Sweeps = 1
PROPERTY BorrowedKept
CHECK_DEADLOCK FALSE
