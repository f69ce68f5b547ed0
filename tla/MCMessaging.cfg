SPECIFICATION MCSpec
CONSTANTS
  cron = cron
  tick = tick
  retick = retick
  boot = boot
  Armed <- MCArmed
  Name <- MCName
  Kind <- MCKind
  Overlap <- AllSkip
  MaxActive = 2
  e1 = e1
  e2 = e2
  other = other
  shared = shared
  single = single
  Nobody = Nobody
  Emits <- MCEmits
  EventOf <- MCEventOf
  Listeners = 1
  Waits = 1
  Reemits = FALSE
  j1 = j1
  j2 = j2
  j3 = j3
  LastQueue = 2
  Jobs <- MCJobs
  QueueOf <- MCQueueOf
  MaxRuns = 2
  Early = FALSE
  letter1 = letter1
  letter2 = letter2
  LastSub = 2
  Letters <- MCLetters
  OnSub <- MCOnSub
  MaxDeliveries = 2
  Nodes = {n1, n2}
  Messages = {m1, m2}
  MaxRetries = 1
  Clients = {1, 2, 3}
  NoClient = NoClient
  MaxChunks = 4
INVARIANTS
  EmitAwaitsWork
  NoJobAbandoned
  TeardownAfterHandlers
  DeliveriesAccounted
  DeliveredOnce
  NoClientLeaked
  PumpKeepsPace
PROPERTIES
  StoppedNeverFires
  DrainWaitsOut
SYMMETRY Symmetry
CHECK_DEADLOCK FALSE
