SPECIFICATION FairQueueSpec
CONSTANTS
  e1 = e1
  e2 = e2
  e3 = e3
  d1 = d1
  d2 = d2
  Event <- MCEvent
  Drainer <- MCDrainer2
  NormalCapacity = 2
  GrantReserved = 1
  DrainMax = 2
  MaxCrashes = 1
  DiskFaults = TRUE
  HalfWrites = FALSE
CHECK_DEADLOCK FALSE
INVARIANTS NothingLost
PROPERTY EventuallySent
