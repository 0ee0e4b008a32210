SPECIFICATION QueueSpec
CONSTANTS
  e1 = e1
  e2 = e2
  e3 = e3
  d1 = d1
  d2 = d2
  Event <- MCEvent
  Drainer <- MCDrainer1
  NormalCapacity = 2
  GrantReserved = 2
  DrainMax = 2
  MaxCrashes = 1
  DiskFaults = TRUE
  HalfWrites = TRUE
CHECK_DEADLOCK FALSE
INVARIANT GrantsNeverDropped
