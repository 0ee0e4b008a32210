SPECIFICATION FairAnchorSpec
CONSTANTS
  s1 = s1
  s2 = s2
  c1 = c1
  k1 = k1
  NoPulse = NoPulse
  Forged = Forged
  Session <- MCSession2
  Cnonce <- MCCnonce1
  Key <- MCKey1
  Grants <- MCGrants3
  PulseId = {1}
  MaxTime = 2
  Skew = 1
  CnonceTTL = 1
  StaleLimit = 2
  MaxProofs = 1
  StorageFaults = FALSE
  RelayFaults = FALSE
  DiskFaults = FALSE
INVARIANTS AuditedBeforeOpen
PROPERTIES NoReplayOnceConsumed ExpiredBySyncRefused AcceptedIsAnswered
