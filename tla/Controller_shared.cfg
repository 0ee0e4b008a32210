SPECIFICATION FairAgentSpec
CONSTANTS
  n1 = n1
  n2 = n2
  k1 = k1
  s1 = s1
  c1 = c1
  NoNonce = NoNonce
  NoPulse = NoPulse
  Forged = Forged
  Commands = {"open", "hold", "close", "lockdown", "lift", "config", "other"}
  Nonce <- MCNonce2
  Key <- MCKey1
  TTL <- MCTTL
  Addressing <- MCHere
  PulseId = {1}
  MaxTime = 0
  Skew = 1
  MaxWindow = 1
  Capacity = 2
  MaxEnvelopes = 2
  LongPoll = FALSE
  DiskFaults = TRUE
  HardwareFaults = FALSE
  Session <- MCSession
  Cnonce <- MCCnonce
  Grants <- MCGrants
  CnonceTTL = 1
  StaleLimit = 2
  MaxProofs = 1
  StorageFaults = FALSE
INVARIANTS HeldGateHasRelease
PROPERTIES HoldEndsOnPurpose LockdownQuiesces LockdownRefusesCommands HoldIsReleased
