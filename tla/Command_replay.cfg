SPECIFICATION Spec
CONSTANTS
  n1 = n1
  n2 = n2
  k1 = k1
  k2 = k2
  NoNonce = NoNonce
  NoPulse = NoPulse
  Forged = Forged
  Commands = {"open", "hold", "ping", "lockdown", "lift", "repair"}
  Nonce <- MCNonce2
  Key <- MCKey2
  TTL <- MCTTL
  Addressing <- MCHere
  PulseId = {1}
  MaxTime = 2
  Capacity = 1
  MaxEnvelopes = 2
  LongPoll = TRUE
  DiskFaults = TRUE
  HardwareFaults = FALSE
  Skew = 1
  MaxWindow = 1
INVARIANT AtMostOnce
 
SYMMETRY MCSymmetry
