SPECIFICATION FairHubSpec
CONSTANTS
  n1 = n1
  n2 = n2
  s1 = s1
  s2 = s2
  Nonce <- MCNonce2
  Session <- MCSession2
  SendBuffer = 1
  TTL = 0
  LateAckWindow = 0
  MaxTime = 1
  StoreFaults = TRUE
CHECK_DEADLOCK FALSE
INVARIANTS OneLiveConnection ReconciledOnce AckedIsAnswered
PROPERTY DispatchEnds
