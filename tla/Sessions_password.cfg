SPECIFICATION ErasSpec
CONSTANTS
    User = {ana, bo}
    Req = {r1, r2}
    NoUser = NoUser
    NoReq = NoReq
    MaxTok = 2
    MaxReset = 1
    MaxEra = 1
INVARIANT
    SessionsEndWithPassword
CHECK_DEADLOCK FALSE
