SPECIFICATION Spec
CONSTANTS
    User = {ana, bo}
    Req = {r1, r2}
    NoUser = NoUser
    NoReq = NoReq
    MaxTok = 3
    MaxReset = 1
SYMMETRY Symmetry
CHECK_DEADLOCK FALSE
INVARIANTS OneLivePerFamily LastAdmin AuthorityHeld
PROPERTIES NoResurrection
