SPECIFICATION TenancySpec
CONSTANTS
    ana = ana
    bo = bo
    p1 = p1
    Offer <- MCOffer
    User = {ana, bo}
    Founder = ana
    Phone = {p1}
    Invite = {i1}
    Req = {r1, r2}
    NoPhone = NoPhone
    NoUser = NoUser
    StartCap = 2
    VerifyCap = 2
    MaxAttempts = 1
    MaxPhones = 3
    MaxRows = 2
    Location = {l1, l2}
    Device = {d1}
    Key = {k1, k2}
    Worker = {r1, r2}
    Amount = {0, 1}
    Unset = Unset
    NoLocation = NoLocation
    NoKey = NoKey
    MaxPatches = 3
    Gate = {x1, x2}
    Txn = {r1, r2}
    PerOp = 4
    Entry <- MCEntry
    Null = Null
    MaxTime = 2
    MaxOps = 2
    MaxEvents = 2
    Grant = {x1, x2}
    Call = {r1, r2}
    Uses = {1, 2}
    MaxCalls = 3
SYMMETRY Symmetry
CHECK_DEADLOCK FALSE
INVARIANTS TenancyTypeOK GrantedOnce GuessesBounded QuotasKept KillSwitchConfirmed MetersAgree UsedAsShown
PROPERTIES DueUntilServiced
