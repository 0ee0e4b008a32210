SPECIFICATION Spec
CONSTANTS
    ana = ana
    bo = bo
    vi = vi
    m1 = m1
    m2 = m2
    m3 = m3
    Member <- MCMember
    Admin <- MCAdmin
    Visitor <- MCVisitor
    Msg <- MCMsg
    Sender <- MCSender
    Command <- MCCommand
    Req = {r1, r2}
    NoMsg = NoMsg
    NoSubject = NoSubject
    HourCap = 1
    AcctCap = 2
    MemberQuota = 1
    LocQuota = 1
    MaxUses = 1
    Delivery <- MCDelivery
    MaxOpens = 1
    MaxBars = 1
    StoreFaults = TRUE
SYMMETRY Symmetry
CHECK_DEADLOCK FALSE
INVARIANTS CountersExact UsesAccounted MessageOnce
PROPERTIES MetersGate
