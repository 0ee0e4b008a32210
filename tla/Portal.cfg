SPECIFICATION PortalSpec
CONSTANTS
    Gate = {ga, gb}
    Cmd = {m1, m2}
    NoGate = NoGate
    MaxPress = 3
    Key = {k1, k2}
    Slot = {1, 2}
    MaxVal = 2
    MaxActs = 4
    Url = {home, u1}
    Home = home
    NoUrl = NoUrl
    Probe = {1, 2}
    Acct = {a1, a2}
    NoAcct = NoAcct
    Query = {1, 2}
    Save = {1, 2}
    MaxEntry = 3
    Place = {p1, p2}
    Short = Short
    Nothing = Nothing
    Search = {1, 2}
    MaxTyped = 4
    t1 = t1
    t2 = t2
    c1 = c1
    c2 = c2
    Tab = {t1, t2}
    Window = t1
    Call = {c1, c2}
    Slots <- MCSlots
    Gateway = {g1, g2}
    NoGateway = NoGateway
    MaxTok = 2
    MaxTurns = 3
INVARIANTS NoSelfReplay SignOutReaches TokensOfGateway RetryHeld ShownAgrees OneFirstHome
PROPERTIES Settles
CHECK_DEADLOCK FALSE
