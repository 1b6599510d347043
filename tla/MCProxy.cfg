SPECIFICATION Spec
CONSTANTS
    r1 = r1
    u1 = u1
    r2 = r2
    None = None
    Requests <- TwoRequests
    Upgrades <- OneUpgrade
INVARIANTS
    TypeOK
    SocketsAreMinded
    MissIsNotRemembered
PROPERTIES
    GoneClientsFreeTheHarness
    PairsEndTogether
    ClosesWhenPiped
CHECK_DEADLOCK FALSE
