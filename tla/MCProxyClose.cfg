SPECIFICATION Spec
CONSTANTS
    r1 = r1
    u1 = u1
    r2 = r2
    None = None
    Requests <- OneRequest
    Upgrades <- OneUpgrade
PROPERTY CloseFinishes
CHECK_DEADLOCK FALSE
