SPECIFICATION Spec
CONSTANTS
    k1 = k1
    k2 = k2
    k3 = k3
    op = op
    home = home
    cafe = cafe
    OperatorKey = op
    Torn = Torn
    None = None
    Keys <- MCKeys
    Networks <- MCNetworks
    Modes = {"self-signed", "files", "off"}
    Faults = {"crash", "io", "lost"}
    Validity = 1
    MaxClock = 3
SYMMETRY Symmetry
INVARIANTS
    TypeOK
    PinSurvives
    PairMatches
CHECK_DEADLOCK FALSE
