SPECIFICATION LiveSpec
CONSTANTS
    u1 = u1
    u2 = u2
    u3 = u3
    s1 = s1
    s2 = s2
    Updates <- ThreeUpdates
    Stores <- TwoStores
    Faults = {"write", "crash", "start"}
INVARIANTS
    TypeOK
    OutcomesAreTrue
    ReadsMatchDisk
    QuietAfterClose
PROPERTIES
    EveryCallIsServed
    ImplementsDurableLog
CHECK_DEADLOCK FALSE
