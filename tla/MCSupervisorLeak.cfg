SPECIFICATION Spec
CONSTANTS
    plain = plain
    both = both
    moved = moved
    clash = clash
    malformed = malformed
    None = None
    Configs <- MCConfigs
    Malformed <- MCMalformed
    PrimaryPort <- MCPrimary
    PlainPort <- MCPlain
    Faults = {"bind"}
    MaxGeneration = 2
INVARIANTS
    NoPortLeftBound
CHECK_DEADLOCK FALSE
