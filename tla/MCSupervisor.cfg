SPECIFICATION LiveSpec
CONSTANTS
    plain = plain
    both = both
    moved = moved
    clash = clash
    malformed = malformed
    None = None
    Configs <- MCConfigs
    Malformed <- MCMalformed
    PrimaryPort <- MCPrimary
    PlainPort <- MCPlain
    Faults = {"io", "bind"}
    MaxGeneration = 5
INVARIANTS
    TypeOK
    OneRelay
    LastEditWins
    NothingOutlivesUnload
PROPERTIES
    UnloadFinishes
CHECK_DEADLOCK FALSE
