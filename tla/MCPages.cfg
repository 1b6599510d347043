SPECIFICATION Spec
CONSTANTS
    localhost = localhost
    phone = phone
    Local = localhost
    Lan = phone
    None = None
    Addresses <- BothAddresses
    Tls = TRUE
    AddressGrants = TRUE
    RequestsPerMinute = 2
    MaxFailures = 1
    LockoutMs = 2
    WindowMs = 2
    IdleMs = 2
    MaxClock = 4
    Slots = {s1, s2}
    MaxHops = 4
    Crowded = {"nobody", "machine"}
    Overlapping = {"nobody"}
INVARIANTS
    TypeOK
    RedirectsEnd
    LimitsHold
    RetryAfterIsEnough
PROPERTIES
    GoalsAreReached
    ControlsWork
CHECK_DEADLOCK FALSE
