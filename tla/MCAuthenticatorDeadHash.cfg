SPECIFICATION Spec
CONSTANTS
    localhost = localhost
    phone = phone
    d1 = d1
    d2 = d2
    r1 = r1
    r2 = r2
    pw1 = pw1
    pw2 = pw2
    Local = localhost
    None = None
    Addresses <- Addresses2
    PrivateAddresses <- Addresses2
    OwnAddresses = {}
    AddressGrants = TRUE
    Devices <- Devices2
    Passwords <- Passwords2
    Slots <- Slots2
    Operations = {"pair", "signout", "revoke", "issue", "access"}
    Faults = {}
    MaxFailures = 1
    LockoutMs = 1
    SessionTtlMs = 2
    DeviceTokenTtlMs = 2
    GrantTtlMs = 1
    PairingWindowMs = 1
    TouchQuietMs = 1
    MaxClock = 2
    MaxKeys = 2
    MaxCodes = 2
    MaxTouches = 2
SYMMETRY Symmetry
INVARIANTS
    NoDeadHashes
CHECK_DEADLOCK FALSE
