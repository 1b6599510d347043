SPECIFICATION LiveSpec
CONSTANTS
    localhost = localhost
    phone = phone
    d1 = d1
    d2 = d2
    r1 = r1
    r2 = r2
    pw1 = pw1
    pw2 = pw2
    Local = localhost
    None = None
    Addresses <- Addresses1
    PrivateAddresses <- Addresses1
    OwnAddresses = {}
    AddressGrants = TRUE
    Devices <- Devices1
    Passwords <- Passwords2
    Slots <- Slots2
    Operations = {"password", "login", "signout"}
    Faults = {"write", "crash"}
    MaxFailures = 2
    LockoutMs = 1
    SessionTtlMs = 1
    DeviceTokenTtlMs = 2
    GrantTtlMs = 1
    PairingWindowMs = 1
    TouchQuietMs = 1
    MaxClock = 2
    MaxKeys = 2
    MaxCodes = 0
    MaxTouches = 2
INVARIANTS
    GuessBudget
    RevocationIsFinal
PROPERTIES
    FirstPasswordIsLocal
    HandlersFinish
CHECK_DEADLOCK FALSE
