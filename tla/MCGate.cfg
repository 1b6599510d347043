SPECIFICATION Spec
CONSTANTS
    own = own
    pub = pub
    evil = evil
    localhost = localhost
    alias = alias
    Alias = alias
    Opaque = Opaque
    Unparsable = Unparsable
    None = None
    LoopbackNames <- MCLoopbackNames
    LocalAddresses <- MCLocalAddresses
    PublicHostnames = {}
    TrustedHosts <- MCTrustedHosts
    DefaultPort <- MCDefaultPort
    Requests <- MCRequests
INVARIANTS
    TypeOK
    NoForeignWrite
    CrossSiteOnlyNavigates
    OwnPagesPass
    PinnedStaysHome
CHECK_DEADLOCK FALSE
