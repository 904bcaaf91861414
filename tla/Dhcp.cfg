SPECIFICATION DhcpLiveSpec
CONSTANTS
    Clocks = {"lwip", "app"}
    SELECT_TRIES = 1
    REBIND_TRIES = 1
    COARSE = 2
    T1 = 2
    T2 = 3
    U16 = 4
    MAXTICKS = 3
    MAXTRIES = 2
    MAXREFUSALS = 1
INVARIANTS
    AddressIsLeased
PROPERTIES
    NotBeforeHalf
    GetsAnAddress
CHECK_DEADLOCK FALSE
