SPECIFICATION LiveSpec
CONSTANTS
    Cyclic = {"arp", "dns"}
    Tcp = "tcp"
    Period <- MCPeriod
    Callers = {"shoutcast"}
    MBOX_SIZE = 3
    NUM_INPKT = 2
    MAXLATE = 1
INVARIANTS
    TimeIsAccounted
    TimersAreArmed
    PostHasRoom
PROPERTIES
    TimersAreServed
