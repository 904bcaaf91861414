SPECIFICATION LiveSpec
CONSTANTS
    NPCB = 3
    MBOX = 3
    MAXSEG = 5
    MAXNOMEM = 3
INVARIANTS
    OneIsLeft
    CallbacksReachConn
    StreamIsWhole
PROPERTIES
    CallsReturn
    EndIsNoticed
    PortComesFree
