SPECIFICATION Spec
CONSTANTS
    METAINT = 6
    UNIT = 2
    MAXMETA = 2
    MAXCHUNK = 5
    CAPACITY = 8
    WORD = 65536
    HDRDATA = 2
INVARIANTS
    PutsTheAudio
    RoomIsPossible
CHECK_DEADLOCK FALSE
