SPECIFICATION LiveSpec
CONSTANTS
    CHIPSIZE = 4
    BLOCK = 2
    MAXDMA = 2
    TRESH = 3
    MAXCHUNK = 3
    HDRROOM = 0
    MAXFAULTS = 0
PROPERTIES
    RoomComes
    PlaysAgain
