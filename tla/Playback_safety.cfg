SPECIFICATION Spec
CONSTANTS
    CHIPSIZE = 4
    BLOCK = 2
    MAXDMA = 2
    TRESH = 3
    MAXCHUNK = 3
    HDRROOM = 1
    MAXFAULTS = 2
INVARIANTS
    NeverSuspendedInBufget
    BuflenExact
    NeverWaitsForSuspendedDecoder
    NoSplitRead
    FlagaTellsTheTruth
    OneMasterOnSpi1
PROPERTY
    PlayerSpec
