SPECIFICATION RamSpec
CONSTANTS
    CHIPSIZE = 3
    BLOCK = 1
    MAXDMA = 2
    MAXPUT = 3
    Byte = {0, 1}
PROPERTY
    QueueSpec
