CONSTANTS
    Images <- MCImages
    AddrModulus = 32
    Itcm <- MCItcm
    Dtcm <- MCDtcm
    Ddr <- MCDdr
    Chunk = 2
    WordSize = 2
    ArrayAlign = 4
    MaxAtexit = 2
    MaxCalls = 3
SPECIFICATION BootSpec
CHECK_DEADLOCK FALSE
INVARIANTS
    WritesInside
    MemoryIsImage
    MainSeesCleanImage
    ExitIsComplete
PROPERTY
    StartUpEnds
