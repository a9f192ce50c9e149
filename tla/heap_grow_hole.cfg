SPECIFICATION GrowAnywhereSpec
CONSTANTS
    Start = 64
    InitialEnd = 128
    MaxAddress = 256
    Page = 32
    MinSize = 64
    Capacity = 16
    SizeMod = 1024
    MaxAlloc = 1024
    Requests <- GrowingRequests
    ClientFills = TRUE
    MaxLive = 3
INVARIANTS
    Tiled
CHECK_DEADLOCK FALSE
