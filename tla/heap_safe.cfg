SPECIFICATION BoundedSpec
CONSTANTS
    Start = 64
    InitialEnd = 128
    MaxAddress = 160
    Page = 32
    MinSize = 64
    Capacity = 16
    SizeMod = 1024
    MaxAlloc = 1024
    Requests <- AllRequests
    ClientFills = TRUE
    MaxLive = 3
INVARIANTS
    TypeOK
    Tiled
    IndexExact
    Served
PROPERTIES
    PayloadUntouched
CHECK_DEADLOCK FALSE
