SPECIFICATION BoundedSpec
CONSTANTS
    PAGE = 4
    TABLE = 10
    DIRECTORY = 7
    ImageEnd = 6
    NumFrames = 60
    FRAME_SIZE = 4096
    KHEAP_START = 20
    KHEAP_INITIAL = 4
    KHEAP_END = 40
    UHEAP_START = 40
    UHEAP_INITIAL = 1
    UHEAP_END = 50
    KIndex = 1
    HEAP_MIN = 4
    Task = {t1, t2, t3}
    First = t1
    UserPages <- SplitPages
    Value = {v0, v1}
    Objects = {1}
    Preemptive = FALSE
    MaxObjects = 1
INVARIANTS
    Cr3Agrees
CHECK_DEADLOCK FALSE
