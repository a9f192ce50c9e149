SPECIFICATION SmallSpec
CONSTANTS
    Task = {t1, t2}
    Name = {"a", "b", "dev"}
    DEV = "dev"
    Byte = {"x", "y"}
    HEADER = 2
    FILE_HEADER = 3
    LOCATION = 5
    WORD = 64
    Contents <- TwoContents
    MaxFiles = 2
    Offsets = {0, 1}
    Sizes = {1, 2}
INVARIANTS
    TypeOK
    FindsAlone
    ReadsBack
PROPERTIES
    Returns
CHECK_DEADLOCK FALSE
