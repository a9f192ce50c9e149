SPECIFICATION BoundedSpec
CONSTANTS
    ROWS = 2
    COLS = 3
    TAB = 2
    Task = {t1, t2}
    HEX = 2
    Glyph = {"a", "-", "(", ")", "n", "u", "l", "0", "1", "2", "5", "7", "8", "A"}
    Color = {"grey", "blue"}
    Default = "grey"
    Pieces <- AllPieces
    Firmware <- BiosCell
    MaxRows = 4
    MaxCursor = 3
INVARIANTS
    TypeOK
    Settled
    Shows
SYMMETRY Symmetry
CHECK_DEADLOCK FALSE
