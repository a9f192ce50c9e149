SPECIFICATION MCSpec
CONSTANTS
    Item <- MCItem
    Blank = "blank"
    key <- MCKey
    capacity = 5
INVARIANTS
    TypeOK
    Sorted
    Conserved
PROPERTIES
    IsList
CHECK_DEADLOCK FALSE
