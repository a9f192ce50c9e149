SPECIFICATION Spec
CONSTANTS
    MaxTasks = 2
    MaxDepth = 3
    TickMod = 4
INVARIANTS
    SavedRecord
