SPECIFICATION SmallSpec
CONSTANTS
    Boot <- Registered
    Requests <- ThreeCalls
    CAPACITY = 3
    MaxTasks = 3
INVARIANTS
    TypeOK
    Answered

    
