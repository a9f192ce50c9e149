SPECIFICATION FairSpec
CONSTANTS
    MaxTasks = 3
    MaxDepth = 3
    TickMod = 2
INVARIANTS
    TypeOK
    Resumable
    Acknowledged
    ForkReturns
    ChildContext
    NoTickLost
PROPERTIES
    Refines
    GetsTurn
    Interruptible
