SPECIFICATION FairSpec
CONSTANTS
    Threads = {t1, t2}
    NoThread = none
    MaxDepth = 3
    Order = "program"
INVARIANTS
    TypeOK
    OnlyOwnerRecurses
PROPERTIES
    ImplementsRecursiveMutex
    CallsReturn
