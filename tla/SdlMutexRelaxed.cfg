SPECIFICATION CleanSpec
CONSTANTS
    Threads = {t1, t2}
    NoThread = none
    MaxDepth = 2
    Order = "relaxed"
SYMMETRY Symmetry
INVARIANTS
    OnlyOwnerRecurses
