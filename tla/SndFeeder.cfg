SPECIFICATION SndFairSpec
CONSTANTS
    Ring = 4
    Chunk = 3
    Wrap = 8
    MaxTotal = 24
INVARIANTS
    FeederIsSafe
    CursorIsTrue
    OffIsClean
PROPERTIES
    ShutdownReturns
