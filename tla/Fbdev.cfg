SPECIFICATION FairSpec
CONSTANTS
    Rows = 5
    Cols = 2
    Gap = 1
    MaxBands = 2
    IdleTicks = 2
    RowBuf = 2
    Shapes <- MCShapes
    Loops <- MCLoops
    Sprites <- MCSprites
    Origins <- MCOrigins
    MaxDraws = 2
    MaxFaults = 1
CHECK_DEADLOCK FALSE
INVARIANTS
    TypeOK
    StaleIsExplained
    CursorIsWhole
PROPERTIES
    ImplementsDisplay
    SilentIsShown
