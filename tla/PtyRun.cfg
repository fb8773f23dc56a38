SPECIFICATION PtyFairSpec
CONSTANTS
    Chunk = 2
    Room = 3
    MaxTyped = 4
    MaxWritten = 4
CHECK_DEADLOCK FALSE
INVARIANTS
    PtyTypeOK
    BytesAreFaithful
PROPERTIES
    EndsWithChild
