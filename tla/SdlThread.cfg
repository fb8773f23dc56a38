SPECIFICATION ThreadSpec
CONSTANTS
    Handles = {a, b}
CHECK_DEADLOCK FALSE
INVARIANTS
    ThreadTypeOK
    ThreadHasItsMemory
    NoBlockLeaks
