SPECIFICATION FairSpec
CONSTANTS
    Servers = {s1}
    Others = {o1}
    NoAddr = NoAddr
    Setup = 1
    Attempts = 2
    Discovers = 1
    Requests = 2
    Polls = 2
    Depth = 1
CHECK_DEADLOCK FALSE
INVARIANTS
    TypeOK
    MacIsNoLateAnswer
    StopsOnlyWhenKeyed
    BoundIsLeased
PROPERTIES
    ProbeEnds
