SPECIFICATION RendezvousSpec
CONSTANTS
    Threads = {t1, t2, t3}
    MaxSocks = 4
    HasTimeout = TRUE
    Nonblocking = {FALSE}
    SharedConnect = FALSE
    Ops = {"accept", "connect", "close"}
SYMMETRY Symmetry
CHECK_DEADLOCK FALSE
INVARIANTS
    RefsBalance
    RemoteIsMutual
    NoLostWakeup
PROPERTIES
    ImplementsRendezvous
