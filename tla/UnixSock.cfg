SPECIFICATION Spec
CONSTANTS
    Threads = {t1, t2}
    MaxSocks = 3
    HasTimeout = FALSE
    Nonblocking = {TRUE}
    SharedConnect = FALSE
    Ops = {"socket", "socketpair", "bind", "listen", "accept", "connect", "close"}
SYMMETRY Symmetry
CHECK_DEADLOCK FALSE
INVARIANTS
    TypeOK
    NoUseAfterFree
    NothingLeaks
