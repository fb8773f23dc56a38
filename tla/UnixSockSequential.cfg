SPECIFICATION Spec
CONSTANTS
    Threads = {t1}
    MaxSocks = 4
    HasTimeout = TRUE
    Nonblocking = {FALSE}
    SharedConnect = FALSE
    Ops = {"socket", "socketpair", "bind", "listen", "accept", "connect", "close", "unlink", "shutdown"}
CHECK_DEADLOCK FALSE
INVARIANTS
    NothingLeaks
