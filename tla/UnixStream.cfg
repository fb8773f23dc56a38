SPECIFICATION FairSpec
CONSTANTS
    Types = {"stream", "seqpacket"}
    Senders = {s1}
    Receivers = {r1}
    Pollers = {p1}
    Lengths = {2}
    BufferSizes = {2, 3}
    Header = 1
    Ops = {"send", "recv", "poll", "close", "rcvbuf"}
CHECK_DEADLOCK FALSE
INVARIANTS
    TypeOK
    NoLostWakeup
PROPERTIES
    PollReturns
