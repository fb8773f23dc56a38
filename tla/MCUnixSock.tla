----------------------------- MODULE MCUnixSock -----------------------------
(* The AF_UNIX socket layer for TLC. *)
EXTENDS UnixSock, TLC

Symmetry == Permutations(Threads)

\* A server has bound socket 1 and listens; one client has a socket, and no call is under
\* way.  The runs about the rendezvous start here.
Listening ==
    /\ \E nonblock \in Nonblocking :
         sock = [s \in Socks |->
           CASE s = 1 -> [NewSock(0, FALSE) EXCEPT !.refs = 1, !.state = {"BOUND", "LISTENING"}]
             [] s = 2 -> [NewSock(1, nonblock) EXCEPT !.refs = 1]
             [] OTHER -> Blank]
    /\ th = [p \in Threads |-> User]
    /\ open = {1, 2}
    /\ path = 0

RendezvousSpec == Listening /\ [][Next]_vars
FairRendezvousSpec == RendezvousSpec /\ Fairness
=============================================================================
