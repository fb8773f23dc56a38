----------------------------- MODULE UnixStream -----------------------------
(***************************************************************************)
(* send, recv and poll on one AF_UNIX connection                           *)
(* (docs/misc/2026-09-02-unix-connecting-ref-attempt.c.txt): the data that *)
(* end "a" sends goes into the buffer of end "b".  The other direction is  *)
(* the same code.                                                          *)
(*                                                                         *)
(* A call checks under the socket's lock, lets it go, and then waits under *)
(* the socket's spinlock; the wakeupPending sentinel of the kernel's wait  *)
(* queues is all that connects the two.                                    *)
(***************************************************************************)
EXTENDS Naturals, Sequences

CONSTANTS
    Types,      \* the types the socket may have: "stream", "seqpacket"
    Senders,    \* threads that send on end a
    Receivers,  \* threads that receive on end b
    Pollers,    \* threads that poll one of the ends
    Lengths,    \* the lengths of the buffers that clients pass
    BufferSizes,\* what SO_RCVBUF may make of the buffer of b
    Header,     \* sizeof(len), the header of a packet
    Ops         \* the calls that the clients make

ASSUME TypesAssumption == Types \subseteq {"stream", "seqpacket"}
ASSUME ThreadsAssumption ==
    Senders \cap Receivers = {} /\ Senders \cap Pollers = {} /\ Receivers \cap Pollers = {}
ASSUME LengthsAssumption == Lengths \subseteq Nat \ {0} /\ Lengths # {}
ASSUME SizesAssumption == BufferSizes \subseteq Nat \ {0} /\ BufferSizes # {}
ASSUME HeaderAssumption == Header \in Nat \ {0}
ASSUME OpsAssumption == Ops \subseteq {"send", "recv", "poll", "close", "rcvbuf"}

VARIABLES
    type,       \* the type of the socket, for its whole life
    buf,        \* the buffer of b, a cell per byte: a packet is a header, whose first cell has
                \* its length, and its data; the cells of data tell nothing
    buffsz,     \* its size
    file,       \* file[e]: end e has an open file
    up,         \* up[e]: end e has not been torn down; its peer's remote is not NULL
    hup,        \* hup[e]: US_PEER_CLOSED of end e
    resized,    \* history: SO_RCVBUF has replaced the buffer
    pending,    \* pending[q]: the wait queue q holds the wakeupPending sentinel
    pc, arg     \* where each thread is, and what its call was given

conn == <<type, buffsz, resized, file>>
vars == <<conn, buf, up, hup, pending, pc, arg>>

Threads == Senders \cup Receivers \cup Pollers
Ends == {"a", "b"}
Peer(e) == IF e = "a" THEN "b" ELSE "a"
Queues == {"queue", "writeq", "pollQueue"}

Data(n) == [i \in 1..n |-> 0]
Packet(len) == [i \in 1..Header + len |-> IF i = 1 THEN len ELSE 0]

Calls == [len : Lengths, dontwait : BOOLEAN, end : Ends]

SenderAt == {"user", "send", "sendRemote", "sendWrite", "sendWake", "sendWait", "sendSleep"}
ReceiverAt == {"user", "recv", "recvRead", "recvWake", "recvEmpty", "recvWait", "recvSleep"}
PollerAt == {"user", "poll", "pollWait", "pollSleep"}

\* _cbuffer_avail and _cbuffer_free
Avail == Len(buf)
Room == buffsz - Avail

\* The buffer of b never holds more than its size, packet headers included.
TypeOK ==
    /\ type \in Types
    /\ buffsz \in BufferSizes
    /\ buf \in Seq(Lengths \cup {0}) /\ Avail <= buffsz
    /\ file \in [Ends -> BOOLEAN] /\ up \in [Ends -> BOOLEAN] /\ hup \in [Ends -> BOOLEAN]
    /\ pending \in [Queues -> BOOLEAN] /\ resized \in BOOLEAN
    /\ pc \in [Threads -> SenderAt \cup ReceiverAt \cup PollerAt] /\ arg \in [Threads -> Calls]
    /\ \A p \in Senders : pc[p] \in SenderAt
    /\ \A p \in Receivers : pc[p] \in ReceiverAt
    /\ \A p \in Pollers : pc[p] \in PollerAt

\* accept() or socketpair() has just made the connection.
Init ==
    /\ type \in Types
    /\ buf = <<>>
    /\ buffsz \in BufferSizes
    /\ file = [e \in Ends |-> TRUE]
    /\ up = [e \in Ends |-> TRUE]
    /\ hup = [e \in Ends |-> FALSE]
    /\ resized = FALSE
    /\ pending = [q \in Queues |-> FALSE]
    /\ pc = [p \in Threads |-> "user"]
    /\ arg = [p \in Threads |-> CHOOSE c \in Calls : TRUE]

Goto(p, l) == pc' = [pc EXCEPT ![p] = l]

-----------------------------------------------------------------------------
(* References.  A thread in recv holds end b, one in send end a and, once it  *)
(* has found it, end b.  A poll holds what it looks at only while it looks.   *)

Holds(e, at) ==
    \/ e = "a" /\ \E p \in Senders : at[p] # "user"
    \/ e = "b" /\ \/ \E p \in Receivers : at[p] # "user"
                  \/ \E p \in Senders : at[p] \notin {"user", "send", "sendRemote"}

\* The last unixsock_put of an end marks its peer and clears the peer's remote.  It wakes
\* nobody.
Settle ==
    /\ up' = [e \in Ends |-> up[e] /\ (file'[e] \/ Holds(e, pc'))]
    /\ hup' = [e \in Ends |-> hup[e] \/ (up[Peer(e)] /\ ~up'[Peer(e)])]

-----------------------------------------------------------------------------
(* The kernel's wait queues *)

Awake(l) == CASE l = "sendSleep" -> "sendWrite"
              [] l = "recvSleep" -> "recvRead"
              [] l = "pollSleep" -> "poll"

\* pc after q's sleepers in S have been woken.
Wake(at, S) == [p \in Threads |-> IF p \in S THEN Awake(at[p]) ELSE at[p]]

SleepersOn(l) == {p \in Threads : pc[p] = l}

\* proc_threadWakeup of the queue on which threads are at l, and proc_threadBroadcast of
\* pollQueue, by p, which then returns.
WakeupAndBroadcast(p, q, l) ==
    LET one == {{t} : t \in SleepersOn(l)} \cup (IF SleepersOn(l) = {} THEN {{}} ELSE {})
        pollers == SleepersOn("pollSleep") IN
    \E woken \in one :
        /\ pc' = Wake([pc EXCEPT ![p] = "user"], woken \cup pollers)
        /\ pending' = [pending EXCEPT ![q] = @ \/ woken = {}, !["pollQueue"] = @ \/ pollers = {}]

proc_threadWait(p, q, again, sleep) ==
    /\ Goto(p, IF pending[q] THEN again ELSE sleep)
    /\ pending' = [pending EXCEPT ![q] = FALSE]

-----------------------------------------------------------------------------
(* Plausible slips, each a wrong version of the definition it is named after. *)
(* No specification uses them.                                                *)

\* A write that does not look at the room there is.
Written_IgnoresRoom(len) == Data(len)

\* The wait does not look at the sentinel.
RecvWait_NoSentinel(p) ==
    /\ pc[p] = "recvWait"
    /\ Goto(p, "recvSleep")
    /\ UNCHANGED <<conn, buf, up, hup, pending, arg>>

\* The poll waits without a deadline.
PollTimeout_NoDeadline(p) == pc[p] = "pollSleep" /\ UNCHANGED vars

-----------------------------------------------------------------------------
(* send *)

SendCall(p) ==
    /\ pc[p] = "user" /\ file["a"]
    /\ \E c \in Calls : c.end = "a" /\ arg' = [arg EXCEPT ![p] = c]
    /\ Goto(p, "send")
    /\ UNCHANGED <<conn, buf, up, hup, pending>>

\* EPIPE
SendCheck(p) ==
    /\ pc[p] = "send"
    /\ Goto(p, IF hup["a"] THEN "user" ELSE "sendRemote")
    /\ UNCHANGED <<conn, buf, pending, arg>>
    /\ Settle

\* unixsock_get_remote, or ENOTCONN
SendRemote(p) ==
    /\ pc[p] = "sendRemote"
    /\ Goto(p, IF up["b"] THEN "sendWrite" ELSE "user")
    /\ UNCHANGED <<conn, buf, pending, arg>>
    /\ Settle

\* What _cbuffer_write adds to the buffer; nothing when there is no room.
Written(len) ==
    IF type = "stream" THEN Data(IF len < Room THEN len ELSE Room)
    ELSE IF Room >= len + Header THEN Packet(len) ELSE <<>>

MessageTooLong(len) == type = "seqpacket" /\ buffsz < len + Header

\* Under the lock of b.
SendWrite(p) ==
    /\ pc[p] = "sendWrite"
    /\ LET c == arg[p] IN
         /\ buf' = buf \o Written(c.len)
         /\ Goto(p, IF Written(c.len) # <<>> THEN "sendWake"
                    ELSE IF MessageTooLong(c.len) \/ c.dontwait THEN "user" ELSE "sendWait")
    /\ UNCHANGED <<conn, pending, arg>>
    /\ Settle

SendWake(p) ==
    /\ pc[p] = "sendWake"
    /\ WakeupAndBroadcast(p, "queue", "recvSleep")
    /\ UNCHANGED <<conn, buf, arg>>
    /\ Settle

SendWait(p) ==
    /\ pc[p] = "sendWait"
    /\ proc_threadWait(p, "writeq", "sendWrite", "sendSleep")
    /\ UNCHANGED <<conn, buf, up, hup, arg>>

-----------------------------------------------------------------------------
(* recv *)

RecvCall(p) ==
    /\ pc[p] = "user" /\ file["b"]
    /\ \E c \in Calls : c.end = "b" /\ arg' = [arg EXCEPT ![p] = c]
    /\ Goto(p, "recv")
    /\ UNCHANGED <<conn, buf, up, hup, pending>>

\* ENOTCONN
RecvCheck(p) ==
    /\ pc[p] = "recv"
    /\ Goto(p, IF up["a"] \/ hup["b"] THEN "recvRead" ELSE "user")
    /\ UNCHANGED <<conn, buf, pending, arg>>
    /\ Settle

\* Under the lock of b.  Of a packet that is longer than len the rest is discarded.
RecvRead(p) ==
    /\ pc[p] = "recvRead"
    /\ LET wanted == IF type = "stream" THEN arg[p].len ELSE Header + Head(buf)
           taken == IF wanted < Avail THEN wanted ELSE Avail IN
       IF buf = <<>> THEN Goto(p, "recvEmpty") /\ UNCHANGED buf
       ELSE Goto(p, "recvWake") /\ buf' = SubSeq(buf, taken + 1, Avail)
    /\ UNCHANGED <<conn, up, hup, pending, arg>>

RecvWake(p) ==
    /\ pc[p] = "recvWake"
    /\ WakeupAndBroadcast(p, "writeq", "sendSleep")
    /\ UNCHANGED <<conn, buf, arg>>
    /\ Settle

\* EOS, or EWOULDBLOCK; the lock has been released.
RecvEmpty(p) ==
    /\ pc[p] = "recvEmpty"
    /\ Goto(p, IF hup["b"] \/ arg[p].dontwait THEN "user" ELSE "recvWait")
    /\ UNCHANGED <<conn, buf, pending, arg>>
    /\ Settle

RecvWait(p) ==
    /\ pc[p] = "recvWait"
    /\ proc_threadWait(p, "queue", "recvRead", "recvSleep")
    /\ UNCHANGED <<conn, buf, up, hup, arg>>

-----------------------------------------------------------------------------
(* poll for input at b or for output at a, and its caller's loop *)

Readable == buf # <<>> \/ hup["b"]
Writable == hup["a"] \/ (up["b"] /\ Room > IF type = "stream" THEN 0 ELSE Header)
Ready(e) == IF e = "b" THEN Readable ELSE Writable

PollCall(p) ==
    /\ pc[p] = "user"
    /\ \E e \in Ends : file[e] /\ arg' = [arg EXCEPT ![p].end = e]
    /\ Goto(p, "poll")
    /\ UNCHANGED <<conn, buf, up, hup, pending>>

\* POLLNVAL once the socket is gone.
unix_poll(p) ==
    /\ pc[p] = "poll"
    /\ Goto(p, IF Ready(arg[p].end) \/ ~up[arg[p].end] THEN "user" ELSE "pollWait")
    /\ UNCHANGED <<conn, buf, up, hup, pending, arg>>

unix_pollWait(p) ==
    /\ pc[p] = "pollWait"
    /\ proc_threadWait(p, "pollQueue", "poll", "pollSleep")
    /\ UNCHANGED <<conn, buf, up, hup, arg>>

PollTimeout(p) ==
    /\ pc[p] = "pollSleep"
    /\ Goto(p, "poll")
    /\ UNCHANGED <<conn, buf, up, hup, pending, arg>>

-----------------------------------------------------------------------------
(* close, setsockopt *)

unix_close(e) ==
    /\ file[e]
    /\ file' = [file EXCEPT ![e] = FALSE]
    /\ UNCHANGED <<type, buffsz, resized, buf, pending, pc, arg>>
    /\ Settle

\* The data in the old buffer is lost, and nobody hears of the room in the new one.
unix_bufferSetSize ==
    /\ file["b"]
    /\ buffsz' \in BufferSizes
    /\ buf' = <<>>
    /\ resized' = TRUE
    /\ UNCHANGED <<type, file, up, hup, pending, pc, arg>>

-----------------------------------------------------------------------------
Send(p) == SendCheck(p) \/ SendRemote(p) \/ SendWrite(p) \/ SendWake(p) \/ SendWait(p)
Recv(p) == RecvCheck(p) \/ RecvRead(p) \/ RecvWake(p) \/ RecvEmpty(p) \/ RecvWait(p)
Poll(p) == unix_poll(p) \/ unix_pollWait(p)

Next ==
    \/ \E p \in Senders : ("send" \in Ops /\ SendCall(p)) \/ Send(p)
    \/ \E p \in Receivers : ("recv" \in Ops /\ RecvCall(p)) \/ Recv(p)
    \/ \E p \in Pollers : ("poll" \in Ops /\ PollCall(p)) \/ Poll(p) \/ PollTimeout(p)
    \/ \E e \in Ends : "close" \in Ops /\ unix_close(e)
    \/ "rcvbuf" \in Ops /\ unix_bufferSetSize

Spec == Init /\ [][Next]_vars

\* A call that can go on does so, and the timer of a poll expires.
Fairness ==
    /\ \A p \in Senders : WF_vars(Send(p))
    /\ \A p \in Receivers : WF_vars(Recv(p))
    /\ \A p \in Pollers : WF_vars(Poll(p)) /\ WF_vars(PollTimeout(p))

FairSpec == Spec /\ Fairness

-----------------------------------------------------------------------------
(* Properties *)

\* A receiver sleeps over data only while another thread is about to wake it or to take the
\* data (lines 939-996).
ReceiverIsWoken ==
    \A p \in Receivers : pc[p] = "recvSleep" /\ buf # <<>> =>
        \/ \E q \in Senders : pc[q] = "sendWake"
        \/ \E q \in Receivers : pc[q] = "recvRead"

\* A sender for whose message there is room is woken, and none waits for room in an empty
\* buffer, where no receiver could make any: what is too long is refused (lines 1094-1103).
SenderIsWoken ==
    \A p \in Senders : pc[p] = "sendSleep" /\ (Written(arg[p].len) # <<>> \/ buf = <<>>) =>
        \/ \E q \in Receivers : pc[q] = "recvWake"
        \/ \E q \in Senders : pc[q] = "sendWrite"

\* No poller sleeps on an end with data or with room.
PollerIsWoken ==
    \A p \in Pollers :
        LET e == arg[p].end IN
        pc[p] = "pollSleep" /\ up[e] /\ ~hup[e] /\ Ready(e) =>
            \E q \in Threads : pc[q] \in {"sendWake", "recvWake"}

\* "Every unix-socket state change (data queued, write space, peer close) wakes pollQueue"
\* (lines 81-82), and "the wakeupPending sentinel covers the check-then-wait race" (line 86),
\* between a check under the lock and a wait under the spinlock.  This is about data and
\* room.  The exceptions are a peer that closes, which wakes nobody (lines 294-302), so that a
\* poller learns of it at its next timeout and a receiver or sender that sleeps never does
\* (CloseEndsSleep, below), and SO_RCVBUF, which makes room that no sender and no poller
\* hears of.
NoLostWakeup == ReceiverIsWoken /\ (~resized => SenderIsWoken /\ PollerIsWoken)

\* "this can never hang, only add latency" (lines 1422-1423): a poll of an end that stays
\* ready returns.
PollReturns ==
    \A p \in Pollers :
        pc[p] = "pollSleep" ~> (pc[p] = "user" \/ ~Ready(arg[p].end))

-----------------------------------------------------------------------------
(* What the comments of the file say and the code does not do.  The README names the *)
(* constants that show each of them violated.                                        *)

\* "Every unix-socket state change (..., peer close) wakes pollQueue" (lines 81-82), and recv
\* answers EOS (line 983): nobody sleeps for good on a connection whose other end is closed.
CloseEndsSleep ==
    /\ \A p \in Receivers : (pc[p] = "recvSleep" /\ hup["b"]) ~> pc[p] # "recvSleep"
    /\ \A p \in Senders : (pc[p] = "sendSleep" /\ ~file["b"]) ~> pc[p] # "sendSleep"

\* "EOS" (line 983): recv reports the end of the stream only when there is no data left.
EosMeansEnd ==
    [][\A p \in Receivers :
         pc[p] = "recvEmpty" /\ pc'[p] = "user" /\ hup["b"] => buf = <<>>]_vars
=============================================================================
