------------------------------ MODULE UnixSock ------------------------------
(***************************************************************************)
(* The lifetime of AF_UNIX sockets and the accept/connect rendezvous in    *)
(* posix/unix.c, in the version in which the list of connecting sockets    *)
(* owns a reference                                                        *)
(* (docs/misc/2026-09-02-unix-connecting-ref-attempt.c.txt).  Connection-  *)
(* oriented sockets only, and one path in the file system.                 *)
(*                                                                         *)
(* What is one step: a section under unix_common.lock, a section under one *)
(* socket's spinlock, and a run of unlocked reads between two of those.    *)
(* The spinlock and the lock do not exclude each other.                    *)
(***************************************************************************)
EXTENDS Naturals, Sequences, FiniteSets, SequencesExt

CONSTANTS
    Threads,        \* the threads that make system calls
    MaxSocks,       \* bound: structures that are ever allocated
    HasTimeout,     \* US_CONNECT_TIMEOUT # 0
    Nonblocking,    \* what socket() may ask for: a set of Booleans
    SharedConnect,  \* may a socket be in two calls of connect() or listen() at once
    Ops             \* the calls that the clients make

ASSUME ThreadsAssumption == IsFiniteSet(Threads)
ASSUME MaxSocksAssumption == MaxSocks \in Nat \ {0}
ASSUME FlagsAssumption ==
    HasTimeout \in BOOLEAN /\ SharedConnect \in BOOLEAN
ASSUME OpsAssumption ==
    Ops \subseteq {"socket", "socketpair", "bind", "listen", "accept", "connect",
                   "close", "shutdown", "unlink"}
ASSUME NonblockingAssumption == Nonblocking \subseteq BOOLEAN

VARIABLES
    sock,   \* sock[s]: the structure unixsock_t at address s; no address is used twice
    th,     \* th[p]: the call that thread p is in
    open,   \* the open files, each named by the socket it was opened for
    path    \* the id in the socket node of the file system, or NoId

vars == <<sock, th, open, path>>

Socks == 1..MaxSocks
NULL == 0
Ids == 0..(MaxSocks - 1)
NoId == MaxSocks

Flags == {"BOUND", "LISTENING", "CONNECTING", "PEER_CLOSED"}

AcceptLocations == {"accept", "acceptAlloc", "acceptLoop", "acceptSleep", "acceptPair"}

SetUpLocations ==
    {"listen", "connect", "connectLookup", "connectRemote", "connectRef", "connectAdd",
     "connectMark", "connectStore", "connectLoop", "connectSleep", "connectUnlink",
     "lateLoop", "lateSleep"}

Locations ==
    {"user", "finish", "pair", "bind", "bindCreate"} \cup AcceptLocations \cup SetUpLocations

\* What is left to do of a call: references to drop, and what the drop of a last
\* reference brings with it.
Task(op, s) == [op |-> op, s |-> s]
Tasks == [op : {"put", "detach", "free", "open"}, s : Socks]

Sockets ==
    [mem : {"unused", "live", "dying", "freed"},
     id : Ids,
     refs : Nat,
     state : SUBSET Flags,
     nonblock : BOOLEAN,
     remote : Socks \cup {NULL},
     connecting : Seq(Socks),
     wakeup : BOOLEAN]      \* the wakeupPending sentinel in queue

Calls ==
    [pc : Locations,
     s : Socks \cup {NULL}, r : Socks \cup {NULL}, new : Socks \cup {NULL},
     seen : SUBSET Flags,
     todo : Seq(Tasks)]

\* The fields of unixsock_t and the places in its functions; no reference count is negative,
\* and every pointer of a call or of a pending drop leads to a socket.
TypeOK ==
    /\ sock \in [Socks -> Sockets]
    /\ th \in [Threads -> Calls]
    /\ open \subseteq Socks
    /\ path \in Ids \cup {NoId}

User == [pc |-> "user", s |-> NULL, r |-> NULL, new |-> NULL, seen |-> {}, todo |-> <<>>]

Blank ==
    [mem |-> "unused", id |-> 0, refs |-> 0, state |-> {}, nonblock |-> FALSE,
     remote |-> NULL, connecting |-> <<>>, wakeup |-> FALSE]

Init ==
    /\ sock = [s \in Socks |-> Blank]
    /\ th = [p \in Threads |-> User]
    /\ open = {}
    /\ path = NoId

-----------------------------------------------------------------------------
(* The tree *)

Live == {s \in Socks : sock[s].mem = "live"}
Found(i) == {s \in Live : sock[s].id = i}

\* lib_rbFindEx over the gaps ends next to an id that is in use.
FreeId(i) ==
    /\ Found(i) = {}
    /\ IF Live = {} THEN i = 0
       ELSE \E s \in Live : i + 1 = sock[s].id \/ i = sock[s].id + 1

\* The structure the next vm_kmalloc returns.
Fresh == CHOOSE s \in Socks : sock[s].mem = "unused"
CanAlloc == \E s \in Socks : sock[s].mem = "unused"

NewSock(i, nonblock) ==
    [Blank EXCEPT !.mem = "live", !.id = i, !.refs = 2, !.nonblock = nonblock]

unixsock_alloc(i, nonblock) == [sock EXCEPT ![Fresh] = NewSock(i, nonblock)]

-----------------------------------------------------------------------------
(* Steps of a call *)

At(p, l) == th[p].pc = l

\* th after p goes on to l.
Goto(p, l) == [th EXCEPT ![p].pc = l]

\* th after p decides to do nothing more than tasks; with none left the call returns.
Leave(p, tasks) ==
    [th EXCEPT ![p] = IF tasks = <<>> THEN User ELSE [User EXCEPT !.pc = "finish", !.todo = tasks]]

\* A slip, used by no specification: the call drops a reference that it never took.
Return_AlwaysRemote(p) == Leave(p, <<Task("put", th[p].r), Task("put", th[p].s)>>)

\* The call drops its references and returns.
Return(p) ==
    LET c == th[p] IN
    Leave(p, IF c.r = NULL THEN <<Task("put", c.s)>>
             ELSE <<Task("put", c.r), Task("put", c.s)>>)

\* unixsock_get(socket): p enters a call on the file f.
Enter(p, f, l) ==
    /\ At(p, "user")
    /\ f \in open
    /\ \E s \in Found(sock[f].id) :
         /\ sock' = [sock EXCEPT ![s].refs = @ + 1]
         /\ th' = [th EXCEPT ![p].s = s, ![p].pc = l]
    /\ UNCHANGED <<open, path>>

\* No other thread is in connect() or listen() on the socket of f.
Undisturbed(f) == \A q \in Threads : th[q].s = f => th[q].pc \notin SetUpLocations

-----------------------------------------------------------------------------
(* proc_threadWait and proc_threadWakeup on the queue of a socket *)

Asleep(q, s) == th[q].pc \in {"acceptSleep", "connectSleep", "lateSleep"} /\ th[q].s = s

Awake(l) == CASE l = "acceptSleep" -> "acceptLoop"
              [] l = "connectSleep" -> "connectLoop"
              [] l = "lateSleep" -> "lateLoop"

\* A thread that waits is woken; if there is none, the next wait returns at once.
proc_threadWakeup(s, sk, t) ==
    \/ \E q \in Threads :
         /\ Asleep(q, s)
         /\ th' = [t EXCEPT ![q].pc = Awake(@)]
         /\ sock' = sk
    \/ /\ ~\E q \in Threads : Asleep(q, s)
       /\ th' = t
       /\ sock' = [sk EXCEPT ![s].wakeup = TRUE]

proc_threadWait(p, sleep) ==
    IF sock[th[p].s].wakeup
      THEN sock' = [sock EXCEPT ![th[p].s].wakeup = FALSE] /\ UNCHANGED th
      ELSE th' = Goto(p, sleep) /\ UNCHANGED sock

\* Nobody is between the load and the store of s->state |= US_CONNECTING.
SpinlockFree(s) == \A q \in Threads : ~(At(q, "connectStore") /\ th[q].s = s)

-----------------------------------------------------------------------------
(* Plausible slips, each a wrong version of the definition it is named after. *)
(* No specification uses them.                                                *)

\* The peer of a socket that goes away keeps its pointer.
Orphaned_PeerNotTold(s) ==
    [sock EXCEPT ![s] = [@ EXCEPT !.mem = "dying", !.refs = 0, !.connecting = <<>>]]

\* The listener's list is dropped, and not the references it owns.
Teardown_NoDetach(s) == <<Task("free", s)>>

\* close() and shutdown() drop the reference they took, and leave the tree's.
DropTwice_Once(p, f) ==
    LET found == Found(sock[f].id) IN
    IF found = {} THEN UNCHANGED <<sock, th>>
    ELSE \E s \in found :
           /\ sock' = [sock EXCEPT ![s].refs = @ + 1]
           /\ th' = Leave(p, <<Task("put", s)>>)

\* accept() keeps the reference it inherited from the list.
AcceptPair_KeepsReference(p) ==
    /\ At(p, "acceptPair")
    /\ LET c == th[p] IN
         /\ SpinlockFree(c.r)
         /\ proc_threadWakeup(c.r,
              [sock EXCEPT ![c.r].state = @ \ {"PEER_CLOSED", "CONNECTING"},
                           ![c.r].remote = c.new, ![c.new].remote = c.r],
              Leave(p, <<Task("put", c.new), Task("put", c.s), Task("open", c.new)>>))
    /\ UNCHANGED <<open, path>>

\* accept() wakes the listener's queue instead of the connecting socket's.
AcceptPair_WrongQueue(p) ==
    /\ At(p, "acceptPair")
    /\ LET c == th[p] IN
         /\ SpinlockFree(c.r)
         /\ proc_threadWakeup(c.s,
              [sock EXCEPT ![c.r].state = @ \ {"PEER_CLOSED", "CONNECTING"},
                           ![c.r].remote = c.new, ![c.new].remote = c.r],
              Leave(p, <<Task("put", c.new), Task("put", c.r), Task("put", c.s),
                         Task("open", c.new)>>))
    /\ UNCHANGED <<open, path>>

\* The list of connecting sockets owns no reference, as before this version.
ConnectRef_NotTaken(p) ==
    /\ At(p, "connectRef")
    /\ th' = Goto(p, "connectAdd")
    /\ UNCHANGED <<sock, open, path>>

\* A timeout leaves the socket on the list.
ConnectUnlink_LeftOnList(p) ==
    /\ At(p, "connectUnlink")
    /\ LET c == th[p] IN th' = Leave(p, <<Task("put", c.r), Task("put", c.s)>>)
    /\ UNCHANGED <<sock, open, path>>

-----------------------------------------------------------------------------
(* unixsock_put, one step per section under a lock *)

\* What s leaves behind when its last reference is dropped: its peer is told, and the
\* sockets that still wait to be accepted are detached before the memory is freed.
Orphaned(s) ==
    LET t == sock[s].remote IN
    [q \in Socks |->
       IF q = s THEN [sock[s] EXCEPT !.mem = "dying", !.refs = 0, !.connecting = <<>>]
       ELSE IF q = t THEN [sock[t] EXCEPT !.state = @ \cup {"PEER_CLOSED"}, !.remote = NULL]
       ELSE sock[q]]

Teardown(s) ==
    LET waiting == sock[s].connecting IN
    [i \in DOMAIN waiting |-> Task("detach", waiting[i])] \o <<Task("free", s)>>

Put(p, s) ==
    IF sock[s].refs > 1
      THEN /\ sock' = [sock EXCEPT ![s].refs = @ - 1]
           /\ th' = Leave(p, Tail(th[p].todo))
      ELSE /\ sock' = Orphaned(s)
           /\ th' = Leave(p, Teardown(s) \o Tail(th[p].todo))

\* The listener is gone: a socket on its list is told and loses the list's reference.
Detach(p, q) ==
    /\ SpinlockFree(q)
    /\ proc_threadWakeup(q,
         [sock EXCEPT ![q].state = (@ \cup {"PEER_CLOSED"}) \ {"CONNECTING"}],
         Leave(p, <<Task("put", q)>> \o Tail(th[p].todo)))

Free(p, s) ==
    /\ sock' = [sock EXCEPT ![s] = [Blank EXCEPT !.mem = "freed", !.id = sock[s].id]]
    /\ th' = Leave(p, Tail(th[p].todo))

Finish(p) ==
    /\ At(p, "finish")
    /\ LET task == Head(th[p].todo) IN
         \/ task.op = "put" /\ Put(p, task.s) /\ UNCHANGED open
         \/ task.op = "detach" /\ Detach(p, task.s) /\ UNCHANGED open
         \/ task.op = "free" /\ Free(p, task.s) /\ UNCHANGED open
         \/ /\ task.op = "open"
            /\ open' = open \cup {task.s}
            /\ th' = Leave(p, Tail(th[p].todo))
            /\ UNCHANGED sock
    /\ UNCHANGED path

-----------------------------------------------------------------------------
(* socket, socketpair, close, shutdown *)

unix_socket(p) ==
    /\ At(p, "user")
    /\ CanAlloc
    /\ \E i \in Ids, nonblock \in Nonblocking :
         /\ FreeId(i)
         /\ sock' = unixsock_alloc(i, nonblock)
    /\ th' = Leave(p, <<Task("put", Fresh), Task("open", Fresh)>>)
    /\ UNCHANGED <<open, path>>

unix_socketpair(p) ==
    /\ At(p, "user")
    /\ CanAlloc
    /\ \E i \in Ids, nonblock \in Nonblocking :
         /\ FreeId(i)
         /\ sock' = unixsock_alloc(i, nonblock)
    /\ th' = [th EXCEPT ![p].pc = "pair", ![p].new = Fresh]
    /\ UNCHANGED <<open, path>>

\* There is no memory for the second socket ...
PairFails(p) ==
    /\ At(p, "pair")
    /\ th' = Leave(p, <<Task("put", th[p].new), Task("put", th[p].new)>>)
    /\ UNCHANGED <<sock, open, path>>

\* ... or there is, and then there may be none for the buffers.
PairSecond(p) ==
    /\ At(p, "pair")
    /\ CanAlloc
    /\ LET s0 == th[p].new
           s1 == Fresh IN
       \E i \in Ids :
         /\ FreeId(i)
         /\ \/ /\ sock' = [unixsock_alloc(i, sock[s0].nonblock) EXCEPT
                             ![s0].remote = s1, ![s1].remote = s0]
               /\ th' = Leave(p, <<Task("put", s1), Task("put", s0),
                                   Task("open", s0), Task("open", s1)>>)
            \/ /\ sock' = unixsock_alloc(i, sock[s0].nonblock)
               /\ th' = Leave(p, <<Task("put", s1), Task("put", s1),
                                   Task("put", s0), Task("put", s0)>>)
    /\ UNCHANGED <<open, path>>

\* unixsock_get and two times unixsock_put: the second drops the tree's reference.
DropTwice(p, f) ==
    LET found == Found(sock[f].id) IN
    IF found = {} THEN UNCHANGED <<sock, th>>
    ELSE \E s \in found :
           /\ sock' = [sock EXCEPT ![s].refs = @ + 1]
           /\ th' = Leave(p, <<Task("put", s), Task("put", s)>>)

unix_close(p, f) ==
    /\ At(p, "user")
    /\ f \in open
    /\ open' = open \ {f}
    /\ DropTwice(p, f)
    /\ UNCHANGED path

\* The same calls, and the file stays open.
unix_shutdown(p, f) ==
    /\ At(p, "user")
    /\ f \in open
    /\ Found(sock[f].id) # {}
    /\ DropTwice(p, f)
    /\ UNCHANGED <<open, path>>

-----------------------------------------------------------------------------
(* bind, listen *)

BindCheck(p) ==
    /\ At(p, "bind")
    /\ th' = IF "BOUND" \in sock[th[p].s].state THEN Return(p) ELSE Goto(p, "bindCreate")
    /\ UNCHANGED <<sock, open, path>>

\* proc_create makes the socket node, or finds one.
BindCreate(p) ==
    /\ At(p, "bindCreate")
    /\ IF path = NoId
         THEN /\ path' = sock[th[p].s].id
              /\ sock' = [sock EXCEPT ![th[p].s].state = @ \cup {"BOUND"}]
         ELSE UNCHANGED <<path, sock>>
    /\ th' = Return(p)
    /\ UNCHANGED open

\* The node outlives its socket: the file system forgets it when a client unlinks it.
Unlink ==
    /\ path # NoId
    /\ path' = NoId
    /\ UNCHANGED <<sock, th, open>>

unix_listen(p) ==
    /\ At(p, "listen")
    /\ sock' = [sock EXCEPT ![th[p].s].state = @ \cup {"LISTENING"}]
    /\ th' = Return(p)
    /\ UNCHANGED <<open, path>>

-----------------------------------------------------------------------------
(* accept *)

AcceptCheck(p) ==
    /\ At(p, "accept")
    /\ LET s == sock[th[p].s] IN
       th' = IF "LISTENING" \in s.state /\ ~(s.nonblock /\ s.connecting = <<>>)
               THEN Goto(p, "acceptAlloc") ELSE Return(p)
    /\ UNCHANGED <<sock, open, path>>

\* The new socket and its buffer are allocated before there is a connection to accept.
AcceptAlloc(p) ==
    /\ At(p, "acceptAlloc")
    /\ CanAlloc
    /\ \E i \in Ids, nonblock \in Nonblocking :
         /\ FreeId(i)
         /\ sock' = unixsock_alloc(i, nonblock)
    /\ \/ th' = [th EXCEPT ![p].pc = "acceptLoop", ![p].new = Fresh]
       \/ th' = Leave(p, <<Task("put", Fresh), Task("put", Fresh), Task("put", th[p].s)>>)
    /\ UNCHANGED <<open, path>>

AcceptNoMemory(p) ==
    /\ At(p, "acceptAlloc")
    /\ th' = Return(p)
    /\ UNCHANGED <<sock, open, path>>

\* Under the listener's spinlock: the head of the list and the list's reference to it
\* pass to this call.
AcceptTake(p) ==
    /\ At(p, "acceptLoop")
    /\ LET s == th[p].s IN
         /\ sock[s].connecting # <<>>
         /\ sock' = [sock EXCEPT ![s].connecting = Tail(@)]
         /\ th' = [th EXCEPT ![p].r = Head(sock[s].connecting), ![p].pc = "acceptPair"]
    /\ UNCHANGED <<open, path>>

AcceptWait(p) ==
    /\ At(p, "acceptLoop")
    /\ sock[th[p].s].connecting = <<>>
    /\ proc_threadWait(p, "acceptSleep")
    /\ UNCHANGED <<open, path>>

\* Under the connecting socket's spinlock.
AcceptPair(p) ==
    /\ At(p, "acceptPair")
    /\ LET c == th[p] IN
         /\ SpinlockFree(c.r)
         /\ proc_threadWakeup(c.r,
              [sock EXCEPT ![c.r].state = @ \ {"PEER_CLOSED", "CONNECTING"},
                           ![c.r].remote = c.new, ![c.new].remote = c.r],
              Leave(p, <<Task("put", c.new), Task("put", c.r), Task("put", c.s),
                         Task("open", c.new)>>))
    /\ UNCHANGED <<open, path>>

-----------------------------------------------------------------------------
(* connect *)

\* EADDRINUSE, EALREADY or EISCONN.
ConnectCheck(p) ==
    /\ At(p, "connect")
    /\ LET s == sock[th[p].s] IN
       th' = IF s.state \cap {"LISTENING", "CONNECTING", "PEER_CLOSED"} = {} /\ s.remote = NULL
               THEN Goto(p, "connectLookup") ELSE Return(p)
    /\ UNCHANGED <<sock, open, path>>

\* proc_lookup, and unixsock_get of the id it finds.
ConnectLookup(p) ==
    /\ At(p, "connectLookup")
    /\ IF Found(path) = {} THEN th' = Return(p) /\ UNCHANGED sock
       ELSE \E r \in Found(path) :
              /\ sock' = [sock EXCEPT ![r].refs = @ + 1]
              /\ th' = [th EXCEPT ![p].r = r, ![p].pc = "connectRemote"]
    /\ UNCHANGED <<open, path>>

\* ECONNREFUSED; or ENOMEM for the buffer.
ConnectRemote(p) ==
    /\ At(p, "connectRemote")
    /\ \/ "LISTENING" \in sock[th[p].r].state /\ th' = Goto(p, "connectRef")
       \/ th' = Return(p)
    /\ UNCHANGED <<sock, open, path>>

\* The reference that the list of connecting sockets will own.
ConnectRef(p) ==
    /\ At(p, "connectRef")
    /\ sock' = [sock EXCEPT ![th[p].s].refs = @ + 1]
    /\ th' = Goto(p, "connectAdd")
    /\ UNCHANGED <<open, path>>

ConnectAdd(p) ==
    /\ At(p, "connectAdd")
    /\ LET c == th[p] IN
       proc_threadWakeup(c.r, [sock EXCEPT ![c.r].connecting = Append(@, c.s)],
                         Goto(p, "connectMark"))
    /\ UNCHANGED <<open, path>>

\* s->state |= US_CONNECTING is a load ...
ConnectMark(p) ==
    /\ At(p, "connectMark")
    /\ SpinlockFree(th[p].s)
    /\ th' = [th EXCEPT ![p].seen = sock[th[p].s].state, ![p].pc = "connectStore"]
    /\ UNCHANGED <<sock, open, path>>

\* ... and a store.  The spinlock does not keep unixsock_put of the peer out.
ConnectStore(p) ==
    /\ At(p, "connectStore")
    /\ LET s == th[p].s IN
         /\ sock' = [sock EXCEPT ![s].state = th[p].seen \cup {"CONNECTING"}]
         /\ th' = IF sock[s].nonblock /\ sock[s].remote = NULL THEN Return(p)
                  ELSE [th EXCEPT ![p].seen = {}, ![p].pc = "connectLoop"]
    /\ UNCHANGED <<open, path>>

\* while (s->remote == NULL), with the spinlock held.
ConnectLoop(p) ==
    /\ At(p, "connectLoop")
    /\ IF sock[th[p].s].remote # NULL THEN th' = Return(p) /\ UNCHANGED sock
       ELSE proc_threadWait(p, "connectSleep")
    /\ UNCHANGED <<open, path>>

\* proc_threadWait returns -ETIME.
ConnectTimeout(p) ==
    /\ HasTimeout
    /\ At(p, "connectSleep")
    /\ SpinlockFree(th[p].s)
    /\ IF sock[th[p].s].remote # NULL THEN th' = Return(p) /\ UNCHANGED sock
       ELSE /\ sock' = [sock EXCEPT ![th[p].s].state = @ \ {"CONNECTING"}]
            /\ th' = Goto(p, "connectUnlink")
    /\ UNCHANGED <<open, path>>

\* Under the listener's spinlock.  A socket that is not on the list any more is about to
\* be accepted.
ConnectUnlink(p) ==
    /\ At(p, "connectUnlink")
    /\ LET c == th[p]
           list == sock[c.r].connecting
           found == {i \in DOMAIN list : list[i] = c.s} IN
       IF found # {}
         THEN /\ \E i \in found : sock' = [sock EXCEPT ![c.r].connecting = RemoveAt(@, i)]
              /\ th' = Leave(p, <<Task("put", c.s), Task("put", c.r), Task("put", c.s)>>)
         ELSE UNCHANGED sock /\ th' = Goto(p, "lateLoop")
    /\ UNCHANGED <<open, path>>

LateLoop(p) ==
    /\ At(p, "lateLoop")
    /\ IF sock[th[p].s].remote # NULL THEN th' = Return(p) /\ UNCHANGED sock
       ELSE proc_threadWait(p, "lateSleep")
    /\ UNCHANGED <<open, path>>

-----------------------------------------------------------------------------
Create(p) == ("socket" \in Ops /\ unix_socket(p)) \/ ("socketpair" \in Ops /\ unix_socketpair(p))

\* A client makes a call on one of its open files.
Call(p) ==
    \E f \in open :
      \/ \E op \in Ops \cap {"bind", "accept"} : Enter(p, f, op)
      \/ \E op \in Ops \cap {"listen", "connect"} : (SharedConnect \/ Undisturbed(f)) /\ Enter(p, f, op)
      \/ "close" \in Ops /\ unix_close(p, f)
      \/ "shutdown" \in Ops /\ unix_shutdown(p, f)

AcceptStep(p) ==
    AcceptCheck(p) \/ AcceptAlloc(p) \/ AcceptNoMemory(p) \/ AcceptTake(p) \/ AcceptWait(p) \/ AcceptPair(p)

ConnectStep(p) ==
    \/ ConnectCheck(p) \/ ConnectLookup(p) \/ ConnectRemote(p) \/ ConnectRef(p) \/ ConnectAdd(p)
    \/ ConnectMark(p) \/ ConnectStore(p) \/ ConnectLoop(p)
    \/ ConnectTimeout(p) \/ ConnectUnlink(p) \/ LateLoop(p)

\* A step inside the kernel.
Kernel(p) ==
    \/ PairFails(p) \/ PairSecond(p) \/ BindCheck(p) \/ BindCreate(p) \/ unix_listen(p)
    \/ AcceptStep(p) \/ ConnectStep(p) \/ Finish(p)

Next == ("unlink" \in Ops /\ Unlink) \/ \E p \in Threads : Create(p) \/ Call(p) \/ Kernel(p)

Spec == Init /\ [][Next]_vars

\* A thread in the kernel that can go on does so.
Fairness == \A p \in Threads : WF_vars(Kernel(p))

FairSpec == Spec /\ Fairness

-----------------------------------------------------------------------------
(* Properties *)

\* Who owns a reference to s besides the tree: the calls that found it (one that has
\* allocated it has both references) or that are about to queue it, ...
Roles(c, s) ==
    {k \in {"s", "r", "new", "newtree", "add"} :
        \/ k = "s" /\ c.s = s
        \/ k = "r" /\ c.r = s
        \/ k \in {"new", "newtree"} /\ c.new = s
        \/ k = "add" /\ c.pc = "connectAdd" /\ c.s = s}

Holders(s) == UNION {{p} \X Roles(th[p], s) : p \in Threads}

\* ... the drops that are still to come, ...
Pending(todo, s) == {i \in DOMAIN todo : todo[i].s = s /\ todo[i].op # "free"}
Drops(s) == UNION {{p} \X Pending(th[p].todo, s) : p \in Threads}

\* ... and the lists of connecting sockets.
Positions(list, s) == {i \in DOMAIN list : list[i] = s}
Links(s) == UNION {{r} \X Positions(sock[r].connecting, s) : r \in Socks}

\* "a queued socket can no longer be freed while linked, and accept4 no longer touches an
\* unreferenced object" (workorder, lines 504-505): whatever a call, a pending drop or a
\* list of connecting sockets points at is still allocated and in the tree.
NoUseAfterFree ==
    \A s \in Socks : Holders(s) \cup Drops(s) \cup Links(s) # {} => sock[s].mem = "live"

\* refs counts exactly the owners, the open file standing for the tree's reference
\* (lines 226-229): no path of connect, accept, the timeout or the listener's teardown
\* drops one too many, or keeps one.
RefsBalance ==
    \A s \in Live :
        sock[s].refs = Cardinality(Holders(s)) + Cardinality(Drops(s)) + Cardinality(Links(s))
                         + (IF s \in open THEN 1 ELSE 0)

\* "unixsock_put clears the peer's [remote] when either side goes away" (lines 535-537):
\* the weak pointer of a socket leads to a socket that exists and points back.
RemoteIsMutual ==
    \A s \in Live : sock[s].remote # NULL =>
        sock[s].remote \in Live /\ sock[sock[s].remote].remote = s

\* Once every file is closed and every call has returned, no socket is left, queued or not,
\* though close() drops the reference of whatever has the id of its file by then.
NothingLeaks == (open = {} /\ \A p \in Threads : At(p, "user")) => Live = {}

\* No wakeup is lost between a check and a wait of the rendezvous: a thread sleeps on a
\* listener with a connection waiting only while another one is on its way to take it, and in
\* connect it never sleeps on a socket that has a peer.  This does not cover a peer that comes
\* and goes before connect looks again, nor a listener that goes away: what connect tests
\* (line 783) is lost then, and it sleeps for good (SleepingConnectIsWaiting and
\* ConnectStopsWaiting, below).
NoLostWakeup ==
    \A p \in Threads :
        LET s == sock[th[p].s] IN
        /\ At(p, "acceptSleep") /\ s.connecting # <<>> =>
               \E q \in Threads : At(q, "acceptLoop") /\ th[q].s = th[p].s
        /\ th[p].pc \in {"connectSleep", "lateSleep"} => s.remote = NULL

\* Where the rendezvous has a socket: between AcceptTake and AcceptPair, or between the
\* teardown of its listener and Detach, no list has it and it has no answer yet.
Handles(c, s) ==
    \/ c.pc = "acceptPair" /\ c.r = s
    \/ \E i \in DOMAIN c.todo : c.todo[i] = Task("detach", s)

RQueue == [l \in Socks |-> sock[l].connecting]
RTaken == {s \in Socks : \E p \in Threads : Handles(th[p], s)}
RPeer == [s \in Socks |-> IF sock[s].mem = "live" THEN sock[s].remote ELSE NULL]

R == INSTANCE Rendezvous WITH
       Sockets <- Socks, Nobody <- NULL, queue <- RQueue, taken <- RTaken, peer <- RPeer

\* accept, connect with its timeout, and the teardown of a listener keep the promises of
\* Rendezvous, though the list, the flags and the two weak pointers are under different locks
\* (lines 503-531, 762-820, 313-340): first come, first served, and one answer for each.
ImplementsRendezvous == R!Spec

-----------------------------------------------------------------------------
(* What the comments of the file say and the code does not do.  The README names the *)
(* constants that show each of them violated.                                          *)

\* "The listener is gone, so tell a blocking connect() so it stops waiting for an accept
\* that will never come" (lines 331-332).
ConnectStopsWaiting ==
    \A p \in Threads :
        (At(p, "connectSleep") /\ th[p].r \notin open) ~> ~At(p, "connectSleep")

\* "Caller may block indefinitely if remote gets closed" (line 704), says the FIXME; while the
\* listener is open, then, a connect that sleeps has its accept to come.
SleepingConnectIsWaiting ==
    \A p \in Threads :
        th[p].pc \in {"connectSleep", "lateSleep"} /\ th[p].r \in open =>
            \/ th[p].s \in RTaken
            \/ \E i \in DOMAIN RQueue[th[p].r] : RQueue[th[p].r][i] = th[p].s

\* The tree's reference is "for the socket's presence in the tree" (lines 226-227), and a file
\* finds its socket there: an open file has the socket it was opened for.
FilesKeepTheirSocket == \A f \in open : sock[f].mem = "live"

\* "peer closed: report POLLHUP always" (line 1377): a socket whose peer has closed says so
\* until it is gone.
PeerClosedStays ==
    [][\A s \in Live \cap Live' :
         "PEER_CLOSED" \in sock[s].state /\ sock'[s].remote = NULL
            => "PEER_CLOSED" \in sock'[s].state]_vars

\* "non-blocking connect() in progress, not connected yet" (line 885): a socket for which
\* SO_ERROR says EINPROGRESS is on a list, about to be, or being accepted.
InProgress(s) == sock[s].remote = NULL /\ sock[s].nonblock /\ "CONNECTING" \in sock[s].state

InProgressMeansQueued ==
    \A s \in Live : InProgress(s) =>
        \/ \E r \in Socks : \E i \in DOMAIN sock[r].connecting : sock[r].connecting[i] = s
        \/ \E p \in Threads : th[p].r = s \/ th[p].s = s \/ \E i \in DOMAIN th[p].todo :
             th[p].todo[i] = Task("detach", s)
=============================================================================
