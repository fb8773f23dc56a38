-------------------------- MODULE UnixStreamProofs --------------------------
(* send, recv and poll on an AF_UNIX connection: proofs for any number of threads, any    *)
(* lengths, any sizes of the buffer and both types of socket.                             *)
EXTENDS UnixStream, SequenceTheorems, TLAPS

-----------------------------------------------------------------------------
(* The buffer *)

LEMMA PacketIsData ==
    ASSUME NEW n \in Nat, NEW len \in Lengths
    PROVE  /\ Data(n) \in Seq(Lengths \cup {0}) /\ Len(Data(n)) = n
           /\ Packet(len) \in Seq(Lengths \cup {0}) /\ Len(Packet(len)) = Header + len
           /\ Header + len \in Nat /\ Header + len > 0
<1>1. Header + len \in Nat /\ Header + len > 0
    BY LengthsAssumption, HeaderAssumption
<1>2. Data(n) \in Seq(Lengths \cup {0}) /\ Len(Data(n)) = n
    <2>1. \A i \in 1..n : 0 \in Lengths \cup {0}
        OBVIOUS
    <2> QED BY <2>1 DEF Data
<1>3. Packet(len) \in Seq(Lengths \cup {0}) /\ Len(Packet(len)) = Header + len
    <2> DEFINE m == Header + len
    <2>1. m \in Nat
        BY <1>1
    <2>2. Packet(len) = [i \in 1..m |-> IF i = 1 THEN len ELSE 0]
        BY DEF Packet
    <2> HIDE DEF m
    <2>3. Packet(len) \in [1..m -> Lengths \cup {0}]
        BY <2>2
    <2>4. Packet(len) \in Seq(Lengths \cup {0}) /\ Len(Packet(len)) = m
        BY <2>1, <2>3
    <2> QED BY <2>4 DEF m
<1> QED BY <1>1, <1>2, <1>3

\* What a write adds fits into the room there is, and a write of a message that is not too
\* long adds something to an empty buffer.
LEMMA WrittenFits ==
    ASSUME TypeOK, NEW len \in Lengths
    PROVE  /\ Written(len) \in Seq(Lengths \cup {0})
           /\ Len(Written(len)) <= Room
           /\ Room \in Nat
           /\ buf = <<>> /\ Written(len) = <<>> => MessageTooLong(len)
<1>1. Len(buf) \in Nat /\ buffsz \in Nat /\ buffsz > 0 /\ Len(buf) <= buffsz /\ len \in Nat /\ len > 0
    BY SizesAssumption, LengthsAssumption DEF TypeOK, Avail
<1>2. Room \in Nat /\ Room = buffsz - Len(buf)
    BY <1>1 DEF Room, Avail
<1> DEFINE m == IF len < Room THEN len ELSE Room
<1>3. m \in Nat /\ m <= Room /\ (Room > 0 => m > 0)
    BY <1>1, <1>2
<1>4. (Room = buffsz /\ Room > 0) \/ buf # <<>>
    BY <1>1, <1>2
<1> HIDE DEF m
<1>5. Data(m) \in Seq(Lengths \cup {0}) /\ Len(Data(m)) = m
    BY <1>3, PacketIsData
<1>6. Packet(len) \in Seq(Lengths \cup {0}) /\ Len(Packet(len)) = Header + len
      /\ Header + len \in Nat /\ Header + len > 0
    BY <1>3, PacketIsData
<1>7. CASE type = "stream"
    <2>1. Written(len) = Data(m)
        BY <1>7 DEF Written, m
    <2>2. buf = <<>> => Written(len) # <<>>
        BY <2>1, <1>3, <1>4, <1>5
    <2> QED BY <2>1, <2>2, <1>2, <1>3, <1>5
<1>8. CASE type # "stream"
    <2>1. Written(len) = IF Room >= len + Header THEN Packet(len) ELSE <<>>
        BY <1>8 DEF Written
    <2>2. Header \in Nat
        BY HeaderAssumption
    <2>3. type = "seqpacket"
        BY <1>8, TypesAssumption DEF TypeOK
    <2>4. CASE Room >= len + Header
        <3>1. Written(len) = Packet(len)
            BY <2>1, <2>4
        <3>2. Header + len <= Room
            BY <2>2, <2>4, <1>1, <1>2
        <3>3. Packet(len) # <<>>
            BY <1>6
        <3> QED BY <3>1, <3>2, <3>3, <1>2, <1>6
    <2>5. CASE ~(Room >= len + Header)
        <3>1. Written(len) = <<>>
            BY <2>1, <2>5
        <3>2. buf = <<>> => MessageTooLong(len)
            BY <2>2, <2>3, <2>5, <1>1, <1>2, <1>4 DEF MessageTooLong
        <3> QED BY <3>1, <3>2, <1>2
    <2> QED BY <2>4, <2>5
<1> QED BY <1>7, <1>8

-----------------------------------------------------------------------------
(* The wait queues *)

\* What a wakeup by p and the broadcast after it do, thread by thread: one sleeper of q is
\* woken, or the sentinel is left; and so is every poller.
WakesOnly(p, q, l) ==
    /\ pc' \in [Threads -> SenderAt \cup ReceiverAt \cup PollerAt]
    /\ pending' \in [Queues -> BOOLEAN]
    /\ pc'[p] = "user"
    /\ \A t \in Threads \ {p} :
        /\ pc[t] \notin {l, "pollSleep"} => pc'[t] = pc[t]
        /\ pc[t] = l => pc'[t] = l \/ pc'[t] = Awake(l)
        /\ pc[t] = "pollSleep" => pc'[t] = "poll"
    /\ \/ pending'[q] /\ \A t \in Threads : pc[t] # l
       \/ \E t \in Threads : pc[t] = l /\ pc'[t] = Awake(l)
    /\ pending'["pollQueue"] \/ \E t \in Threads : pc[t] = "pollSleep"
    /\ \A r \in Queues : pending[r] => pending'[r]

\* proc_threadWakeup of a queue and the broadcast to the pollers after it wake one sleeper
\* of the queue and every poller, and leave the sentinel where nobody sleeps.
LEMMA WakeupWakes ==
    ASSUME TypeOK, NEW p \in Threads, NEW q \in {"queue", "writeq"},
           NEW l \in {"recvSleep", "sendSleep"}, pc[p] \in {"sendWake", "recvWake"},
           WakeupAndBroadcast(p, q, l)
    PROVE  WakesOnly(p, q, l)
<1> DEFINE at == [pc EXCEPT ![p] = "user"]
           sleepers == SleepersOn(l)
           pollers == SleepersOn("pollSleep")
<1>1. PICK woken \in {{t} : t \in sleepers} \cup (IF sleepers = {} THEN {{}} ELSE {}) :
        /\ pc' = Wake(at, woken \cup pollers)
        /\ pending' = [pending EXCEPT ![q] = @ \/ woken = {}, !["pollQueue"] = @ \/ pollers = {}]
    BY DEF WakeupAndBroadcast
<1>2. pc \in [Threads -> SenderAt \cup ReceiverAt \cup PollerAt] /\ pending \in [Queues -> BOOLEAN]
    BY DEF TypeOK
<1>3. /\ \A t \in sleepers : t \in Threads /\ pc[t] = l
      /\ \A t \in pollers : t \in Threads /\ pc[t] = "pollSleep"
      /\ \A t \in Threads : pc[t] = "pollSleep" => t \in pollers
    BY DEF SleepersOn
<1>4. woken \subseteq sleepers /\ (sleepers # {} => \E t \in sleepers : woken = {t})
      /\ (sleepers = {} => woken = {})
    BY <1>1
<1>5. Awake(l) \in {"recvRead", "sendWrite"} /\ Awake("pollSleep") = "poll"
    BY DEF Awake
<1>6. at \in [Threads -> SenderAt \cup ReceiverAt \cup PollerAt] /\ at[p] = "user"
      /\ \A t \in Threads \ {p} : at[t] = pc[t]
    BY <1>2 DEF SenderAt
<1>7. p \notin sleepers /\ p \notin pollers
    BY <1>3
<1>8. pending' \in [Queues -> BOOLEAN] /\ (\A r \in Queues : pending[r] => pending'[r])
      /\ pending'[q] = (pending[q] \/ woken = {})
      /\ pending'["pollQueue"] = (pending["pollQueue"] \/ pollers = {})
    BY <1>1, <1>2 DEF Queues
<1> HIDE DEF at, sleepers, pollers
<1>9. \A t \in Threads : pc'[t] = IF t \in woken \cup pollers THEN Awake(at[t]) ELSE at[t]
    BY <1>1 DEF Wake
<1>10. pc'[p] = "user"
    BY <1>4, <1>6, <1>7, <1>9
<1>11. ASSUME NEW t \in Threads \ {p}
       PROVE  /\ pc[t] \notin {l, "pollSleep"} => pc'[t] = pc[t]
              /\ pc[t] = l => pc'[t] = l \/ pc'[t] = Awake(l)
              /\ pc[t] = "pollSleep" => pc'[t] = "poll"
    <2>1. at[t] = pc[t]
        BY <1>6
    <2>2. t \in woken \cup pollers => pc[t] \in {l, "pollSleep"}
        BY <1>3, <1>4
    <2> QED BY <2>1, <2>2, <1>3, <1>5, <1>9
<1>12. \A t \in Threads : pc'[t] \in SenderAt \cup ReceiverAt \cup PollerAt
    <2>1. ASSUME NEW t \in Threads PROVE pc'[t] \in SenderAt \cup ReceiverAt \cup PollerAt
        <3>1. CASE t = p
            BY <3>1, <1>10 DEF SenderAt
        <3>2. CASE t # p
            <4>1. pc[t] \in SenderAt \cup ReceiverAt \cup PollerAt
                BY <1>2
            <4>2. {"recvRead", "sendWrite", "poll"} \subseteq SenderAt \cup ReceiverAt \cup PollerAt
                BY DEF SenderAt, ReceiverAt, PollerAt
            <4> QED BY <3>2, <4>1, <4>2, <1>5, <1>11
        <3> QED BY <3>1, <3>2
    <2> QED BY <2>1
<1>13. pc' \in [Threads -> SenderAt \cup ReceiverAt \cup PollerAt]
    <2>1. pc' = [t \in Threads |-> IF t \in woken \cup pollers THEN Awake(at[t]) ELSE at[t]]
        BY <1>1 DEF Wake
    <2> HIDE DEF Awake
    <2>2. pc' = [t \in Threads |-> pc'[t]]
        BY <2>1
    <2> QED BY <2>2, <1>12
<1>14. \/ pending'[q] /\ \A t \in Threads : pc[t] # l
       \/ \E t \in Threads : pc[t] = l /\ pc'[t] = Awake(l)
    <2>1. CASE sleepers = {}
        BY <2>1, <1>4, <1>8 DEF sleepers, SleepersOn
    <2>2. CASE sleepers # {}
        <3>1. PICK t \in sleepers : woken = {t}
            BY <2>2, <1>4
        <3>2. t \in Threads /\ pc[t] = l /\ t # p
            BY <1>3, <1>7
        <3>3. pc'[t] = Awake(l)
            BY <3>1, <3>2, <1>6, <1>9
        <3> QED BY <3>2, <3>3
    <2> QED BY <2>1, <2>2
<1>15. pending'["pollQueue"] \/ \E t \in Threads : pc[t] = "pollSleep"
    BY <1>3, <1>8
<1> QED BY <1>8, <1>10, <1>11, <1>13, <1>14, <1>15 DEF WakesOnly

-----------------------------------------------------------------------------
(* Type correctness *)

At == SenderAt \cup ReceiverAt \cup PollerAt

\* Every thread is at one of its own places.
OwnPlaces(at) ==
    /\ \A p \in Senders : at[p] \in SenderAt
    /\ \A p \in Receivers : at[p] \in ReceiverAt
    /\ \A p \in Pollers : at[p] \in PollerAt

\* A step of p to a place of its own call moves no other thread.
LEMMA GotoType ==
    ASSUME TypeOK, NEW p \in Threads, NEW l, Goto(p, l),
           p \in Senders => l \in SenderAt,
           p \in Receivers => l \in ReceiverAt,
           p \in Pollers => l \in PollerAt
    PROVE  /\ pc' \in [Threads -> At] /\ OwnPlaces(pc')
           /\ pc'[p] = l /\ \A t \in Threads \ {p} : pc'[t] = pc[t]
<1>1. pc \in [Threads -> At] /\ OwnPlaces(pc)
    BY DEF TypeOK, At, OwnPlaces
<1>2. l \in At
    BY DEF Threads, At
<1>3. pc' = [pc EXCEPT ![p] = l]
    BY DEF Goto
<1>4. pc' \in [Threads -> At] /\ pc'[p] = l /\ \A t \in Threads \ {p} : pc'[t] = pc[t]
    BY <1>1, <1>2, <1>3
<1>5. OwnPlaces(pc')
    BY <1>1, <1>4 DEF OwnPlaces, Threads
<1> QED BY <1>4, <1>5

\* When a descriptor or a reference goes, an end can only go down and a hangup can only be
\* raised (PEER_CLOSED is never cleared).
LEMMA SettleType ==
    ASSUME TypeOK, Settle
    PROVE  up' \in [Ends -> BOOLEAN] /\ hup' \in [Ends -> BOOLEAN]
           /\ \A e \in Ends : (up'[e] => up[e]) /\ (hup[e] => hup'[e])
<1>1. up \in [Ends -> BOOLEAN] /\ hup \in [Ends -> BOOLEAN]
    BY DEF TypeOK
<1>2. up' = [e \in Ends |-> up[e] /\ (file'[e] \/ Holds(e, pc'))]
    BY DEF Settle
<1>3. hup' = [e \in Ends |-> hup[e] \/ (up[Peer(e)] /\ ~up'[Peer(e)])]
    BY DEF Settle
<1>4. \A e \in Ends : up'[e] = (up[e] /\ (file'[e] \/ Holds(e, pc')))
    BY <1>2
<1>5. \A e \in Ends : hup'[e] = (hup[e] \/ (up[Peer(e)] /\ ~up'[Peer(e)]))
    BY <1>3
<1>6. up' \in [Ends -> BOOLEAN]
    <2> DEFINE f(e) == up[e] /\ (file'[e] \/ Holds(e, pc'))
    <2>1. \A e \in Ends : f(e) \in BOOLEAN
        OBVIOUS
    <2>2. up' = [e \in Ends |-> f(e)]
        BY <1>2
    <2> HIDE DEF f
    <2> QED BY <2>1, <2>2
<1>7. hup' \in [Ends -> BOOLEAN]
    <2> DEFINE f(e) == hup[e] \/ (up[Peer(e)] /\ ~up'[Peer(e)])
    <2>1. \A e \in Ends : f(e) \in BOOLEAN
        OBVIOUS
    <2>2. hup' = [e \in Ends |-> f(e)]
        BY <1>3
    <2> HIDE DEF f
    <2> QED BY <2>1, <2>2
<1>8. \A e \in Ends : (up'[e] => up[e]) /\ (hup[e] => hup'[e])
    BY <1>4, <1>5
<1> QED BY <1>6, <1>7, <1>8

\* proc_threadWait consumes the sentinel of its queue or sleeps, and touches no other
\* queue.
LEMMA WaitType ==
    ASSUME TypeOK, NEW p \in Threads, NEW q \in Queues, NEW l, NEW m, proc_threadWait(p, q, l, m)
    PROVE  /\ (Goto(p, l) /\ pending[q]) \/ (Goto(p, m) /\ ~pending[q])
           /\ pending' \in [Queues -> BOOLEAN]
           /\ \A r \in Queues \ {q} : pending'[r] = pending[r]
<1>1. pending \in [Queues -> BOOLEAN]
    BY DEF TypeOK
<1>2. Goto(p, IF pending[q] THEN l ELSE m) /\ pending' = [pending EXCEPT ![q] = FALSE]
    BY DEF proc_threadWait
<1>3. pending[q] \in BOOLEAN
    BY <1>1
<1>4. (Goto(p, l) /\ pending[q]) \/ (Goto(p, m) /\ ~pending[q])
    <2>1. CASE pending[q]
        <3>1. (IF pending[q] THEN l ELSE m) = l
            BY <2>1
        <3> QED BY <3>1, <2>1, <1>2
    <2>2. CASE ~pending[q]
        <3>1. (IF pending[q] THEN l ELSE m) = m
            BY <2>2
        <3> QED BY <3>1, <2>2, <1>2
    <2> QED BY <2>1, <2>2
<1>5. pending' \in [Queues -> BOOLEAN] /\ \A r \in Queues \ {q} : pending'[r] = pending[r]
    BY <1>1, <1>2
<1> QED BY <1>4, <1>5

\* What woken sleepers go on with is a place of their own.
LEMMA WakeType ==
    ASSUME TypeOK, NEW p \in Threads, pc[p] \in {"sendWake", "recvWake"},
           NEW q, NEW l \in {"recvSleep", "sendSleep"}, WakesOnly(p, q, l)
    PROVE  OwnPlaces(pc')
<1>1. OwnPlaces(pc)
    BY DEF TypeOK, OwnPlaces
<1>2. /\ pc'[p] = "user"
      /\ \A t \in Threads \ {p} :
           /\ pc[t] \notin {l, "pollSleep"} => pc'[t] = pc[t]
           /\ pc[t] = l => pc'[t] = l \/ pc'[t] = Awake(l)
           /\ pc[t] = "pollSleep" => pc'[t] = "poll"
    BY DEF WakesOnly
<1>3. (l = "recvSleep" /\ Awake(l) = "recvRead") \/ (l = "sendSleep" /\ Awake(l) = "sendWrite")
    <2>1. Awake("recvSleep") = "recvRead" /\ Awake("sendSleep") = "sendWrite"
        BY DEF Awake
    <2>2. CASE l = "recvSleep"
        BY <2>1, <2>2
    <2>3. CASE l = "sendSleep"
        BY <2>1, <2>3
    <2> QED BY <2>2, <2>3
<1>4. ASSUME NEW t \in Senders PROVE pc'[t] \in SenderAt
    BY <1>1, <1>2, <1>3, <1>4 DEF OwnPlaces, SenderAt, Threads
<1>5. ASSUME NEW t \in Receivers PROVE pc'[t] \in ReceiverAt
    BY <1>1, <1>2, <1>3, <1>5 DEF OwnPlaces, ReceiverAt, Threads
<1>6. ASSUME NEW t \in Pollers PROVE pc'[t] \in PollerAt
    BY <1>1, <1>2, <1>3, <1>6 DEF OwnPlaces, PollerAt, Threads
<1> QED BY <1>4, <1>5, <1>6 DEF OwnPlaces

\* The parts of TypeOK that a step of a thread may change.
LEMMA TypeParts ==
    ASSUME TypeOK, type' = type, buffsz' = buffsz, resized' = resized, file' = file,
           buf' \in Seq(Lengths \cup {0}) /\ Len(buf') <= buffsz,
           up' \in [Ends -> BOOLEAN], hup' \in [Ends -> BOOLEAN], pending' \in [Queues -> BOOLEAN],
           pc' \in [Threads -> At], OwnPlaces(pc'), arg' \in [Threads -> Calls]
    PROVE  TypeOK'
BY DEF TypeOK, Avail, At, OwnPlaces

\* The parts of TypeOK, one by one, as the proofs below use them.
LEMMA Unchanged ==
    ASSUME TypeOK
    PROVE  /\ buf \in Seq(Lengths \cup {0}) /\ Len(buf) <= buffsz /\ Len(buf) \in Nat
           /\ buffsz \in Nat
           /\ up \in [Ends -> BOOLEAN] /\ hup \in [Ends -> BOOLEAN]
           /\ pending \in [Queues -> BOOLEAN] /\ arg \in [Threads -> Calls]
           /\ pc \in [Threads -> At] /\ OwnPlaces(pc)
BY SizesAssumption DEF TypeOK, Avail, At, OwnPlaces

\* A thread has one kind.
LEMMA OneKind ==
    /\ \A p \in Senders : p \in Threads /\ p \notin Receivers /\ p \notin Pollers
    /\ \A p \in Receivers : p \in Threads /\ p \notin Senders /\ p \notin Pollers
    /\ \A p \in Pollers : p \in Threads /\ p \notin Senders /\ p \notin Receivers
BY ThreadsAssumption DEF Threads

\* recv takes cells from the front of the buffer, and at least one.
LEMMA ReadTakes ==
    ASSUME TypeOK, NEW p \in Receivers, RecvRead(p)
    PROVE  \/ Goto(p, "recvEmpty") /\ buf = <<>> /\ buf' = buf
           \/ Goto(p, "recvWake") /\ buf' \in Seq(Lengths \cup {0}) /\ Len(buf') <= buffsz
<1>1. CASE buf = <<>>
    BY <1>1 DEF RecvRead
<1>2. CASE buf # <<>>
    <2> DEFINE wanted == IF type = "stream" THEN arg[p].len ELSE Header + Head(buf)
               taken == IF wanted < Avail THEN wanted ELSE Avail
    <2>1. Goto(p, "recvWake") /\ buf' = SubSeq(buf, taken + 1, Avail)
        BY <1>2 DEF RecvRead
    <2>2. /\ buf \in Seq(Lengths \cup {0}) /\ Len(buf) <= buffsz /\ Len(buf) \in Nat
          /\ buffsz \in Nat /\ arg \in [Threads -> Calls] /\ p \in Threads
        BY Unchanged, OneKind
    <2>3. arg[p].len \in Nat
        BY <2>2, LengthsAssumption DEF Calls
    <2>4. Head(buf) \in Nat
        <3>1. Head(buf) \in Lengths \cup {0}
            BY <1>2, <2>2
        <3> DEFINE h == Head(buf)
        <3>2. h \in Lengths \cup {0}
            BY <3>1
        <3> HIDE DEF h
        <3>3. h \in Nat
            BY <3>2, LengthsAssumption
        <3> QED BY <3>3 DEF h
    <2>5. wanted \in Nat
        BY <2>3, <2>4, HeaderAssumption
    <2> HIDE DEF wanted
    <2>6. taken \in Nat /\ taken <= Len(buf)
        BY <2>2, <2>5 DEF Avail
    <2> HIDE DEF taken
    <2>7. /\ taken + 1 \in 1..(Len(buf) + 1) /\ Len(buf) \in (taken + 1 - 1)..Len(buf)
          /\ Len(buf) - (taken + 1) + 1 <= buffsz
        BY <2>2, <2>6
    <2>8. buf' \in Seq(Lengths \cup {0}) /\ Len(buf') = Len(buf) - (taken + 1) + 1
        BY <2>1, <2>2, <2>7, SubSeqProperties DEF Avail
    <2> QED BY <2>1, <2>7, <2>8
<1> QED BY <1>1, <1>2

\* send adds what there is room for.
LEMMA WriteAdds ==
    ASSUME TypeOK, NEW p \in Senders, SendWrite(p)
    PROVE  /\ buf' \in Seq(Lengths \cup {0}) /\ Len(buf') <= buffsz
           /\ \/ Goto(p, "sendWake")
              \/ Goto(p, "user") /\ buf' = buf
              \/ Goto(p, "sendWait") /\ buf' = buf /\ buf # <<>> /\ Written(arg[p].len) = <<>>
<1> DEFINE len == arg[p].len
<1>1. /\ buf \in Seq(Lengths \cup {0}) /\ Len(buf) <= buffsz /\ Len(buf) \in Nat
      /\ buffsz \in Nat /\ arg \in [Threads -> Calls] /\ p \in Threads
    BY Unchanged, OneKind
<1>2. len \in Lengths
    BY <1>1 DEF Calls
<1>3. /\ buf' = buf \o Written(len)
      /\ Goto(p, IF Written(len) # <<>> THEN "sendWake"
                 ELSE IF MessageTooLong(len) \/ arg[p].dontwait THEN "user" ELSE "sendWait")
    BY DEF SendWrite
<1> HIDE DEF len
<1>4. Written(len) \in Seq(Lengths \cup {0}) /\ Len(Written(len)) <= Room
      /\ (buf = <<>> /\ Written(len) = <<>> => MessageTooLong(len))
    BY <1>2, WrittenFits
<1>5. Room = buffsz - Len(buf)
    BY DEF Room, Avail
<1>6. buf' \in Seq(Lengths \cup {0}) /\ Len(buf') = Len(buf) + Len(Written(len))
    BY <1>1, <1>3, <1>4, ConcatProperties
<1>7. Len(buf') <= buffsz
    <2>1. Len(Written(len)) \in Nat
        BY <1>4
    <2> QED BY <2>1, <1>1, <1>4, <1>5, <1>6
<1>8. CASE Written(len) # <<>>
    BY <1>3, <1>6, <1>7, <1>8
<1>9. CASE Written(len) = <<>>
    <2>1. buf' = buf
        BY <1>1, <1>3, <1>9, ConcatEmptySeq
    <2>2. CASE MessageTooLong(len) \/ arg[p].dontwait
        BY <2>1, <2>2, <1>3, <1>6, <1>7, <1>9
    <2>3. CASE ~(MessageTooLong(len) \/ arg[p].dontwait)
        BY <2>1, <2>3, <1>3, <1>4, <1>6, <1>7, <1>9 DEF len
    <2> QED BY <2>2, <2>3
<1> QED BY <1>8, <1>9

\* Which of the variables a step that only moves p leaves alone.
Moves(p, l) == Goto(p, l) /\ UNCHANGED <<conn, buf, arg>>

\* send() leaves the state typed: it writes only what the buffer has room for.
LEMMA SendType ==
    ASSUME TypeOK, NEW p \in Senders, SendCall(p) \/ Send(p)
    PROVE  TypeOK'
<1>1. /\ buf \in Seq(Lengths \cup {0}) /\ Len(buf) <= buffsz
      /\ up \in [Ends -> BOOLEAN] /\ hup \in [Ends -> BOOLEAN]
      /\ pending \in [Queues -> BOOLEAN] /\ arg \in [Threads -> Calls]
    BY Unchanged
<1>2. p \in Threads /\ p \notin Receivers /\ p \notin Pollers
    BY OneKind
<1>3. "queue" \in Queues /\ "writeq" \in Queues
    BY DEF Queues
<1>4. ASSUME NEW l \in SenderAt, Goto(p, l) PROVE pc' \in [Threads -> At] /\ OwnPlaces(pc')
    BY <1>2, <1>4, GotoType
<1>5. CASE SendCall(p)
    <2>1. /\ Goto(p, "send") /\ UNCHANGED <<conn, buf, up, hup, pending>>
          /\ \E c \in Calls : arg' = [arg EXCEPT ![p] = c]
        BY <1>5 DEF SendCall
    <2>2. arg' \in [Threads -> Calls]
        BY <2>1, <1>1
    <2>3. pc' \in [Threads -> At] /\ OwnPlaces(pc')
        BY <2>1, <1>4 DEF SenderAt
    <2> QED BY <2>1, <2>2, <2>3, <1>1, TypeParts DEF conn
<1>6. CASE SendCheck(p)
    <2>1. /\ Goto(p, "user") \/ Goto(p, "sendRemote")
          /\ Settle /\ UNCHANGED <<conn, buf, pending, arg>>
        BY <1>6 DEF SendCheck
    <2>2. pc' \in [Threads -> At] /\ OwnPlaces(pc')
        BY <2>1, <1>4 DEF SenderAt
    <2> QED BY <2>1, <2>2, <1>1, SettleType, TypeParts DEF conn
<1>7. CASE SendRemote(p)
    <2>1. /\ Goto(p, "user") \/ Goto(p, "sendWrite")
          /\ Settle /\ UNCHANGED <<conn, buf, pending, arg>>
        BY <1>7 DEF SendRemote
    <2>2. pc' \in [Threads -> At] /\ OwnPlaces(pc')
        BY <2>1, <1>4 DEF SenderAt
    <2> QED BY <2>1, <2>2, <1>1, SettleType, TypeParts DEF conn
<1>8. CASE SendWrite(p)
    <2>1. Settle /\ UNCHANGED <<conn, pending, arg>>
        BY <1>8 DEF SendWrite
    <2>2. /\ buf' \in Seq(Lengths \cup {0}) /\ Len(buf') <= buffsz
          /\ Goto(p, "sendWake") \/ Goto(p, "user") \/ Goto(p, "sendWait")
        BY <1>8, WriteAdds
    <2>3. pc' \in [Threads -> At] /\ OwnPlaces(pc')
        BY <2>2, <1>4 DEF SenderAt
    <2> QED BY <2>1, <2>2, <2>3, <1>1, SettleType, TypeParts DEF conn
<1>9. CASE SendWake(p)
    <2>1. /\ pc[p] = "sendWake" /\ WakeupAndBroadcast(p, "queue", "recvSleep")
          /\ Settle /\ UNCHANGED <<conn, buf, arg>>
        BY <1>9 DEF SendWake
    <2>2. WakesOnly(p, "queue", "recvSleep")
        BY <2>1, <1>2, WakeupWakes
    <2>3. pc' \in [Threads -> At] /\ pending' \in [Queues -> BOOLEAN] /\ OwnPlaces(pc')
        BY <2>1, <2>2, <1>2, WakeType DEF WakesOnly, At
    <2> QED BY <2>1, <2>3, <1>1, SettleType, TypeParts DEF conn
<1>10. CASE SendWait(p)
    <2>1. /\ proc_threadWait(p, "writeq", "sendWrite", "sendSleep")
          /\ UNCHANGED <<conn, buf, up, hup, arg>>
        BY <1>10 DEF SendWait
    <2>2. (Goto(p, "sendWrite") \/ Goto(p, "sendSleep")) /\ pending' \in [Queues -> BOOLEAN]
        BY <2>1, <1>2, <1>3, WaitType
    <2>3. pc' \in [Threads -> At] /\ OwnPlaces(pc')
        BY <2>2, <1>4 DEF SenderAt
    <2> QED BY <2>1, <2>2, <2>3, <1>1, TypeParts DEF conn
<1> QED BY <1>5, <1>6, <1>7, <1>8, <1>9, <1>10 DEF Send

\* recv() leaves the state typed: it takes from the buffer and puts nothing in.
LEMMA RecvType ==
    ASSUME TypeOK, NEW p \in Receivers, RecvCall(p) \/ Recv(p)
    PROVE  TypeOK'
<1>1. /\ buf \in Seq(Lengths \cup {0}) /\ Len(buf) <= buffsz
      /\ up \in [Ends -> BOOLEAN] /\ hup \in [Ends -> BOOLEAN]
      /\ pending \in [Queues -> BOOLEAN] /\ arg \in [Threads -> Calls]
    BY Unchanged
<1>2. p \in Threads /\ p \notin Senders /\ p \notin Pollers
    BY OneKind
<1>3. "queue" \in Queues /\ "writeq" \in Queues
    BY DEF Queues
<1>4. ASSUME NEW l \in ReceiverAt, Goto(p, l) PROVE pc' \in [Threads -> At] /\ OwnPlaces(pc')
    BY <1>2, <1>4, GotoType
<1>5. CASE RecvCall(p)
    <2>1. /\ Goto(p, "recv") /\ UNCHANGED <<conn, buf, up, hup, pending>>
          /\ \E c \in Calls : arg' = [arg EXCEPT ![p] = c]
        BY <1>5 DEF RecvCall
    <2>2. arg' \in [Threads -> Calls]
        BY <2>1, <1>1
    <2>3. pc' \in [Threads -> At] /\ OwnPlaces(pc')
        BY <2>1, <1>4 DEF ReceiverAt
    <2> QED BY <2>1, <2>2, <2>3, <1>1, TypeParts DEF conn
<1>6. CASE RecvCheck(p)
    <2>1. /\ Goto(p, "user") \/ Goto(p, "recvRead")
          /\ Settle /\ UNCHANGED <<conn, buf, pending, arg>>
        BY <1>6 DEF RecvCheck
    <2>2. pc' \in [Threads -> At] /\ OwnPlaces(pc')
        BY <2>1, <1>4 DEF ReceiverAt
    <2> QED BY <2>1, <2>2, <1>1, SettleType, TypeParts DEF conn
<1>7. CASE RecvRead(p)
    <2>1. UNCHANGED <<conn, up, hup, pending, arg>>
        BY <1>7 DEF RecvRead
    <2>2. /\ buf' \in Seq(Lengths \cup {0}) /\ Len(buf') <= buffsz
          /\ Goto(p, "recvEmpty") \/ Goto(p, "recvWake")
        BY <1>1, <1>7, ReadTakes
    <2>3. pc' \in [Threads -> At] /\ OwnPlaces(pc')
        BY <2>2, <1>4 DEF ReceiverAt
    <2> QED BY <2>1, <2>2, <2>3, <1>1, TypeParts DEF conn
<1>8. CASE RecvWake(p)
    <2>1. /\ pc[p] = "recvWake" /\ WakeupAndBroadcast(p, "writeq", "sendSleep")
          /\ Settle /\ UNCHANGED <<conn, buf, arg>>
        BY <1>8 DEF RecvWake
    <2>2. WakesOnly(p, "writeq", "sendSleep")
        BY <2>1, <1>2, WakeupWakes
    <2>3. pc' \in [Threads -> At] /\ pending' \in [Queues -> BOOLEAN] /\ OwnPlaces(pc')
        BY <2>1, <2>2, <1>2, WakeType DEF WakesOnly, At
    <2> QED BY <2>1, <2>3, <1>1, SettleType, TypeParts DEF conn
<1>9. CASE RecvEmpty(p)
    <2>1. /\ Goto(p, "user") \/ Goto(p, "recvWait")
          /\ Settle /\ UNCHANGED <<conn, buf, pending, arg>>
        BY <1>9 DEF RecvEmpty
    <2>2. pc' \in [Threads -> At] /\ OwnPlaces(pc')
        BY <2>1, <1>4 DEF ReceiverAt
    <2> QED BY <2>1, <2>2, <1>1, SettleType, TypeParts DEF conn
<1>10. CASE RecvWait(p)
    <2>1. /\ proc_threadWait(p, "queue", "recvRead", "recvSleep")
          /\ UNCHANGED <<conn, buf, up, hup, arg>>
        BY <1>10 DEF RecvWait
    <2>2. (Goto(p, "recvRead") \/ Goto(p, "recvSleep")) /\ pending' \in [Queues -> BOOLEAN]
        BY <2>1, <1>2, <1>3, WaitType
    <2>3. pc' \in [Threads -> At] /\ OwnPlaces(pc')
        BY <2>2, <1>4 DEF ReceiverAt
    <2> QED BY <2>1, <2>2, <2>3, <1>1, TypeParts DEF conn
<1> QED BY <1>5, <1>6, <1>7, <1>8, <1>9, <1>10 DEF Recv

\* poll() leaves the state typed.
LEMMA PollType ==
    ASSUME TypeOK, NEW p \in Pollers, PollCall(p) \/ Poll(p) \/ PollTimeout(p)
    PROVE  TypeOK'
<1>1. /\ buf \in Seq(Lengths \cup {0}) /\ Len(buf) <= buffsz
      /\ up \in [Ends -> BOOLEAN] /\ hup \in [Ends -> BOOLEAN]
      /\ pending \in [Queues -> BOOLEAN] /\ arg \in [Threads -> Calls]
    BY Unchanged
<1>2. p \in Threads /\ p \notin Senders /\ p \notin Receivers
    BY OneKind
<1>3. ASSUME NEW l \in PollerAt, Goto(p, l) PROVE pc' \in [Threads -> At] /\ OwnPlaces(pc')
    BY <1>2, <1>3, GotoType
<1>4. CASE PollCall(p)
    <2>1. /\ Goto(p, "poll") /\ UNCHANGED <<conn, buf, up, hup, pending>>
          /\ \E e \in Ends : arg' = [arg EXCEPT ![p].end = e]
        BY <1>4 DEF PollCall
    <2>2. PICK e \in Ends : arg' = [arg EXCEPT ![p].end = e]
        BY <2>1
    <2>3. arg[p] \in Calls
        BY <1>1, <1>2
    <2>4. [arg[p] EXCEPT !.end = e] \in Calls
        BY <2>3 DEF Calls
    <2>5. arg' = [arg EXCEPT ![p] = [arg[p] EXCEPT !.end = e]]
        BY <2>2, <1>1
    <2>6. arg' \in [Threads -> Calls]
        BY <2>4, <2>5, <1>1
    <2>7. pc' \in [Threads -> At] /\ OwnPlaces(pc')
        BY <2>1, <1>3 DEF PollerAt
    <2> QED BY <2>1, <2>6, <2>7, <1>1, TypeParts DEF conn
<1>5. CASE unix_poll(p)
    <2>1. (Goto(p, "user") \/ Goto(p, "pollWait")) /\ UNCHANGED <<conn, buf, up, hup, pending, arg>>
        BY <1>5 DEF unix_poll
    <2>2. pc' \in [Threads -> At] /\ OwnPlaces(pc')
        BY <2>1, <1>3 DEF PollerAt
    <2> QED BY <2>1, <2>2, <1>1, TypeParts DEF conn
<1>6. CASE unix_pollWait(p)
    <2>1. /\ proc_threadWait(p, "pollQueue", "poll", "pollSleep")
          /\ UNCHANGED <<conn, buf, up, hup, arg>>
        BY <1>6 DEF unix_pollWait
    <2>2. "pollQueue" \in Queues
        BY DEF Queues
    <2>3. (Goto(p, "poll") \/ Goto(p, "pollSleep")) /\ pending' \in [Queues -> BOOLEAN]
        BY <2>1, <2>2, <1>2, WaitType
    <2>4. pc' \in [Threads -> At] /\ OwnPlaces(pc')
        BY <2>3, <1>3 DEF PollerAt
    <2> QED BY <2>1, <2>3, <2>4, <1>1, TypeParts DEF conn
<1>7. CASE PollTimeout(p)
    <2>1. Goto(p, "poll") /\ UNCHANGED <<conn, buf, up, hup, pending, arg>>
        BY <1>7 DEF PollTimeout
    <2>2. pc' \in [Threads -> At] /\ OwnPlaces(pc')
        BY <2>1, <1>3 DEF PollerAt
    <2> QED BY <2>1, <2>2, <1>1, TypeParts DEF conn
<1> QED BY <1>4, <1>5, <1>6, <1>7 DEF Poll

\* close() and SO_RCVBUF leave the state typed: the new buffer is empty.
LEMMA FileType ==
    ASSUME TypeOK, (\E e \in Ends : unix_close(e)) \/ unix_bufferSetSize
    PROVE  TypeOK'
<1>1. CASE \E e \in Ends : unix_close(e)
    <2>1. PICK e \in Ends : unix_close(e)
        BY <1>1
    <2>2. /\ file' = [file EXCEPT ![e] = FALSE] /\ Settle
          /\ UNCHANGED <<type, buffsz, resized, buf, pending, pc, arg>>
        BY <2>1 DEF unix_close
    <2>3. up' \in [Ends -> BOOLEAN] /\ hup' \in [Ends -> BOOLEAN]
        BY <2>2, SettleType
    <2>4. file' \in [Ends -> BOOLEAN]
        BY <2>2 DEF TypeOK
    <2> QED BY <2>2, <2>3, <2>4 DEF TypeOK, Avail
<1>2. CASE unix_bufferSetSize
    <2>1. /\ buffsz' \in BufferSizes /\ buf' = <<>> /\ resized' = TRUE
          /\ UNCHANGED <<type, file, up, hup, pending, pc, arg>>
        BY <1>2 DEF unix_bufferSetSize
    <2>2. buf' \in Seq(Lengths \cup {0}) /\ Len(buf') <= buffsz'
        BY <2>1, SizesAssumption
    <2> QED BY <2>1, <2>2 DEF TypeOK, Avail
<1> QED BY <1>1, <1>2

\* The steps, by who makes them: senders, receivers, pollers, and the calls on the
\* descriptors.
LEMMA StepCases ==
    ASSUME Next
    PROVE  \/ \E p \in Senders : SendCall(p) \/ Send(p)
           \/ \E p \in Receivers : RecvCall(p) \/ Recv(p)
           \/ \E p \in Pollers : PollCall(p) \/ Poll(p) \/ PollTimeout(p)
           \/ (\E e \in Ends : unix_close(e)) \/ unix_bufferSetSize
BY DEF Next

\* A socket pair starts typed, with an empty buffer and no sentinel.
LEMMA InitType == Init => TypeOK
<1>1. SUFFICES ASSUME Init PROVE TypeOK
    OBVIOUS
<1>2. Calls # {}
    <2>1. PICK n \in Lengths : TRUE
        BY LengthsAssumption
    <2>2. [len |-> n, dontwait |-> TRUE, end |-> "a"] \in Calls
        BY DEF Calls, Ends
    <2> QED BY <2>2
<1>3. (CHOOSE c \in Calls : TRUE) \in Calls
    BY <1>2
<1>4. arg \in [Threads -> Calls]
    BY <1>1, <1>3 DEF Init
<1>5. buf \in Seq(Lengths \cup {0}) /\ Len(buf) <= buffsz
    BY <1>1, SizesAssumption DEF Init
<1>6. pc \in [Threads -> SenderAt \cup ReceiverAt \cup PollerAt] /\ OwnPlaces(pc)
    BY <1>1 DEF Init, OwnPlaces, SenderAt, ReceiverAt, PollerAt, Threads
<1> QED BY <1>1, <1>4, <1>5, <1>6 DEF Init, TypeOK, Avail, OwnPlaces

\* Every step leaves the state typed.
LEMMA StepType == TypeOK /\ [Next]_vars => TypeOK'
<1>1. SUFFICES ASSUME TypeOK, [Next]_vars PROVE TypeOK'
    OBVIOUS
<1>2. CASE Next
    BY <1>1, <1>2, StepCases, SendType, RecvType, PollType, FileType
<1>3. CASE UNCHANGED vars
    BY <1>1, <1>3 DEF vars, conn, TypeOK, Avail
<1> QED BY <1>1, <1>2, <1>3

\* In every execution the buffer of b holds no more than its size, whatever is written into
\* it (send, lines 1086-1103) and whenever SO_RCVBUF replaces it (lines 1238-1305), and each
\* thread is at a place of its own call.
THEOREM TypeCorrect == Spec => []TypeOK
<1> QED BY InitType, StepType, PTL DEF Spec

-----------------------------------------------------------------------------
(* What the steps do, as far as the wait queues are concerned *)

\* Only p moves.
Alone(p) == \A t \in Threads \ {p} : pc'[t] = pc[t] /\ arg'[t] = arg[t]
Rest(p) == UNCHANGED <<type, buffsz, resized, buf>> /\ Alone(p)

SendDoes(p) ==
    \/ /\ pc[p] # "sendWake" /\ pc'[p] \notin {"sendWait", "sendSleep", "sendWake"}
       /\ Rest(p) /\ pending' = pending
    \/ /\ pc[p] # "sendWake" /\ pc'[p] = "sendWake"
       /\ UNCHANGED <<type, buffsz, resized, pending, arg>> /\ Alone(p)
    \/ /\ pc[p] # "sendWake" /\ pc'[p] = "sendWait" /\ buf # <<>> /\ Written(arg[p].len) = <<>>
       /\ Rest(p) /\ UNCHANGED <<pending, arg>>
    \/ /\ pc[p] = "sendWake" /\ WakesOnly(p, "queue", "recvSleep")
       /\ UNCHANGED <<type, buffsz, resized, buf, arg>>
    \/ /\ pc[p] = "sendWait"
       /\ pc'[p] = "sendWrite" \/ (pc'[p] = "sendSleep" /\ ~pending["writeq"])
       /\ \A q \in Queues \ {"writeq"} : pending'[q] = pending[q]
       /\ Rest(p) /\ UNCHANGED arg

RecvDoes(p) ==
    \/ /\ pc[p] # "recvWake"
       /\ pc'[p] \notin {"recvEmpty", "recvWait", "recvSleep", "recvWake"}
       /\ Rest(p) /\ pending' = pending
    \/ /\ pc[p] # "recvWake" /\ pc'[p] = "recvEmpty" /\ buf = <<>>
       /\ Rest(p) /\ pending' = pending
    \/ /\ pc[p] # "recvWake" /\ pc'[p] = "recvWake"
       /\ UNCHANGED <<type, buffsz, resized, pending, arg>> /\ Alone(p)
    \/ /\ pc[p] = "recvEmpty" /\ pc'[p] = "recvWait"
       /\ Rest(p) /\ pending' = pending
    \/ /\ pc[p] = "recvWait"
       /\ pc'[p] = "recvRead" \/ (pc'[p] = "recvSleep" /\ ~pending["queue"])
       /\ \A q \in Queues \ {"queue"} : pending'[q] = pending[q]
       /\ Rest(p)
    \/ /\ pc[p] = "recvWake" /\ WakesOnly(p, "writeq", "sendSleep")
       /\ UNCHANGED <<type, buffsz, resized, buf, arg>>

PollDoes(p) ==
    /\ Rest(p) /\ UNCHANGED <<up, hup>>
    /\ \/ pc'[p] \notin {"pollWait", "pollSleep"} /\ pending' = pending
       \/ pc'[p] = "pollWait" /\ ~Ready(arg[p].end) /\ UNCHANGED <<pending, arg>>
       \/ /\ pc[p] = "pollWait" /\ UNCHANGED arg
          /\ pc'[p] = "poll" \/ (pc'[p] = "pollSleep" /\ ~pending["pollQueue"])
          /\ \A q \in Queues \ {"pollQueue"} : pending'[q] = pending[q]

\* An end that is gone stays gone, and a hangup stays seen.
Fades == \A e \in Ends : (up'[e] => up[e]) /\ (hup[e] => hup'[e])

\* A step that goes to a place and keeps every argument is a step of one thread.
LEMMA GotoAlone ==
    ASSUME TypeOK, NEW p \in Threads, NEW l, Goto(p, l), arg' = arg
    PROVE  pc'[p] = l /\ Alone(p)
BY DEF TypeOK, Goto, Alone

\* A call that enters with an argument is a step of one thread.
LEMMA CallAlone ==
    ASSUME TypeOK, NEW p \in Threads, NEW l, Goto(p, l), NEW c, arg' = [arg EXCEPT ![p] = c]
    PROVE  pc'[p] = l /\ Alone(p)
BY DEF TypeOK, Goto, Alone

\* What a step of send() does: it leaves the buffer and the queues alone, or writes and
\* goes on to wake the receiver, or wakes it, or waits for room with the buffer not empty.
LEMMA SendSteps ==
    ASSUME TypeOK, NEW p \in Senders, SendCall(p) \/ Send(p)
    PROVE  SendDoes(p) /\ Fades
<1>1. p \in Threads /\ "writeq" \in Queues
    BY OneKind DEF Queues
<1>2. CASE SendCall(p)
    <2>1. /\ pc[p] = "user" /\ Goto(p, "send") /\ UNCHANGED <<conn, buf, up, hup, pending>>
        BY <1>2 DEF SendCall
    <2>2. PICK c \in Calls : arg' = [arg EXCEPT ![p] = c]
        BY <1>2 DEF SendCall
    <2>3. pc'[p] = "send" /\ Alone(p)
        BY <1>1, <2>1, <2>2, CallAlone
    <2> QED BY <2>1, <2>3 DEF SendDoes, Rest, Fades, conn
<1>3. CASE SendCheck(p)
    <2>1. /\ pc[p] = "send" /\ Settle /\ UNCHANGED <<conn, buf, pending, arg>>
          /\ Goto(p, "user") \/ Goto(p, "sendRemote")
        BY <1>3 DEF SendCheck
    <2>2. pc'[p] \in {"user", "sendRemote"} /\ Alone(p)
        BY <1>1, <2>1, GotoAlone
    <2>3. Fades
        BY <2>1, SettleType DEF Fades
    <2> QED BY <2>1, <2>2, <2>3 DEF SendDoes, Rest, conn
<1>4. CASE SendRemote(p)
    <2>1. /\ pc[p] = "sendRemote" /\ Settle /\ UNCHANGED <<conn, buf, pending, arg>>
          /\ Goto(p, "user") \/ Goto(p, "sendWrite")
        BY <1>4 DEF SendRemote
    <2>2. pc'[p] \in {"user", "sendWrite"} /\ Alone(p)
        BY <1>1, <2>1, GotoAlone
    <2>3. Fades
        BY <2>1, SettleType DEF Fades
    <2> QED BY <2>1, <2>2, <2>3 DEF SendDoes, Rest, conn
<1>5. CASE SendWrite(p)
    <2>1. pc[p] = "sendWrite" /\ Settle /\ UNCHANGED <<conn, pending, arg>>
        BY <1>5 DEF SendWrite
    <2>2. Fades
        BY <2>1, SettleType DEF Fades
    <2>3. CASE Goto(p, "sendWake")
        <3>1. pc'[p] = "sendWake" /\ Alone(p)
            BY <1>1, <2>1, <2>3, GotoAlone
        <3> QED BY <2>1, <2>2, <3>1 DEF SendDoes, conn
    <2>4. CASE Goto(p, "user") /\ buf' = buf
        <3>1. pc'[p] = "user" /\ Alone(p)
            BY <1>1, <2>1, <2>4, GotoAlone
        <3> QED BY <2>1, <2>2, <2>4, <3>1 DEF SendDoes, Rest, conn
    <2>5. CASE Goto(p, "sendWait") /\ buf' = buf /\ buf # <<>> /\ Written(arg[p].len) = <<>>
        <3>1. pc'[p] = "sendWait" /\ Alone(p)
            BY <1>1, <2>1, <2>5, GotoAlone
        <3> QED BY <2>1, <2>2, <2>5, <3>1 DEF SendDoes, Rest, conn
    <2> QED BY <1>5, <2>3, <2>4, <2>5, WriteAdds
<1>6. CASE SendWake(p)
    <2>1. /\ pc[p] = "sendWake" /\ WakeupAndBroadcast(p, "queue", "recvSleep")
          /\ Settle /\ UNCHANGED <<conn, buf, arg>>
        BY <1>6 DEF SendWake
    <2>2. WakesOnly(p, "queue", "recvSleep")
        BY <2>1, <1>1, WakeupWakes
    <2>3. Fades
        BY <2>1, SettleType DEF Fades
    <2> QED BY <2>1, <2>2, <2>3 DEF SendDoes, conn
<1>7. CASE SendWait(p)
    <2>1. /\ pc[p] = "sendWait" /\ proc_threadWait(p, "writeq", "sendWrite", "sendSleep")
          /\ UNCHANGED <<conn, buf, up, hup, arg>>
        BY <1>7 DEF SendWait
    <2>2. /\ Goto(p, "sendWrite") \/ (Goto(p, "sendSleep") /\ ~pending["writeq"])
          /\ \A q \in Queues \ {"writeq"} : pending'[q] = pending[q]
        BY <2>1, <1>1, WaitType
    <2>3. /\ pc'[p] = "sendWrite" \/ (pc'[p] = "sendSleep" /\ ~pending["writeq"])
          /\ Alone(p)
        BY <1>1, <2>1, <2>2, GotoAlone
    <2> QED BY <2>1, <2>2, <2>3 DEF SendDoes, Rest, Fades, conn
<1> QED BY <1>2, <1>3, <1>4, <1>5, <1>6, <1>7 DEF Send

\* What a step of recv() does: it leaves the buffer and the queues alone, or finds it
\* empty and goes on to wait, or takes and goes on to wake the sender, or wakes it.
LEMMA RecvSteps ==
    ASSUME TypeOK, NEW p \in Receivers, RecvCall(p) \/ Recv(p)
    PROVE  RecvDoes(p) /\ Fades
<1>1. p \in Threads /\ "queue" \in Queues
    BY OneKind DEF Queues
<1>2. CASE RecvCall(p)
    <2>1. /\ pc[p] = "user" /\ Goto(p, "recv") /\ UNCHANGED <<conn, buf, up, hup, pending>>
        BY <1>2 DEF RecvCall
    <2>2. PICK c \in Calls : arg' = [arg EXCEPT ![p] = c]
        BY <1>2 DEF RecvCall
    <2>3. pc'[p] = "recv" /\ Alone(p)
        BY <1>1, <2>1, <2>2, CallAlone
    <2> QED BY <2>1, <2>3 DEF RecvDoes, Rest, Fades, conn
<1>3. CASE RecvCheck(p)
    <2>1. /\ pc[p] = "recv" /\ Settle /\ UNCHANGED <<conn, buf, pending, arg>>
          /\ Goto(p, "user") \/ Goto(p, "recvRead")
        BY <1>3 DEF RecvCheck
    <2>2. pc'[p] \in {"user", "recvRead"} /\ Alone(p)
        BY <1>1, <2>1, GotoAlone
    <2>3. Fades
        BY <2>1, SettleType DEF Fades
    <2> QED BY <2>1, <2>2, <2>3 DEF RecvDoes, Rest, conn
<1>4. CASE RecvRead(p)
    <2>1. pc[p] = "recvRead" /\ UNCHANGED <<conn, up, hup, pending, arg>>
        BY <1>4 DEF RecvRead
    <2>2. CASE Goto(p, "recvEmpty") /\ buf = <<>> /\ buf' = buf
        <3>1. pc'[p] = "recvEmpty" /\ Alone(p)
            BY <1>1, <2>1, <2>2, GotoAlone
        <3> QED BY <2>1, <2>2, <3>1 DEF RecvDoes, Rest, Fades, conn
    <2>3. CASE Goto(p, "recvWake")
        <3>1. pc'[p] = "recvWake" /\ Alone(p)
            BY <1>1, <2>1, <2>3, GotoAlone
        <3> QED BY <2>1, <3>1 DEF RecvDoes, Fades, conn
    <2> QED BY <1>4, <2>2, <2>3, ReadTakes
<1>5. CASE RecvWake(p)
    <2>1. /\ pc[p] = "recvWake" /\ WakeupAndBroadcast(p, "writeq", "sendSleep")
          /\ Settle /\ UNCHANGED <<conn, buf, arg>>
        BY <1>5 DEF RecvWake
    <2>2. WakesOnly(p, "writeq", "sendSleep")
        BY <2>1, <1>1, WakeupWakes
    <2>3. Fades
        BY <2>1, SettleType DEF Fades
    <2> QED BY <2>1, <2>2, <2>3 DEF RecvDoes, conn
<1>6. CASE RecvEmpty(p)
    <2>1. /\ pc[p] = "recvEmpty" /\ Settle /\ UNCHANGED <<conn, buf, pending, arg>>
          /\ Goto(p, "user") \/ Goto(p, "recvWait")
        BY <1>6 DEF RecvEmpty
    <2>2. pc'[p] \in {"user", "recvWait"} /\ Alone(p)
        BY <1>1, <2>1, GotoAlone
    <2>3. Fades
        BY <2>1, SettleType DEF Fades
    <2> QED BY <2>1, <2>2, <2>3 DEF RecvDoes, Rest, conn
<1>7. CASE RecvWait(p)
    <2>1. /\ pc[p] = "recvWait" /\ proc_threadWait(p, "queue", "recvRead", "recvSleep")
          /\ UNCHANGED <<conn, buf, up, hup, arg>>
        BY <1>7 DEF RecvWait
    <2>2. /\ Goto(p, "recvRead") \/ (Goto(p, "recvSleep") /\ ~pending["queue"])
          /\ \A q \in Queues \ {"queue"} : pending'[q] = pending[q]
        BY <2>1, <1>1, WaitType
    <2>3. /\ pc'[p] = "recvRead" \/ (pc'[p] = "recvSleep" /\ ~pending["queue"])
          /\ Alone(p)
        BY <1>1, <2>1, <2>2, GotoAlone
    <2> QED BY <2>1, <2>2, <2>3 DEF RecvDoes, Rest, Fades, conn
<1> QED BY <1>2, <1>3, <1>4, <1>5, <1>6, <1>7 DEF Recv

\* What a step of poll() does: it goes on to wait only with the end not ready.
LEMMA PollSteps ==
    ASSUME TypeOK, NEW p \in Pollers, PollCall(p) \/ Poll(p) \/ PollTimeout(p)
    PROVE  PollDoes(p)
<1>1. p \in Threads /\ "pollQueue" \in Queues
    BY OneKind DEF Queues
<1>2. CASE PollCall(p)
    <2>1. /\ Goto(p, "poll") /\ UNCHANGED <<conn, buf, up, hup, pending>>
        BY <1>2 DEF PollCall
    <2>2. PICK e \in Ends : arg' = [arg EXCEPT ![p].end = e]
        BY <1>2 DEF PollCall
    <2>3. pc'[p] = "poll" /\ Alone(p)
        BY <1>1, <2>1, <2>2 DEF TypeOK, Goto, Alone
    <2> QED BY <2>1, <2>3 DEF PollDoes, Rest, conn
<1>3. CASE unix_poll(p)
    <2>1. /\ UNCHANGED <<conn, buf, up, hup, pending, arg>>
          /\ Goto(p, "user") \/ (Goto(p, "pollWait") /\ ~Ready(arg[p].end))
        BY <1>3 DEF unix_poll
    <2>2. /\ pc'[p] = "user" \/ (pc'[p] = "pollWait" /\ ~Ready(arg[p].end))
          /\ Alone(p)
        BY <1>1, <2>1, GotoAlone
    <2> QED BY <2>1, <2>2 DEF PollDoes, Rest, conn
<1>4. CASE unix_pollWait(p)
    <2>1. /\ pc[p] = "pollWait" /\ proc_threadWait(p, "pollQueue", "poll", "pollSleep")
          /\ UNCHANGED <<conn, buf, up, hup, arg>>
        BY <1>4 DEF unix_pollWait
    <2>2. /\ Goto(p, "poll") \/ (Goto(p, "pollSleep") /\ ~pending["pollQueue"])
          /\ \A q \in Queues \ {"pollQueue"} : pending'[q] = pending[q]
        BY <2>1, <1>1, WaitType
    <2>3. /\ pc'[p] = "poll" \/ (pc'[p] = "pollSleep" /\ ~pending["pollQueue"])
          /\ Alone(p)
        BY <1>1, <2>1, <2>2, GotoAlone
    <2> QED BY <2>1, <2>2, <2>3 DEF PollDoes, Rest, conn
<1>5. CASE PollTimeout(p)
    <2>1. Goto(p, "poll") /\ UNCHANGED <<conn, buf, up, hup, pending, arg>>
        BY <1>5 DEF PollTimeout
    <2>2. pc'[p] = "poll" /\ Alone(p)
        BY <1>1, <2>1, GotoAlone
    <2> QED BY <2>1, <2>2 DEF PollDoes, Rest, conn
<1> QED BY <1>2, <1>3, <1>4, <1>5 DEF Poll

\* close() and SO_RCVBUF leave the threads and the queues where they are; the one wakes
\* nobody, the other empties the buffer and says so in resized.
LEMMA FileSteps ==
    ASSUME TypeOK, (\E e \in Ends : unix_close(e)) \/ unix_bufferSetSize
    PROVE  /\ UNCHANGED <<pc, pending, arg>>
           /\ \/ resized' /\ buf' = <<>>
              \/ UNCHANGED <<type, buffsz, resized, buf>> /\ Fades
<1>1. ASSUME NEW e \in Ends, unix_close(e)
      PROVE  UNCHANGED <<type, buffsz, resized, buf, pc, pending, arg>> /\ Fades
    <2>1. Settle /\ UNCHANGED <<type, buffsz, resized, buf, pending, pc, arg>>
        BY <1>1 DEF unix_close
    <2> QED BY <2>1, SettleType DEF Fades
<1>2. unix_bufferSetSize => resized' /\ buf' = <<>> /\ UNCHANGED <<pc, pending, arg>>
    BY DEF unix_bufferSetSize
<1> QED BY <1>1, <1>2

-----------------------------------------------------------------------------
(* Lost wakeups.  One wakeup wakes one thread, and a queue has one sentinel: with a second *)
(* thread waiting for the same thing each of the three invariants fails.                   *)

AtMostOne(S) == \A p, q \in S : p = q

SenderWakes == \E q \in Senders : pc[q] = "sendWake"
ReceiverWakes == \E q \in Receivers : pc[q] = "recvWake"

\* A receiver that has found the buffer empty goes on to the wait; with data in the buffer by
\* then, the sentinel is left for it, or a sender is about to leave it.
ReceiverInv ==
    \A p \in Receivers : buf # <<>> =>
        /\ pc[p] \in {"recvEmpty", "recvWait"} => pending["queue"] \/ SenderWakes
        /\ pc[p] = "recvSleep" => SenderWakes

\* No step leaves a receiver waiting over data without a wakeup: send() goes on to wake it
\* when it has written.
LEMMA ReceiverStep ==
    ASSUME TypeOK, ReceiverInv, AtMostOne(Receivers), Next
    PROVE  ReceiverInv'
<1> SUFFICES ASSUME NEW p \in Receivers, buf' # <<>>
             PROVE  /\ pc'[p] \in {"recvEmpty", "recvWait"} => pending'["queue"] \/ SenderWakes'
                    /\ pc'[p] = "recvSleep" => SenderWakes'
    BY DEF ReceiverInv
<1>1. p \in Threads /\ p \notin Senders /\ p \notin Pollers /\ "queue" \in Queues
      /\ \A q \in Receivers : q = p
    BY OneKind DEF AtMostOne, Queues
<1>2. buf # <<>> => /\ pc[p] \in {"recvEmpty", "recvWait"} => pending["queue"] \/ SenderWakes
                    /\ pc[p] = "recvSleep" => SenderWakes
    BY DEF ReceiverInv
<1>3. ASSUME NEW q \in Senders, SendDoes(q)
      PROVE  /\ pc'[p] \in {"recvEmpty", "recvWait"} => pending'["queue"] \/ SenderWakes'
             /\ pc'[p] = "recvSleep" => SenderWakes'
    <2>1. CASE /\ pc[q] # "sendWake" /\ Rest(q) /\ pending'["queue"] = pending["queue"]
        <3>1. pc'[p] = pc[p] /\ buf' = buf
            BY <1>1, <2>1 DEF Rest, Alone
        <3>2. SenderWakes => SenderWakes'
            BY <2>1, OneKind DEF Rest, Alone, SenderWakes
        <3> QED BY <2>1, <3>1, <3>2, <1>2
    <2>2. CASE pc'[q] = "sendWake"
        BY <2>2 DEF SenderWakes
    <2>3. CASE WakesOnly(q, "queue", "recvSleep") /\ buf' = buf
        <3>1. Awake("recvSleep") = "recvRead"
            BY DEF Awake
        <3>2. /\ pc[p] \notin {"recvSleep", "pollSleep"} => pc'[p] = pc[p]
              /\ pc[p] = "recvSleep" => pc'[p] = "recvSleep" \/ pc'[p] = "recvRead"
            BY <1>1, <2>3, <3>1 DEF WakesOnly
        <3>3. /\ pc[p] \in ReceiverAt
              /\ \A t \in Threads : pc[t] = "recvSleep" => t = p
            BY <1>1, Unchanged DEF OwnPlaces, Threads, SenderAt, PollerAt
        <3>4. \/ pending'["queue"] /\ pc[p] # "recvSleep"
              \/ pc[p] = "recvSleep" /\ pc'[p] = "recvRead"
            BY <1>1, <2>3, <3>1, <3>3 DEF WakesOnly
        <3> QED BY <3>2, <3>3, <3>4 DEF ReceiverAt
    <2>4. "queue" \in Queues \ {"writeq"}
        BY DEF Queues
    <2> QED BY <1>3, <2>1, <2>2, <2>3, <2>4 DEF SendDoes
<1>4. ASSUME RecvDoes(p)
      PROVE  /\ pc'[p] \in {"recvEmpty", "recvWait"} => pending'["queue"] \/ SenderWakes'
             /\ pc'[p] = "recvSleep" => SenderWakes'
    <2>1. Alone(p) => (SenderWakes => SenderWakes')
        BY <1>1, OneKind DEF Alone, SenderWakes
    <2>2. CASE pc'[p] \notin {"recvEmpty", "recvWait", "recvSleep"}
        BY <2>2
    <2>3. CASE buf = <<>> /\ Rest(p)
        BY <2>3 DEF Rest
    <2>4. CASE pc[p] = "recvEmpty" /\ pc'[p] = "recvWait" /\ Rest(p) /\ pending' = pending
        BY <2>1, <2>4, <1>2 DEF Rest
    <2>5. CASE pc[p] = "recvWait" /\ pc'[p] = "recvSleep" /\ ~pending["queue"] /\ Rest(p)
        BY <2>1, <2>5, <1>2 DEF Rest
    <2> QED BY <1>4, <2>2, <2>3, <2>4, <2>5 DEF RecvDoes, WakesOnly
<1>5. ASSUME NEW q \in Pollers, PollDoes(q)
      PROVE  /\ pc'[p] \in {"recvEmpty", "recvWait"} => pending'["queue"] \/ SenderWakes'
             /\ pc'[p] = "recvSleep" => SenderWakes'
    <2>1. pc'[p] = pc[p] /\ buf' = buf
        BY <1>1, <1>5 DEF PollDoes, Rest, Alone
    <2>2. SenderWakes => SenderWakes'
        BY <1>5, OneKind DEF PollDoes, Rest, Alone, SenderWakes
    <2>3. pending'["queue"] = pending["queue"]
        BY <1>1, <1>5 DEF PollDoes
    <2> QED BY <2>1, <2>2, <2>3, <1>2
<1>6. ASSUME (\E e \in Ends : unix_close(e)) \/ unix_bufferSetSize
      PROVE  /\ pc'[p] \in {"recvEmpty", "recvWait"} => pending'["queue"] \/ SenderWakes'
             /\ pc'[p] = "recvSleep" => SenderWakes'
    <2>1. buf' = buf /\ UNCHANGED <<pc, pending>>
        BY <1>6, FileSteps
    <2> QED BY <2>1, <1>2 DEF SenderWakes
<1>7. ASSUME NEW q \in Receivers, RecvCall(q) \/ Recv(q) PROVE RecvDoes(p)
    BY <1>1, <1>7, RecvSteps
<1> QED BY <1>3, <1>4, <1>5, <1>6, <1>7, StepCases, SendSteps, PollSteps

\* At start no receiver waits.
LEMMA ReceiverInit == Init => ReceiverInv
BY DEF Init, ReceiverInv

\* A stuttering step does not disturb the receivers.
LEMMA ReceiverSame == ReceiverInv /\ UNCHANGED vars => ReceiverInv'
BY DEF ReceiverInv, SenderWakes, vars, conn

\* A sender whose message did not fit goes on to the wait; with room for it by then, the
\* sentinel is left for it, or a receiver is about to leave it.  The buffer was not empty, or
\* the message would have been too long.
Fits(p) == Written(arg[p].len) # <<>> \/ buf = <<>>

SenderInv ==
    \A p \in Senders : ~resized /\ Fits(p) =>
        /\ pc[p] = "sendWait" => pending["writeq"] \/ ReceiverWakes
        /\ pc[p] = "sendSleep" => ReceiverWakes

\* Whether a message fits depends on the socket's type, the buffer and its size only.
LEMMA FitsSame ==
    ASSUME UNCHANGED <<type, buffsz, buf>>, NEW p \in Threads, arg'[p] = arg[p]
    PROVE  Fits(p)' = Fits(p)
BY DEF Fits, Written, Room, Avail, Data, Packet

\* No step leaves a sender waiting over room for its message without a wakeup: recv() goes
\* on to wake it when it has read.
LEMMA SenderStep ==
    ASSUME TypeOK, SenderInv, AtMostOne(Senders), Next
    PROVE  SenderInv'
<1> SUFFICES ASSUME NEW p \in Senders, ~resized', Fits(p)'
             PROVE  /\ pc'[p] = "sendWait" => pending'["writeq"] \/ ReceiverWakes'
                    /\ pc'[p] = "sendSleep" => ReceiverWakes'
    BY DEF SenderInv
<1>1. p \in Threads /\ p \notin Receivers /\ p \notin Pollers /\ "writeq" \in Queues
      /\ \A q \in Senders : q = p
    BY OneKind DEF AtMostOne, Queues
<1>2. ~resized /\ Fits(p) => /\ pc[p] = "sendWait" => pending["writeq"] \/ ReceiverWakes
                             /\ pc[p] = "sendSleep" => ReceiverWakes
    BY DEF SenderInv
<1>3. UNCHANGED <<type, buffsz, buf>> /\ arg'[p] = arg[p] => Fits(p)
    BY <1>1, FitsSame
<1>4. ASSUME NEW q \in Receivers, RecvDoes(q)
      PROVE  /\ pc'[p] = "sendWait" => pending'["writeq"] \/ ReceiverWakes'
             /\ pc'[p] = "sendSleep" => ReceiverWakes'
    <2>1. CASE pc[q] # "recvWake" /\ Rest(q) /\ pending'["writeq"] = pending["writeq"]
        <3>1. pc'[p] = pc[p] /\ resized' = resized /\ UNCHANGED <<type, buffsz, buf>> /\ arg'[p] = arg[p]
            BY <1>1, <2>1 DEF Rest, Alone
        <3>2. ReceiverWakes => ReceiverWakes'
            BY <2>1, OneKind DEF Rest, Alone, ReceiverWakes
        <3> QED BY <2>1, <3>1, <3>2, <1>2, <1>3
    <2>2. CASE pc'[q] = "recvWake"
        BY <2>2 DEF ReceiverWakes
    <2>3. CASE WakesOnly(q, "writeq", "sendSleep")
        <3>1. Awake("sendSleep") = "sendWrite"
            BY DEF Awake
        <3>2. /\ pc[p] \notin {"sendSleep", "pollSleep"} => pc'[p] = pc[p]
              /\ pc[p] = "sendSleep" => pc'[p] = "sendSleep" \/ pc'[p] = "sendWrite"
            BY <1>1, <2>3, <3>1 DEF WakesOnly
        <3>3. /\ pc[p] \in SenderAt
              /\ \A t \in Threads : pc[t] = "sendSleep" => t = p
            BY <1>1, Unchanged DEF OwnPlaces, Threads, ReceiverAt, PollerAt
        <3>4. \/ pending'["writeq"] /\ pc[p] # "sendSleep"
              \/ pc[p] = "sendSleep" /\ pc'[p] = "sendWrite"
            BY <1>1, <2>3, <3>1, <3>3 DEF WakesOnly
        <3> QED BY <3>2, <3>3, <3>4 DEF SenderAt
    <2>4. "writeq" \in Queues \ {"queue"}
        BY DEF Queues
    <2> QED BY <1>4, <2>1, <2>2, <2>3, <2>4 DEF RecvDoes
<1>5. ASSUME SendDoes(p)
      PROVE  /\ pc'[p] = "sendWait" => pending'["writeq"] \/ ReceiverWakes'
             /\ pc'[p] = "sendSleep" => ReceiverWakes'
    <2>1. Alone(p) => (ReceiverWakes => ReceiverWakes')
        BY <1>1, OneKind DEF Alone, ReceiverWakes
    <2>2. CASE pc'[p] \notin {"sendWait", "sendSleep"}
        BY <2>2
    <2>3. CASE /\ buf # <<>> /\ Written(arg[p].len) = <<>> /\ Rest(p) /\ arg' = arg
        BY <1>3, <2>3 DEF Rest, Fits
    <2>4. CASE /\ pc[p] = "sendWait" /\ pc'[p] = "sendSleep" /\ ~pending["writeq"]
               /\ Rest(p) /\ arg' = arg
        BY <2>1, <2>4, <1>2, <1>3 DEF Rest
    <2> QED BY <1>5, <2>2, <2>3, <2>4 DEF SendDoes, WakesOnly
<1>6. ASSUME NEW q \in Pollers, PollDoes(q)
      PROVE  /\ pc'[p] = "sendWait" => pending'["writeq"] \/ ReceiverWakes'
             /\ pc'[p] = "sendSleep" => ReceiverWakes'
    <2>1. pc'[p] = pc[p] /\ resized' = resized /\ UNCHANGED <<type, buffsz, buf>> /\ arg'[p] = arg[p]
        BY <1>1, <1>6 DEF PollDoes, Rest, Alone
    <2>2. ReceiverWakes => ReceiverWakes'
        BY <1>6, OneKind DEF PollDoes, Rest, Alone, ReceiverWakes
    <2>3. pending'["writeq"] = pending["writeq"]
        BY <1>1, <1>6 DEF PollDoes
    <2> QED BY <2>1, <2>2, <2>3, <1>2, <1>3
<1>7. ASSUME (\E e \in Ends : unix_close(e)) \/ unix_bufferSetSize
      PROVE  /\ pc'[p] = "sendWait" => pending'["writeq"] \/ ReceiverWakes'
             /\ pc'[p] = "sendSleep" => ReceiverWakes'
    <2>1. UNCHANGED <<type, buffsz, resized, buf, pc, pending, arg>>
        BY <1>7, FileSteps
    <2> QED BY <2>1, <1>2, <1>3 DEF ReceiverWakes
<1>8. ASSUME NEW q \in Senders, SendCall(q) \/ Send(q) PROVE SendDoes(p)
    BY <1>1, <1>8, SendSteps
<1> QED BY <1>4, <1>5, <1>6, <1>7, <1>8, StepCases, RecvSteps, PollSteps

\* Nobody waits for room at start.
LEMMA SenderInit == Init => SenderInv
BY DEF Init, SenderInv, Threads

\* A stuttering step does not disturb the senders.
LEMMA SenderSame == SenderInv /\ UNCHANGED vars => SenderInv'
<1>1. SUFFICES ASSUME SenderInv, UNCHANGED vars PROVE SenderInv'
    OBVIOUS
<1>2. UNCHANGED <<type, buffsz, buf, resized, pc, arg, pending>>
    BY <1>1 DEF vars, conn
<1>3. ASSUME NEW p \in Senders PROVE Fits(p)' = Fits(p)
    BY <1>2, FitsSame, OneKind
<1> QED BY <1>1, <1>2, <1>3 DEF SenderInv, ReceiverWakes

\* A poller that has found nothing goes on to the wait; with something there by then, the
\* sentinel of pollQueue is left for it, or a thread is about to leave it.
Heard(p) == up[arg[p].end] /\ ~hup[arg[p].end] /\ Ready(arg[p].end)
Wakes == \E q \in Threads : pc[q] \in {"sendWake", "recvWake"}

PollerInv ==
    \A p \in Pollers : ~resized /\ Heard(p) =>
        /\ pc[p] = "pollWait" => pending["pollQueue"] \/ Wakes
        /\ pc[p] = "pollSleep" => Wakes

\* Without new data or new room, a poll finds nothing new but a hangup.
LEMMA HeardBefore ==
    ASSUME TypeOK, UNCHANGED <<type, buffsz, buf>>, Fades, NEW p \in Threads, arg'[p] = arg[p],
           Heard(p)'
    PROVE  Heard(p)
<1> DEFINE e == arg[p].end
<1>1. e \in Ends
    BY DEF TypeOK, Calls
<1>2. up'[e] /\ ~hup'[e] /\ Ready(e)'
    BY DEF Heard
<1>3. up[e] /\ ~hup[e]
    BY <1>1, <1>2 DEF Fades
<1>4. CASE e = "b"
    <2>1. ~hup["b"] /\ ~hup'["b"]
        BY <1>2, <1>3, <1>4
    <2>2. Readable
        <3>1. Readable'
            BY <1>2, <1>4 DEF Ready
        <3> QED BY <2>1, <3>1 DEF Readable
    <2> QED BY <1>3, <1>4, <2>2 DEF Heard, Ready
<1>5. CASE e = "a"
    <2>1. ~hup["a"] /\ ~hup'["a"]
        BY <1>2, <1>3, <1>5
    <2>2. Writable'
        BY <1>2, <1>5 DEF Ready
    <2>3. up'["b"] => up["b"]
        BY DEF Fades, Ends
    <2>4. Writable
        BY <2>1, <2>2, <2>3 DEF Writable, Room, Avail
    <2> QED BY <1>3, <1>5, <2>4 DEF Heard, Ready
<1> QED BY <1>1, <1>4, <1>5 DEF Ends

\* No step leaves a poller waiting over an end that is ready without a wakeup: send() and
\* recv() broadcast to the pollers, close() is left out (Heard).
LEMMA PollerStep ==
    ASSUME TypeOK, PollerInv, AtMostOne(Pollers), Next
    PROVE  PollerInv'
<1> SUFFICES ASSUME NEW p \in Pollers, ~resized', Heard(p)'
             PROVE  /\ pc'[p] = "pollWait" => pending'["pollQueue"] \/ Wakes'
                    /\ pc'[p] = "pollSleep" => Wakes'
    BY DEF PollerInv
<1>1. p \in Threads /\ p \notin Receivers /\ p \notin Senders /\ "pollQueue" \in Queues
      /\ \A q \in Pollers : q = p
    BY OneKind DEF AtMostOne, Queues
<1>2. ~resized /\ Heard(p) => /\ pc[p] = "pollWait" => pending["pollQueue"] \/ Wakes
                              /\ pc[p] = "pollSleep" => Wakes
    BY DEF PollerInv
<1>3. UNCHANGED <<type, buffsz, buf>> /\ Fades /\ arg'[p] = arg[p] => Heard(p)
    BY <1>1, HeardBefore
<1>4. ASSUME NEW q \in Threads, q # p, Fades, pc[q] \notin {"sendWake", "recvWake"},
             Rest(q), pending'["pollQueue"] = pending["pollQueue"]
      PROVE  /\ pc'[p] = "pollWait" => pending'["pollQueue"] \/ Wakes'
             /\ pc'[p] = "pollSleep" => Wakes'
    <2>1. pc'[p] = pc[p] /\ resized' = resized /\ UNCHANGED <<type, buffsz, buf>> /\ arg'[p] = arg[p]
        BY <1>1, <1>4 DEF Rest, Alone
    <2>2. Wakes => Wakes'
        BY <1>4 DEF Rest, Alone, Wakes
    <2> QED BY <2>1, <2>2, <1>2, <1>3, <1>4
<1>5. ASSUME NEW q \in Threads, q # p, NEW r, NEW l \in {"sendSleep", "recvSleep"}, WakesOnly(q, r, l)
      PROVE  /\ pc'[p] = "pollWait" => pending'["pollQueue"] \/ Wakes'
             /\ pc'[p] = "pollSleep" => Wakes'
    <2>1. pc[p] \in PollerAt
        BY Unchanged DEF OwnPlaces
    <2>2. \/ pending'["pollQueue"]
          \/ \E t \in Threads : pc[t] = "pollSleep"
        BY <1>5 DEF WakesOnly
    <2>3. \A t \in Threads : pc[t] = "pollSleep" => t = p
        BY <1>1, Unchanged DEF OwnPlaces, Threads, ReceiverAt, SenderAt
    <2>4. /\ pc[p] \notin {l, "pollSleep"} => pc'[p] = pc[p]
          /\ pc[p] = "pollSleep" => pc'[p] = "poll"
        BY <1>1, <1>5 DEF WakesOnly
    <2>5. pc[p] # l
        BY <2>1 DEF PollerAt
    <2> QED BY <2>1, <2>2, <2>3, <2>4, <2>5
<1>6. "pollQueue" \in Queues \ {"writeq"} /\ "pollQueue" \in Queues \ {"queue"}
    BY DEF Queues
<1>7. ASSUME NEW q \in Senders, SendDoes(q), Fades
      PROVE  /\ pc'[p] = "pollWait" => pending'["pollQueue"] \/ Wakes'
             /\ pc'[p] = "pollSleep" => Wakes'
    <2>1. q \in Threads /\ q # p /\ pc[q] # "recvWake"
        BY <1>1, OneKind, Unchanged DEF OwnPlaces, SenderAt
    <2>2. CASE pc[q] # "sendWake" /\ Rest(q) /\ pending'["pollQueue"] = pending["pollQueue"]
        BY <1>4, <1>7, <2>1, <2>2
    <2>3. CASE pc'[q] = "sendWake"
        BY <2>1, <2>3 DEF Wakes
    <2>4. CASE WakesOnly(q, "queue", "recvSleep")
        BY <1>5, <2>1, <2>4
    <2> QED BY <1>6, <1>7, <2>2, <2>3, <2>4 DEF SendDoes
<1>8. ASSUME NEW q \in Receivers, RecvDoes(q), Fades
      PROVE  /\ pc'[p] = "pollWait" => pending'["pollQueue"] \/ Wakes'
             /\ pc'[p] = "pollSleep" => Wakes'
    <2>1. q \in Threads /\ q # p /\ pc[q] # "sendWake"
        BY <1>1, OneKind, Unchanged DEF OwnPlaces, ReceiverAt
    <2>2. CASE pc[q] # "recvWake" /\ Rest(q) /\ pending'["pollQueue"] = pending["pollQueue"]
        BY <1>4, <1>8, <2>1, <2>2
    <2>3. CASE pc'[q] = "recvWake"
        BY <2>1, <2>3 DEF Wakes
    <2>4. CASE WakesOnly(q, "writeq", "sendSleep")
        BY <1>5, <2>1, <2>4
    <2> QED BY <1>6, <1>8, <2>2, <2>3, <2>4 DEF RecvDoes
<1>9. ASSUME PollDoes(p)
      PROVE  /\ pc'[p] = "pollWait" => pending'["pollQueue"] \/ Wakes'
             /\ pc'[p] = "pollSleep" => Wakes'
    <2>1. Rest(p) /\ UNCHANGED <<up, hup>>
        BY <1>9 DEF PollDoes
    <2>2. Fades
        BY <2>1 DEF Fades
    <2>3. arg' = arg => ~resized /\ Heard(p)
        BY <1>3, <2>1, <2>2 DEF Rest
    <2>4. Wakes => Wakes'
        <3>1. pc[p] \notin {"sendWake", "recvWake"}
            BY Unchanged DEF OwnPlaces, PollerAt
        <3> QED BY <2>1, <3>1 DEF Rest, Alone, Wakes
    <2>5. CASE pc'[p] \notin {"pollWait", "pollSleep"}
        BY <2>5
    <2>6. CASE ~Ready(arg[p].end) /\ arg' = arg
        BY <2>3, <2>6 DEF Heard
    <2>7. CASE pc[p] = "pollWait" /\ pc'[p] = "pollSleep" /\ ~pending["pollQueue"] /\ arg' = arg
        BY <1>2, <2>3, <2>4, <2>7
    <2> QED BY <1>9, <2>5, <2>6, <2>7 DEF PollDoes
<1>10. ASSUME (\E e \in Ends : unix_close(e)) \/ unix_bufferSetSize
      PROVE  /\ pc'[p] = "pollWait" => pending'["pollQueue"] \/ Wakes'
             /\ pc'[p] = "pollSleep" => Wakes'
    <2>1. UNCHANGED <<type, buffsz, resized, buf, pc, pending, arg>> /\ Fades
        BY <1>10, FileSteps
    <2> QED BY <2>1, <1>2, <1>3 DEF Wakes
<1>11. ASSUME NEW q \in Pollers, PollCall(q) \/ Poll(q) \/ PollTimeout(q) PROVE PollDoes(p)
    BY <1>1, <1>11, PollSteps
<1> QED BY <1>7, <1>8, <1>9, <1>10, <1>11, StepCases, SendSteps, RecvSteps

\* Nobody polls at start.
LEMMA PollerInit == Init => PollerInv
BY DEF Init, PollerInv, Threads

\* A stuttering step does not disturb the pollers.
LEMMA PollerSame == TypeOK /\ PollerInv /\ UNCHANGED vars => PollerInv'
<1>1. SUFFICES ASSUME TypeOK, PollerInv, UNCHANGED vars PROVE PollerInv'
    OBVIOUS
<1>2. UNCHANGED <<type, buffsz, buf, resized, pc, arg, pending, up, hup>>
    BY <1>1 DEF vars, conn
<1>3. ASSUME NEW p \in Pollers, Heard(p)' PROVE Heard(p)
    BY <1>1, <1>2, <1>3, HeardBefore, OneKind DEF Fades
<1> QED BY <1>1, <1>2, <1>3 DEF PollerInv, Wakes

-----------------------------------------------------------------------------
(* Theorems *)

\* With one receiver, and any number of senders and pollers: it sleeps over data only while a
\* sender is on its way to wake it (recv, lines 939-997; send, lines 1086-1121).
THEOREM ReceiverSafety ==
    ASSUME AtMostOne(Receivers)
    PROVE  Spec => []ReceiverIsWoken
<1> DEFINE Inv == TypeOK /\ ReceiverInv
<1>1. Init => Inv
    BY InitType, ReceiverInit
<1>2. Inv /\ [Next]_vars => Inv'
    BY StepType, ReceiverStep, ReceiverSame
<1>3. Inv => ReceiverIsWoken
    BY DEF ReceiverInv, ReceiverIsWoken, SenderWakes
<1> HIDE DEF Inv
<1> QED BY <1>1, <1>2, <1>3, PTL DEF Spec

\* With one sender and one poller as well: neither is left asleep when a receiver has made
\* room (recv, lines 973-981; unix_poll, lines 1376-1436), and a sender never waits for room
\* in an empty buffer (EMSGSIZE, lines 1099-1103).
THEOREM NoWakeupIsLost ==
    ASSUME AtMostOne(Senders), AtMostOne(Receivers), AtMostOne(Pollers)
    PROVE  Spec => []NoLostWakeup
<1> DEFINE Inv == TypeOK /\ ReceiverInv /\ SenderInv /\ PollerInv
<1>1. Init => Inv
    BY InitType, ReceiverInit, SenderInit, PollerInit
<1>2. Inv /\ [Next]_vars => Inv'
    BY StepType, ReceiverStep, ReceiverSame, SenderStep, SenderSame, PollerStep, PollerSame
<1>3. Inv => NoLostWakeup
    <2>1. ReceiverInv => ReceiverIsWoken
        BY DEF ReceiverInv, ReceiverIsWoken, SenderWakes
    <2>2. SenderInv /\ ~resized => SenderIsWoken
        BY DEF SenderInv, SenderIsWoken, Fits, ReceiverWakes
    <2>3. PollerInv /\ ~resized => PollerIsWoken
        BY DEF PollerInv, PollerIsWoken, Heard, Wakes
    <2> QED BY <2>1, <2>2, <2>3 DEF NoLostWakeup
<1> HIDE DEF Inv
<1> QED BY <1>1, <1>2, <1>3, PTL DEF Spec

=============================================================================
