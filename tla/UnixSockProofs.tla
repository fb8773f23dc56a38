--------------------------- MODULE UnixSockProofs ---------------------------
(***************************************************************************)
(* The life of AF_UNIX sockets: the rendezvous that listen(), accept() and *)
(* connect() implement, the threads that sleep, and what is left when all  *)
(* is closed.                                                              *)
(***************************************************************************)
EXTENDS UnixSockCountProofs

-----------------------------------------------------------------------------
(* What listen(), accept() and connect() promise *)

\* How often calls have x in hand.
Held(x) == Cardinality(Handlings(x))

\* The handlings of x by the calls t.
AllHandlings(t, x) == UNION {{q} \X HandlingsOf(t[q], x) : q \in Threads}

\* A call has x in hand when x is counted at all.
LEMMA HeldIs ==
    ASSUME NEW t, \A q \in Threads : t[q].todo \in Seq(Tasks), NEW x
    PROVE  /\ Cardinality(AllHandlings(t, x)) \in Nat
           /\ Cardinality(AllHandlings(t, x)) >= 1 <=> \E q \in Threads : Handles(t[q], x)
<1> USE ThreadsAssumption
<1> DEFINE F == [q \in Threads |-> HandlingsOf(t[q], x)]
           c == Cardinality(AllHandlings(t, x))
<1>1. AllHandlings(t, x) = Pairs(Threads, F)
    BY DEF Pairs, AllHandlings
<1>2. \A q \in Threads : IsFiniteSet(F[q])
    BY HandlingCount
<1>3. \A q \in Threads : F[q] = {} <=> ~Handles(t[q], x)
    <2> SUFFICES ASSUME NEW q \in Threads PROVE F[q] = {} <=> ~Handles(t[q], x)
        OBVIOUS
    <2>1. DOMAIN t[q].todo = 1..Len(t[q].todo) /\ Len(t[q].todo) \in Nat
        OBVIOUS
    <2>2. 0 \notin DOMAIN t[q].todo
        BY <2>1
    <2>3. F[q] = HandlingsOf(t[q], x)
        OBVIOUS
    <2> HIDE DEF F
    <2> QED BY <2>2, <2>3 DEF HandlingsOf, Handles
<1> HIDE DEF F
<1>4. c \in Nat
    BY <1>1, <1>2, PairsFinite
<1>5. Cardinality(Pairs(Threads, F)) = 0 <=> \A q \in Threads : F[q] = {}
    BY <1>2, PairsZero
<1>6. c = 0 <=> \A q \in Threads : ~Handles(t[q], x)
    BY <1>1, <1>3, <1>5, Zenon
<1> HIDE DEF c
<1>7. c >= 1 <=> ~(c = 0)
    BY <1>4
<1> QED BY <1>4, <1>6, <1>7, Zenon DEF c

\* A step changes how often x is in hand by what it changes in its own call.
LEMMA HeldChange ==
    ASSUME TypeOK, TypeOK', NEW p \in Threads, Others(p), NEW x \in Socks
    PROVE  /\ Held(x) \in Nat /\ Held(x)' \in Nat
           /\ Handling(th[p], x) \in Nat /\ Handling(th[p], x)' \in Nat
           /\ Held(x)' + Handling(th[p], x) = Held(x) + Handling(th[p], x)'
           /\ x \in RTaken <=> Held(x) >= 1
           /\ x \in RTaken' <=> Held(x)' >= 1
           /\ Limbo(x) >= Held(x)
<1>1. \A q \in Threads : th[q].todo \in Seq(Tasks) /\ th'[q].todo \in Seq(Tasks)
    BY DEF TypeOK, Calls
<1>2. Held(x) \in Nat /\ (Held(x) >= 1 <=> \E q \in Threads : Handles(th[q], x))
    BY <1>1, HeldIs DEF Held, Handlings, AllHandlings
<1>3. Held(x)' \in Nat /\ (Held(x)' >= 1 <=> \E q \in Threads : Handles(th'[q], x))
    <2> DEFINE t == th'
    <2>1. Held(x)' = Cardinality(AllHandlings(t, x))
        BY DEF Held, Handlings, AllHandlings
    <2>2. \A q \in Threads : t[q].todo \in Seq(Tasks)
        BY <1>1
    <2> HIDE DEF t
    <2>3. /\ Cardinality(AllHandlings(t, x)) \in Nat
          /\ Cardinality(AllHandlings(t, x)) >= 1 <=> \E q \in Threads : Handles(t[q], x)
        BY <2>2, HeldIs
    <2> QED BY <2>1, <2>3, Zenon DEF t
<1>4. x \in RTaken <=> Held(x) >= 1
    BY <1>2 DEF RTaken
<1>5. x \in RTaken' <=> Held(x)' >= 1
    BY <1>3 DEF RTaken, Handles
<1>6. /\ Limbo(x)' + Handling(th[p], x) + Linked(x) = Limbo(x) + Handling(th[p], x)' + Linked(x)'
      /\ Linked(x) \in Nat /\ Linked(x)' \in Nat
      /\ Handling(th[p], x) \in Nat /\ Handling(th[p], x)' \in Nat
    BY LimboChange
<1>7. Limbo(x) = Linked(x) + Held(x) /\ Limbo(x)' = Linked(x)' + Held(x)'
    BY DEF Limbo, Held
<1> DEFINE a == Held(x)
           a1 == Held(x)'
           h == Handling(th[p], x)
           h1 == Handling(th[p], x)'
           l == Linked(x)
           l1 == Linked(x)'
           m == Limbo(x)
           m1 == Limbo(x)'
<1>8. /\ a \in Nat /\ a1 \in Nat /\ l \in Nat /\ l1 \in Nat /\ h \in Nat /\ h1 \in Nat
      /\ m1 + h + l = m + h1 + l1 /\ m = l + a /\ m1 = l1 + a1
    BY <1>2, <1>3, <1>6, <1>7
<1> HIDE DEF a, a1, h, h1, l, l1, m, m1
<1>9. a1 + h = a + h1 /\ m >= a
    BY ONLY <1>8
<1> QED BY <1>2, <1>3, <1>4, <1>5, <1>6, <1>9 DEF a, a1, h, h1, m

\* A socket that is not in limbo waits nowhere.
LEMMA SettledIs ==
    ASSUME TypeOK, NEW x \in Socks, Limbo(x) = 0 PROVE R!Settled(x)
<1>1. \A q \in Threads : th[q].todo \in Seq(Tasks)
    BY DEF TypeOK, Calls
<1>2. Held(x) \in Nat /\ (Held(x) >= 1 <=> \E q \in Threads : Handles(th[q], x))
    BY <1>1, HeldIs DEF Held, Handlings, AllHandlings
<1>3. Linked(x) \in Nat /\ (Linked(x) = 0 => Links(x) = {})
    BY LinkedType
<1>4. Limbo(x) = Linked(x) + Held(x)
    BY DEF Limbo, Held
<1>5. Linked(x) = 0 /\ ~(Held(x) >= 1)
    BY <1>2, <1>3, <1>4
<1>6. x \notin RTaken
    BY <1>2, <1>5 DEF RTaken
<1>7. ASSUME NEW l \in Socks, R!Waits(x, l) PROVE FALSE
    <2>1. PICK i \in DOMAIN sock[l].connecting : sock[l].connecting[i] = x
        BY <1>7 DEF R!Waits, RQueue
    <2>2. <<l, i>> \in Links(x)
        BY <2>1 DEF Links, Positions
    <2> QED BY <1>3, <1>5, <2>2
<1> QED BY <1>6, <1>7 DEF R!Settled

\* Nothing of the rendezvous changes.
LEMMA Stutters ==
    ASSUME TypeOK, TypeOK', NEW p \in Threads, Others(p), RPeer' = RPeer,
           \A x \in Socks : Passes(p, x)
    PROVE  UNCHANGED R!vars
<1>1. RQueue' = RQueue
    BY DEF RQueue, Passes
<1>2. ASSUME NEW x \in Socks PROVE x \in RTaken <=> x \in RTaken'
    BY HeldChange DEF Passes
<1>3. RTaken' = RTaken
    BY <1>2 DEF RTaken
<1> QED BY <1>1, <1>3 DEF R!vars

\* One socket is taken off the hands of p.
LEMMA TakenOff ==
    ASSUME TypeOK, TypeOK', LimboInv, NEW p \in Threads, Others(p), NEW s \in Socks,
           \A x \in Socks : Handling(th[p], x) = (IF x = s THEN 1 ELSE 0) + Handling(th[p], x)'
    PROVE  s \in RTaken /\ RTaken' = RTaken \ {s}
<1>1. ASSUME NEW x \in Socks
      PROVE  (x = s => x \in RTaken) /\ (x \in RTaken' <=> x \in RTaken /\ x # s)
    <2>1. /\ Held(x) \in Nat /\ Held(x)' \in Nat
          /\ Handling(th[p], x) \in Nat /\ Handling(th[p], x)' \in Nat
          /\ Held(x)' + Handling(th[p], x) = Held(x) + Handling(th[p], x)'
          /\ x \in RTaken <=> Held(x) >= 1
          /\ x \in RTaken' <=> Held(x)' >= 1
          /\ Limbo(x) >= Held(x)
        BY HeldChange
    <2>2. Limbo(x) \in Nat /\ Limbo(x) <= 1
        BY LimboType DEF LimboInv
    <2>3. Handling(th[p], x) = (IF x = s THEN 1 ELSE 0) + Handling(th[p], x)'
        OBVIOUS
    <2> DEFINE a == Held(x)
               a1 == Held(x)'
               h == Handling(th[p], x)
               h1 == Handling(th[p], x)'
               m == Limbo(x)
    <2>4. /\ a \in Nat /\ a1 \in Nat /\ h \in Nat /\ h1 \in Nat /\ m \in Nat
          /\ a1 + h = a + h1 /\ m >= a /\ m <= 1 /\ h = (IF x = s THEN 1 ELSE 0) + h1
        BY <2>1, <2>2, <2>3
    <2> HIDE DEF a, a1, h, h1, m
    <2>5. (x = s => a >= 1) /\ (a1 >= 1 <=> a >= 1 /\ x # s)
        BY ONLY <2>4
    <2> QED BY <2>1, <2>5 DEF a, a1
<1>2. \A x \in RTaken' : x \in Socks
    BY DEF RTaken
<1>3. \A x \in RTaken : x \in Socks
    BY DEF RTaken
<1> QED BY <1>1, <1>2, <1>3

\* Some sockets come into the hands of p.
LEMMA TakenOn ==
    ASSUME TypeOK, TypeOK', NEW p \in Threads, Others(p), NEW S \in SUBSET Socks, NEW n,
           \A x \in Socks : /\ Handling(th[p], x)' = n[x] + Handling(th[p], x)
                            /\ n[x] \in Nat
                            /\ n[x] >= 1 <=> x \in S
    PROVE  RTaken' = RTaken \cup S
<1>1. ASSUME NEW x \in Socks PROVE x \in RTaken' <=> x \in RTaken \/ x \in S
    <2>1. /\ Held(x) \in Nat /\ Held(x)' \in Nat
          /\ Handling(th[p], x) \in Nat /\ Handling(th[p], x)' \in Nat
          /\ Held(x)' + Handling(th[p], x) = Held(x) + Handling(th[p], x)'
          /\ x \in RTaken <=> Held(x) >= 1
          /\ x \in RTaken' <=> Held(x)' >= 1
        BY HeldChange
    <2> DEFINE a == Held(x)
               a1 == Held(x)'
               h == Handling(th[p], x)
               h1 == Handling(th[p], x)'
               k == n[x]
    <2>2. /\ a \in Nat /\ a1 \in Nat /\ h \in Nat /\ h1 \in Nat /\ k \in Nat
          /\ a1 + h = a + h1 /\ h1 = k + h
        BY <2>1
    <2> HIDE DEF a, a1, h, h1
    <2>3. a1 >= 1 <=> a >= 1 \/ k >= 1
        BY ONLY <2>2
    <2> QED BY <2>1, <2>3 DEF a, a1
<1>2. \A x \in RTaken' : x \in Socks
    BY DEF RTaken
<1>3. \A x \in RTaken : x \in Socks
    BY DEF RTaken
<1> QED BY <1>1, <1>2, <1>3

\* The peers that the promise speaks of do not change.
LEMMA SamePeers ==
    ASSUME \A x \in Socks : /\ sock'[x].mem = "live" <=> sock[x].mem = "live"
                            /\ IsLive(x) => sock'[x].remote = sock[x].remote
    PROVE  RPeer' = RPeer
BY DEF RPeer, IsLive

\* A new structure is nobody's peer.
LEMMA AllocPeers ==
    ASSUME NEW f \in Socks, NEW i, Allocates(f, i), RemotesSame(f) PROVE RPeer' = RPeer
BY DEF RPeer, Allocates, RemotesSame

\* Both pointers of a pair are set.
LEMMA TiedPeers ==
    ASSUME NEW a \in Socks, NEW b \in Socks, a # b,
           sock'[a].mem = "live", sock'[b].mem = "live",
           sock'[a].remote = b, sock'[b].remote = a,
           \A x \in Socks \ {a, b} : /\ sock'[x].mem = "live" <=> sock[x].mem = "live"
                                     /\ sock'[x].remote = sock[x].remote
    PROVE  RPeer' = R!Connected(a, b)
<1> DEFINE e == [RPeer EXCEPT ![a] = b, ![b] = a]
<1>1. \A x \in Socks : RPeer'[x] = e[x]
    BY ZenonT(60) DEF RPeer
<1>2. RPeer' \in [Socks -> Socks \cup {NULL}] \/ DOMAIN RPeer' = Socks
    BY DEF RPeer
<1> QED BY <1>1 DEF RPeer, R!Connected

\* unix_connect queues a socket that is free.
LEMMA ConnectAddQueues ==
    ASSUME TypeOK, ShapeInv, TypeOK', Peers, NEW p \in Threads, ConnectAdd(p)
    PROVE  R!Next
<1> DEFINE s == th[p].s
           r == th[p].r
<1>1. /\ th[p].pc = "connectAdd" /\ Others(p) /\ s \in Socks /\ r \in Socks
      /\ Lists(r, Append(sock[r].connecting, s))
      /\ SameRefs(th[p], th'[p]) /\ th'[p].pc = "connectMark"
    BY ConnectAddIs DEF At
<1>2. sock[s].remote = NULL /\ Limbo(s) = 0
    BY <1>1 DEF Peers, ConnectInv, Checked
<1>3. R!Free(s)
    BY <1>1, <1>2, SettledIs DEF R!Free, RPeer
<1>4. RQueue' = [RQueue EXCEPT ![r] = Append(@, s)]
    BY <1>1, ZenonT(60) DEF Lists, RQueue
<1>5. RPeer' = RPeer
    BY <1>1, SamePeers DEF Lists
<1>6. RTaken' = RTaken
    <2>1. th[p].todo = <<>> /\ th'[p].todo = <<>>
        BY <1>1 DEF ShapeInv, Shape, SameRefs
    <2>2. \A x \in Socks : Handling(th[p], x) = 0 /\ Handling(th[p], x)' = 0
        BY <1>1, <2>1, CallHandling, CallHandlingNext
    <2>3. \A x \in Socks : x \in RTaken' <=> x \in RTaken
        BY <1>1, <2>2, HeldChange
    <2> QED BY <2>3 DEF RTaken
<1>7. R!Queue(s, r)
    BY <1>3, <1>4, <1>5, <1>6 DEF R!Queue
<1> QED BY <1>1, <1>7 DEF R!Next

\* unix_accept takes the oldest.
LEMMA AcceptTakeTakes ==
    ASSUME TypeOK, ShapeInv, TypeOK', NEW p \in Threads, AcceptTake(p) PROVE R!Next
<1> DEFINE l == th[p].s
           q == sock[l].connecting
           h == Head(q)
<1>1. /\ th[p].pc = "acceptLoop" /\ Others(p) /\ l \in Socks
      /\ q # <<>> /\ h \in Socks /\ Lists(l, Tail(q))
      /\ Becomes(p, "acceptPair", l, h, th[p].new)
    BY AcceptTakeIs DEF At
<1>2. RQueue[l] = q /\ RQueue' = [RQueue EXCEPT ![l] = Tail(@)]
    BY <1>1 DEF Lists, RQueue
<1>3. RPeer' = RPeer
    BY <1>1, SamePeers DEF Lists
<1>4. RTaken' = RTaken \cup {h}
    <2> DEFINE n == [x \in Socks |-> IF x = h THEN 1 ELSE 0]
    <2>1. th[p].todo = <<>> /\ th'[p].todo = <<>> /\ th'[p].pc = "acceptPair" /\ th'[p].r = h
        BY <1>1 DEF ShapeInv, Shape, Becomes
    <2>2. ASSUME NEW x \in Socks
          PROVE  Handling(th[p], x)' = n[x] + Handling(th[p], x) /\ n[x] \in Nat
                 /\ (n[x] >= 1 <=> x \in {h})
        <3>1. Handling(th[p], x) = 0
            BY <1>1, <2>1, CallHandling
        <3>2. Handling(th[p], x)' = IF h = x THEN 1 ELSE 0
            BY <2>1, CallHandlingNext
        <3> HIDE DEF h
        <3> QED BY <3>1, <3>2
    <2>3. {h} \in SUBSET Socks
        BY <1>1
    <2> HIDE DEF n, h
    <2> QED BY <1>1, <2>2, <2>3, TakenOn, ZenonT(60)
<1>5. R!Take(l)
    BY <1>1, <1>2, <1>3, <1>4 DEF R!Take
<1> QED BY <1>1, <1>5 DEF R!Next

\* unix_accept answers with its new socket.
LEMMA AcceptPairAnswers ==
    ASSUME TypeOK, ShapeInv, TypeOK', Accounts, Peers, NEW p \in Threads, AcceptPair(p)
    PROVE  R!Next
<1> DEFINE a == th[p].new
           b == th[p].r
           z == <<Task("put", a), Task("put", b), Task("put", th[p].s), Task("open", a)>>
<1>1. /\ th[p].pc = "acceptPair" /\ Others(p) /\ a \in Socks /\ b \in Socks /\ th[p].s \in Socks
      /\ Leaves(p, z)
      /\ \A x \in Socks :
           /\ sock'[x].mem = sock[x].mem /\ sock'[x].connecting = sock[x].connecting
           /\ sock'[x].remote = IF x = a THEN b ELSE IF x = b THEN a ELSE sock[x].remote
    BY AcceptPairIs, ZenonT(60) DEF At
<1>2. z \in Seq(Tasks) /\ \A i \in DOMAIN z : z[i].op # "detach"
    BY <1>1, TaskType, PutTask
<1>3. th[p].todo = <<>>
    BY <1>1 DEF ShapeInv, Shape
<1>4. \A x \in Socks : Handling(th[p], x)' = 0
    <2> HIDE DEF z
    <2> QED BY <1>1, <1>2, LeavesHandling, ZenonT(60)
<1>5. \A x \in Socks : Handling(th[p], x) = (IF x = b THEN 1 ELSE 0) + Handling(th[p], x)'
    BY <1>1, <1>3, <1>4, CallHandling
<1>6. b \in RTaken /\ RTaken' = RTaken \ {b}
    <2> HIDE DEF b
    <2> QED BY <1>1, <1>5, TakenOff DEF Peers
<1>7. Limbo(b) >= 1
    BY <1>1, <1>4, <1>5, LimboType
<1>8. Limbo(a) = 0 /\ sock[a].remote = NULL /\ sock[b].remote = NULL
    BY <1>1, <1>7 DEF Peers, NewInv, LimboInv
<1>9. a # b
    BY <1>7, <1>8
<1>10. IsLive(a) /\ IsLive(b)
    BY <1>1, PointedIsLive, ThreadsAssumption DEF Accounts
<1>11. R!Free(a) /\ RPeer[b] = NULL
    BY <1>1, <1>8, SettledIs DEF R!Free, RPeer
<1>12. RPeer' = R!Connected(b, a)
    <2>1. /\ sock'[a].mem = "live" /\ sock'[b].mem = "live"
          /\ sock'[a].remote = b /\ sock'[b].remote = a
          /\ \A x \in Socks \ {a, b} : sock'[x].mem = sock[x].mem /\ sock'[x].remote = sock[x].remote
        BY <1>1, <1>9, <1>10 DEF IsLive
    <2> HIDE DEF a, b
    <2> QED BY <1>1, <1>9, <2>1, TiedPeers
<1>13. RQueue' = RQueue
    BY <1>1 DEF RQueue
<1>14. R!Answer(b, a)
    BY <1>6, <1>11, <1>12, <1>13 DEF R!Answer
<1> QED BY <1>1, <1>6, <1>14 DEF R!Next

\* unix_connect gives up: its socket is still in the queue, and leaves it.
LEMMA ConnectUnlinkGivesUp ==
    ASSUME TypeOK, ShapeInv, TypeOK', Peers, NEW p \in Threads, ConnectUnlink(p)
    PROVE  R!Next \/ UNCHANGED R!vars
<1>1. CASE Quiet(p) /\ UNCHANGED sock
    <2>1. \A x \in Socks : Passes(p, x)
        BY <1>1, QuietLimbo
    <2>2. RPeer' = RPeer
        BY <1>1 DEF RPeer
    <2> QED BY <1>1, <2>1, <2>2, Stutters DEF Quiet
<1>2. CASE ~(Quiet(p) /\ UNCHANGED sock)
    <2> DEFINE s == th[p].s
               r == th[p].r
               q == sock[r].connecting
               z == <<Task("put", s), Task("put", r), Task("put", s)>>
    <2>1. /\ th[p].pc = "connectUnlink" /\ Others(p) /\ s \in Socks /\ r \in Socks
          /\ Leaves(p, z)
          /\ \E i \in DOMAIN q : Lists(r, RemoveAt(q, i))
        BY <1>2, ConnectUnlinkIs DEF At
    <2>2. PICK i \in DOMAIN q : Lists(r, RemoveAt(q, i))
        BY <2>1
    <2>3. RQueue[r] = q /\ RQueue' = [RQueue EXCEPT ![r] = RemoveAt(@, i)]
        BY <2>1, <2>2 DEF Lists, RQueue
    <2>4. RPeer' = RPeer
        BY <2>2, SamePeers DEF Lists
    <2>5. RTaken' = RTaken
        <3>1. z \in Seq(Tasks) /\ \A j \in DOMAIN z : z[j].op # "detach"
            BY <2>1, TaskType, PutTask
        <3>2. \A x \in Socks : Handling(th[p], x)' = 0
            <4> HIDE DEF z
            <4> QED BY <2>1, <3>1, LeavesHandling
        <3>3. \A x \in Socks : Handling(th[p], x) = 0
            BY <2>1, CallHandling DEF ShapeInv, Shape
        <3>4. \A x \in Socks : x \in RTaken' <=> x \in RTaken
            BY <2>1, <3>2, <3>3, HeldChange
        <3> QED BY <3>4 DEF RTaken
    <2>6. R!GiveUp(r)
        BY <2>3, <2>4, <2>5, ZenonT(60) DEF R!GiveUp, R!RemoveAt, RemoveAt
    <2> QED BY <2>1, <2>6 DEF R!Next
<1> QED BY <1>1, <1>2

\* The teardown of a listener refuses one socket.
LEMMA DetachRefuses ==
    ASSUME TypeOK, ShapeInv, TypeOK', Accounts, Peers, NEW p \in Threads, DetachesOne(p)
    PROVE  R!Next
<1> DEFINE q == Head(th[p].todo).s
<1>1. At(p, "finish") /\ Others(p) /\ SameSocks
    BY DetachIs DEF DetachesOne
<1>2. q \in Socks
    BY <1>1, FinishType
<1>3. RQueue' = RQueue /\ RPeer' = RPeer
    BY <1>1, SamePeers DEF SameSocks, RQueue
<1>4. \A x \in Socks : Handling(th[p], x) = (IF x = q THEN 1 ELSE 0) + Handling(th[p], x)'
    BY DetachTreats
<1>5. q \in RTaken /\ RTaken' = RTaken \ {q}
    <2> HIDE DEF q
    <2> QED BY <1>1, <1>2, <1>4, TakenOff DEF Peers
<1>6. R!Refuse(q)
    BY <1>3, <1>5 DEF R!Refuse
<1> QED BY <1>2, <1>5, <1>6 DEF R!Next

\* What is not in the tree does not wait, and is not waited for.
SettledInv == \A x \in Socks : ~IsLive(x) => Limbo(x) = 0

\* The last reference to a socket is dropped: the socket vanishes.
LEMMA PutLastVanishes ==
    ASSUME TypeOK, ShapeInv, TypeOK', Accounts, RemoteIsMutual, SettledInv', NEW p \in Threads,
           Puts(p), ~(sock[Head(th[p].todo).s].refs > 1)
    PROVE  R!Next
<1> PICK s : s = Head(th[p].todo).s
    OBVIOUS
<1> DEFINE q == sock[s].connecting
           n == [x \in Socks |-> N(q, {x})]
           S == {x \in Socks : R!Waits(x, s)}
<1>1. At(p, "finish") /\ Head(th[p].todo).op = "put" /\ Others(p) /\ Orphans(s)
    BY PutLastIs DEF Puts
<1>2. s \in Socks /\ q \in Seq(Socks)
    <2>1. s \in Socks
        BY <1>1, FinishType
    <2> QED BY <2>1, ListType
<1>3. IsLive(s)
    <2>1. /\ Owns(th[p], s) = Bit(Head(th[p].todo).s = s /\ Head(th[p].todo).op # "free")
                                + N(Tail(th[p].todo), Drop(s))
          /\ N(Tail(th[p].todo), Drop(s)) \in Nat
        BY <1>1, <1>2, TaskOwns, ZenonT(60)
    <2>2. Bit(Head(th[p].todo).s = s /\ Head(th[p].todo).op # "free") = 1
        BY <1>1 DEF Bit
    <2>3. Owns(th[p], s) > 0
        BY <2>1, <2>2
    <2> QED BY <1>2, <2>3, OwnedIsLive, ThreadsAssumption DEF Accounts
<1>4. ASSUME NEW x \in Socks PROVE n[x] \in Nat /\ (n[x] >= 1 <=> x \in S)
    <2>1. N(q, {x}) \in Nat /\ (N(q, {x}) = 0 <=> \A i \in DOMAIN q : q[i] # x)
        <3> HIDE DEF q
        <3> QED BY <1>2, WhereFinite, WhereNone
    <2>2. R!Waits(x, s) <=> \E i \in DOMAIN q : q[i] = x
        BY <1>2, ZenonT(60) DEF R!Waits, RQueue
    <2> HIDE DEF q
    <2>3. N(q, {x}) >= 1 <=> \E i \in DOMAIN q : q[i] = x
        BY <2>1
    <2> QED BY <2>1, <2>2, <2>3
<1>5. ASSUME NEW x \in Socks PROVE Handling(th[p], x)' = n[x] + Handling(th[p], x)
    BY PutLastTreats, ZenonT(60)
<1>6. RTaken' = RTaken \cup S
    <2>1. S \in SUBSET Socks
        OBVIOUS
    <2> HIDE DEF q, n, S
    <2>2. \A x \in Socks : /\ Handling(th[p], x)' = n[x] + Handling(th[p], x)
                           /\ n[x] \in Nat
                           /\ n[x] >= 1 <=> x \in S
        BY <1>4, <1>5
    <2> QED BY <1>1, <2>1, <2>2, TakenOn
<1>7. RQueue' = [RQueue EXCEPT ![s] = <<>>]
    BY <1>1, <1>2, ZenonT(60) DEF Orphans, RQueue
<1>8. Limbo(s) = 0
    <2>1. Limbo(s)' = 0
        BY <1>1, <1>2, SMTT(60) DEF SettledInv, Orphans, IsLive
    <2>2. /\ \A y \in Socks \ {s} : sock'[y].connecting = sock[y].connecting
          /\ sock'[s].connecting = <<>>
        BY <1>1, ZenonT(60) DEF Orphans
    <2>3. Handling(th[p], s)' = N(q, {s}) + Handling(th[p], s)
        BY <1>2, <1>5
    <2>4. N(sock'[s].connecting, {s}) = 0
        BY <2>2, WhereEmpty
    <2>5. /\ Limbo(s)' + Handling(th[p], s) + N(sock[s].connecting, {s})
               = Limbo(s) + Handling(th[p], s)' + N(sock'[s].connecting, {s})
          /\ Limbo(s) \in Nat /\ N(sock[s].connecting, {s}) \in Nat
          /\ Handling(th[p], s) \in Nat /\ Handling(th[p], s)' \in Nat
        BY <1>1, <1>2, <2>2, LimboByLists, ZenonT(60)
    <2> DEFINE a == Limbo(s)
               a1 == Limbo(s)'
               h == Handling(th[p], s)
               h1 == Handling(th[p], s)'
               k == N(sock[s].connecting, {s})
               k1 == N(sock'[s].connecting, {s})
    <2>6. /\ a1 + h + k = a + h1 + k1 /\ a1 = 0 /\ k1 = 0 /\ h1 = k + h
          /\ a \in Nat /\ h \in Nat /\ h1 \in Nat /\ k \in Nat
        BY <2>1, <2>3, <2>4, <2>5, SMTT(60)
    <2> HIDE DEF a, a1, h, h1, k, k1
    <2>7. a = 0
        BY ONLY <2>6
    <2> QED BY <2>7 DEF a
<1>9. R!Settled(s)
    BY <1>2, <1>8, SettledIs
<1>10. ASSUME NEW x \in Socks
       PROVE  RPeer'[x] = IF x = s \/ RPeer[x] = s THEN NULL ELSE RPeer[x]
    <2>1. s # NULL
        BY <1>2, SocksType
    <2>2. CASE x = s
        BY <1>1, <2>2, SMTT(60) DEF RPeer, Orphans
    <2>3. CASE x # s /\ x = sock[s].remote
        <3>1. sock[x].mem = "live" /\ sock[x].remote = s
            BY <1>2, <1>3, <2>3, SocksType, ZenonT(60) DEF RemoteIsMutual, Live, IsLive
        <3> QED BY <1>1, <2>3, <3>1, Zenon DEF RPeer, Orphans
    <2>4. CASE x # s /\ x # sock[s].remote
        <3>1. sock[x].mem = "live" => sock[x].remote # s
            BY <1>2, <2>1, <2>4 DEF RemoteIsMutual, Live
        <3> QED BY <1>1, <2>1, <2>4, <3>1 DEF RPeer, Orphans
    <2> QED BY <2>2, <2>3, <2>4
<1>11. RPeer' = [x \in Socks |-> IF x = s \/ RPeer[x] = s THEN NULL ELSE RPeer[x]]
    BY <1>10 DEF RPeer
<1>12. R!Vanish(s)
    BY <1>6, <1>7, <1>9, <1>11 DEF R!Vanish
<1> QED BY <1>2, <1>12 DEF R!Next

\* unix_socketpair ties its two sockets together, or has no memory for it.
LEMMA PairSecondPairs ==
    ASSUME TypeOK, ShapeInv, TypeOK', Accounts, Peers, NEW p \in Threads, PairSecond(p)
    PROVE  R!Next \/ UNCHANGED R!vars
<1> DEFINE a == th[p].new
<1>1. a \in Socks /\ Others(p)
    BY SocksType, PairSecondIs, Zenon DEF PairSecond, At, TypeOK, Calls, ShapeInv, Shape, OnNew
<1>2. IsLive(a) /\ sock[a].remote = NULL /\ Limbo(a) = 0
    BY <1>1, PointedIsLive, ThreadsAssumption DEF Accounts, Peers, NewInv
<1>3. PICK f \in Socks, i \in Ids :
         /\ Allocates(f, i)
         /\ \/ /\ \A x \in Socks : sock'[x].remote = IF x = a THEN f
                                    ELSE IF x = f THEN a ELSE sock[x].remote
               /\ a # f
            \/ RemotesSame(f)
    BY <1>2, PairSecondIs, ZenonT(60)
<1>4. \A x \in Socks : Passes(p, x)
    BY PairSecondTreats
<1>5. CASE RemotesSame(f)
    BY <1>1, <1>3, <1>4, <1>5, AllocPeers, Stutters
<1>6. CASE /\ \A x \in Socks : sock'[x].remote = IF x = a THEN f
                                ELSE IF x = f THEN a ELSE sock[x].remote
           /\ a # f
    <2>1. RQueue' = RQueue
        BY <1>4 DEF RQueue, Passes
    <2>2. \A x \in Socks : x \in RTaken' <=> x \in RTaken
        BY <1>1, <1>4, HeldChange DEF Passes
    <2>3. RTaken' = RTaken
        BY <2>2 DEF RTaken
    <2>4. RPeer' = R!Connected(a, f)
        <3>1. /\ sock'[a].mem = "live" /\ sock'[f].mem = "live"
              /\ sock'[a].remote = f /\ sock'[f].remote = a
              /\ \A x \in Socks \ {a, f} : sock'[x].mem = sock[x].mem /\ sock'[x].remote = sock[x].remote
            BY <1>1, <1>2, <1>3, <1>6 DEF Allocates, IsLive
        <3> HIDE DEF a
        <3> QED BY <1>1, <1>3, <1>6, <3>1, TiedPeers
    <2>5. ~IsLive(f)
        BY <1>3 DEF Allocates, IsLive
    <2>6. R!Free(f)
        BY <1>3, <2>5, NotLiveLimbo, SettledIs DEF R!Free, RPeer, IsLive
    <2>7. R!Free(a)
        BY <1>1, <1>2, SettledIs DEF R!Free, RPeer
    <2>8. R!Pair(a, f)
        BY <1>6, <2>1, <2>3, <2>4, <2>6, <2>7 DEF R!Pair
    <2> QED BY <1>1, <1>3, <2>8 DEF R!Next
<1> QED BY <1>3, <1>5, <1>6

\* The freeing of a structure that left the tree before.
LEMMA FreesPeers ==
    ASSUME TypeOK, ShapeInv, Accounts, NEW p \in Threads, Frees(p) PROVE RPeer' = RPeer
<1> DEFINE s == Head(th[p].todo).s
<1>1. /\ At(p, "finish") /\ Head(th[p].todo).op = "free" /\ sock'[s].mem = "freed"
      /\ \A x \in Socks \ {s} : sock'[x] = sock[x]
    BY FreeIs DEF Frees
<1>2. th[p].todo \in Seq(Tasks) /\ th[p].todo # <<>> /\ s \in Socks
    BY <1>1, FinishType
<1>3. 1 \in DOMAIN th[p].todo /\ th[p].todo[1] = Head(th[p].todo)
    BY <1>2
<1>4. ~IsLive(s)
    BY <1>1, <1>3 DEF Accounts, FreeInv, FreeOnly, Gone, IsLive
<1> HIDE DEF s
<1> QED BY <1>1, <1>4, SamePeers DEF IsLive

\* The step of a thread is one of the rendezvous, or none that it speaks of.
LEMMA RendezvousStep ==
    ASSUME "shutdown" \notin Ops, ~SharedConnect, TypeOK, ShapeInv, TypeOK', Accounts, Peers,
           RemoteIsMutual, SettledInv', NEW p \in Threads, Does(p)
    PROVE  R!Next \/ UNCHANGED R!vars
<1>1. Others(p)
    BY DoesOthers
<1>2. ASSUME RPeer' = RPeer, \A x \in Socks : Passes(p, x) PROVE UNCHANGED R!vars
    BY <1>1, <1>2, Stutters
<1>3. ASSUME NEW s, NEW n, Counts(s, n) PROVE RPeer' = RPeer
    BY <1>3, SamePeers DEF Counts
<1>4. UNCHANGED sock => RPeer' = RPeer
    BY DEF RPeer
<1>5. CASE Looks(p)
    <2>1. RPeer' = RPeer
        BY <1>5, LooksQuiet, SamePeers DEF Quiet, SameSocks
    <2> QED BY <1>2, <1>5, <2>1, LooksTreats
<1>6. CASE unix_socket(p)
    BY <1>2, <1>6, SocketIs, AllocPeers, SocketTreats
<1>7. CASE unix_socketpair(p)
    BY <1>2, <1>7, SocketpairIs, AllocPeers, SocketpairTreats
<1>8. CASE AcceptAlloc(p)
    BY <1>2, <1>8, AcceptAllocIs, AllocPeers, AcceptAllocTreats
<1>9. CASE PairFails(p)
    BY <1>2, <1>4, <1>9, PairFailsIs, PairFailsTreats
<1>10. CASE PairSecond(p)
    BY <1>10, PairSecondPairs
<1>11. ASSUME NEW f \in open, NEW l \in {"bind", "accept", "listen", "connect"}, Enter(p, f, l),
              l \in {"listen", "connect"} => Undisturbed(f)
       PROVE  UNCHANGED R!vars
    <2>1. RPeer' = RPeer
        BY <1>3, <1>11, EnterIs
    <2>2. \A x \in Socks : Passes(p, x)
        BY <1>11, EnterTreats
    <2> QED BY <1>2, <2>1, <2>2
<1>12. ASSUME NEW f \in open, unix_close(p, f) PROVE UNCHANGED R!vars
    <2>1. At(p, "user") /\ DropTwice(p, f)
        BY <1>12 DEF unix_close
    <2>2. RPeer' = RPeer
        BY <1>3, <1>4, <2>1, DropTwiceIs
    <2>3. \A x \in Socks : Passes(p, x)
        BY <1>12, CloseTreats
    <2> QED BY <1>2, <2>2, <2>3
<1>13. CASE ConnectLookup(p)
    <2>1. RPeer' = RPeer
        BY <1>3, <1>4, <1>13, ConnectLookupIs
    <2> QED BY <1>2, <1>13, <2>1, ConnectLookupTreats
<1>14. CASE ConnectRef(p)
    BY <1>2, <1>3, <1>14, ConnectRefIs, ConnectRefTreats
<1>15. CASE Puts(p)
    <2>1. CASE sock[Head(th[p].todo).s].refs > 1
        <3>1. RPeer' = RPeer
            BY <1>3, <1>15, <2>1, PutIs DEF Puts
        <3> QED BY <1>2, <1>15, <2>1, <3>1, PutTreats
    <2>2. CASE ~(sock[Head(th[p].todo).s].refs > 1)
        BY <1>15, <2>2, PutLastVanishes
    <2> QED BY <2>1, <2>2
<1>16. CASE Frees(p)
    BY <1>2, <1>16, FreesPeers, FreeTreats
<1>17. CASE Opens(p)
    BY <1>2, <1>4, <1>17, OpensTreats DEF Opens
<1> QED BY <1>5, <1>6, <1>7, <1>8, <1>9, <1>10, <1>11, <1>12, <1>13, <1>14, <1>15, <1>16, <1>17,
           ConnectAddQueues, ConnectUnlinkGivesUp, AcceptTakeTakes, AcceptPairAnswers, DetachRefuses
        DEF Does

\* At start nobody waits and nobody has a peer.
LEMMA RendezvousInit == ASSUME Init PROVE R!Init
<1>1. /\ \A s \in Socks : sock[s] = Blank
      /\ \A p \in Threads : th[p] = User
    BY DEF Init
<1>2. RQueue = [l \in Socks |-> <<>>] /\ RPeer = [s \in Socks |-> NULL]
    BY <1>1 DEF RQueue, RPeer, Blank
<1>3. RTaken = {}
    BY <1>1 DEF RTaken, Handles, User
<1> QED BY <1>2, <1>3 DEF R!Init

\* unix_listen, unix_accept, unix_connect with its timeout, socketpair() and the teardown in
\* unixsock_put implement Rendezvous, for any number of threads, listeners and queued
\* sockets: who connects waits once, is served in the order of arrival, and is accepted by
\* one accept(), refused, or taken back by its own timeout, whichever step comes first.
THEOREM RendezvousIsKept ==
    ASSUME "shutdown" \notin Ops, ~SharedConnect PROVE Spec => ImplementsRendezvous
<1> USE ThreadsAssumption
<1>1. Init => Peers /\ R!Init
    BY PeersInit, RendezvousInit
<1>2. TypeOK /\ ShapeInv /\ TypeOK' /\ Accounts /\ Peers /\ [Next]_vars => Peers'
    <2> SUFFICES ASSUME TypeOK, ShapeInv, TypeOK', Accounts, Peers, [Next]_vars PROVE Peers'
        OBVIOUS
    <2>1. CASE UNCHANGED vars \/ Unlink
        BY <2>1, PeersSame DEF vars, Unlink
    <2>2. ASSUME NEW p \in Threads, Does(p) PROVE Peers'
        BY <2>2, PeersStep
    <2> QED BY <2>1, <2>2, NextDoes
<1>3. TypeOK /\ Accounts => SettledInv
    BY NotLiveLimbo DEF SettledInv
<1>4. /\ TypeOK /\ ShapeInv /\ TypeOK' /\ Accounts /\ Peers /\ RemoteIsMutual /\ SettledInv'
      /\ [Next]_vars
      => [R!Next]_(R!vars)
    <2> SUFFICES ASSUME TypeOK, ShapeInv, TypeOK', Accounts, Peers, RemoteIsMutual, SettledInv',
                        [Next]_vars
                 PROVE  R!Next \/ UNCHANGED R!vars
        OBVIOUS
    <2>1. CASE UNCHANGED vars \/ Unlink
        <3>1. sock' = sock /\ th' = th
            BY <2>1 DEF vars, Unlink
        <3> QED BY <3>1 DEF R!vars, RQueue, RTaken, RPeer, Handles
    <2>2. ASSUME NEW p \in Threads, Does(p) PROVE R!Next \/ UNCHANGED R!vars
        BY <2>2, RendezvousStep
    <2> QED BY <2>1, <2>2, NextDoes
<1>5. Spec => [](TypeOK /\ ShapeInv)
    BY TypeCorrect
<1>6. Spec => []Accounts
    BY AccountsHold
<1>7. Spec => []RemoteIsMutual
    BY RemotesAreMutual
<1> QED BY <1>1, <1>2, <1>3, <1>4, <1>5, <1>6, <1>7, PTL DEF Spec, ImplementsRendezvous, R!Spec

-----------------------------------------------------------------------------
(* Sleeping and waking *)

Accepting == {"acceptAlloc", "acceptLoop", "acceptSleep", "acceptPair"}
Connecting == SetUpLocations \ {"connect", "listen"}

\* A socket that accepts listens, and one that connects does not.
ListenInv ==
    \A p \in Threads :
       /\ th[p].pc \in Accepting => "LISTENING" \in sock[th[p].s].state
       /\ th[p].pc \in Connecting => "LISTENING" \notin sock[th[p].s].state
       /\ th[p].pc = "connectStore" => "LISTENING" \notin th[p].seen

\* The accept() calls that look at the list of x.
Loopers(x) == {p \in Threads : th[p].pc = "acceptLoop" /\ th[p].s = x}

\* While one sleeps, as many look at the list as there are sockets on it.
AcceptSleepInv ==
    \A p \in Threads, x \in Socks : th[p].pc = "acceptSleep" /\ th[p].s = x =>
        Len(sock[x].connecting) <= Cardinality(Loopers(x))

ConnectSleepInv ==
    \A p \in Threads, x \in Socks :
        th[p].pc \in {"connectSleep", "lateSleep"} /\ th[p].s = x => sock[x].remote = NULL

\* The steps that do more than look do not start to sleep.
Advances(p) ==
    /\ th'[p].pc \in Accepting => th[p].pc \in Accepting /\ th'[p].s = th[p].s
    /\ th'[p].pc \in Connecting => th[p].pc \in Connecting /\ th'[p].s = th[p].s
    /\ th'[p].pc \notin {"connectStore", "acceptSleep", "connectSleep", "lateSleep"}
    /\ th'[p].pc \in {"connectRef", "connectAdd"} => th[p].pc = "connectRef" /\ th'[p].r = th[p].r

\* A call on its way out sleeps nowhere.
LEMMA LeavesAdvances ==
    ASSUME NEW p \in Threads, NEW tasks, Leaves(p, tasks) PROVE Advances(p)
<1>1. th'[p].pc \in {"user", "finish"}
    BY DEF Leaves
<1> QED BY <1>1 DEF Advances, Accepting, Connecting, SetUpLocations

\* The steps that do more than look neither sleep nor leave the loop of accept(), but to
\* take a socket.
LEMMA DoesAdvances ==
    ASSUME TypeOK, ShapeInv, Accounts, "shutdown" \notin Ops, NEW p \in Threads, Does(p), ~Looks(p)
    PROVE  Advances(p) /\ (th[p].pc = "acceptLoop" => AcceptTake(p))
<1> USE LeavesAdvances DEF At
<1>1. CASE unix_socket(p)
    BY <1>1, SocketIs
<1>2. CASE unix_socketpair(p)
    BY <1>2, SocketpairIs DEF Becomes, Advances, Accepting, Connecting, SetUpLocations
<1>3. CASE PairFails(p)
    BY <1>3, PairFailsIs
<1>4. CASE PairSecond(p)
    <2>1. th[p].new \in Socks
        BY <1>4, PairHolds
    <2>2. IsLive(th[p].new)
        BY <2>1, PointedIsLive, ThreadsAssumption DEF Accounts
    <2> QED BY <1>4, <2>2, PairSecondIs
<1>5. CASE AcceptAlloc(p)
    <2>1. th[p].pc = "acceptAlloc" /\ \E f \in Socks :
             \/ Becomes(p, "acceptLoop", th[p].s, NULL, f)
             \/ Leaves(p, <<Task("put", f), Task("put", f), Task("put", th[p].s)>>)
        BY <1>5, AcceptAllocIs
    <2>2. ASSUME NEW f, Becomes(p, "acceptLoop", th[p].s, NULL, f) PROVE Advances(p)
        BY <2>1, <2>2 DEF Becomes, Advances, Accepting, Connecting, SetUpLocations
    <2> QED BY <2>1, <2>2
<1>6. ASSUME NEW f \in open, NEW l \in {"bind", "accept", "listen", "connect"}, Enter(p, f, l)
      PROVE  Advances(p) /\ th[p].pc = "user"
    <2>1. th[p].pc = "user" /\ th'[p].pc = l
        BY <1>6, EnterIs DEF Becomes
    <2> QED BY <2>1 DEF Advances, Accepting, Connecting, SetUpLocations
<1>7. ASSUME NEW f \in open, unix_close(p, f) PROVE Advances(p) /\ th[p].pc = "user"
    <2>1. th[p].pc = "user" /\ DropTwice(p, f) /\ Found(sock[f].id) = {f}
        BY <1>7, FileFound, ThreadsAssumption DEF unix_close
    <2> QED BY <2>1, DropTwiceIs
<1>8. CASE ConnectLookup(p)
    <2>1. th[p].pc = "connectLookup"
        BY <1>8 DEF ConnectLookup
    <2>2. CASE GoesHome(p)
        BY <2>1, <2>2 DEF GoesHome
    <2>3. ASSUME NEW r, Becomes(p, "connectRemote", th[p].s, r, NULL) PROVE Advances(p)
        BY <2>1, <2>3 DEF Becomes, Advances, Accepting, Connecting, SetUpLocations
    <2> QED BY <1>8, <2>1, <2>2, <2>3, ConnectLookupIs
<1>9. CASE ConnectRef(p)
    BY <1>9, ConnectRefIs DEF SameRefs, Advances, Accepting, Connecting, SetUpLocations
<1>10. CASE ConnectAdd(p)
    BY <1>10, ConnectAddIs DEF SameRefs, Advances, Accepting, Connecting, SetUpLocations
<1>11. CASE ConnectUnlink(p)
    <2>1. th[p].pc = "connectUnlink"
        BY <1>11 DEF ConnectUnlink
    <2>2. CASE GoesOn(p)
        <3>1. th'[p].pc = "lateLoop" /\ th'[p].s = th[p].s
            BY <1>11, <2>2, UnlinkMoves DEF GoesOn, SameRefs
        <3> QED BY <2>1, <3>1 DEF Advances, Accepting, Connecting, SetUpLocations
    <2> QED BY <1>11, <2>1, <2>2, ConnectUnlinkIs
<1>12. CASE AcceptTake(p)
    BY <1>12, AcceptTakeIs DEF Becomes, Advances, Accepting, Connecting, SetUpLocations
<1>13. CASE AcceptPair(p)
    BY <1>13, AcceptPairIs
<1>14. CASE Puts(p)
    BY <1>14, PutIs, PutLastIs DEF Puts
<1>15. CASE DetachesOne(p)
    BY <1>15, DetachIs DEF DetachesOne
<1>16. CASE Frees(p)
    BY <1>16, FreeIs DEF Frees
<1>17. CASE Opens(p)
    BY <1>17, FileOpenIs DEF Opens
<1> QED BY <1>1, <1>2, <1>3, <1>4, <1>5, <1>6, <1>7, <1>8, <1>9, <1>10, <1>11, <1>12, <1>13, <1>14,
           <1>15, <1>16, <1>17 DEF Does

\* Nor do they change who listens, nor queue a socket but in connect(), nor give one a peer
\* but in accept() and in socketpair().
LEMMA DoesSocks ==
    ASSUME TypeOK, ShapeInv, Accounts, Peers, "shutdown" \notin Ops, NEW p \in Threads, Does(p), ~Looks(p),
           NEW x \in Socks, IsLive(x)
    PROVE  /\ "LISTENING" \in sock'[x].state <=> "LISTENING" \in sock[x].state
           /\ ~ConnectAdd(p) => Len(sock'[x].connecting) <= Len(sock[x].connecting)
           /\ \/ sock'[x].remote \in {sock[x].remote, NULL}
              \/ x = th[p].new
              \/ AcceptPair(p) /\ x = th[p].r
<1> USE DEF At
<1>0. sock[x].connecting \in Seq(Socks) /\ Len(sock[x].connecting) \in Nat
    BY ListType
<1>1. ASSUME sock'[x].state = sock[x].state, sock'[x].remote = sock[x].remote,
             sock'[x].connecting = sock[x].connecting
      PROVE  /\ "LISTENING" \in sock'[x].state <=> "LISTENING" \in sock[x].state
             /\ ~ConnectAdd(p) => Len(sock'[x].connecting) <= Len(sock[x].connecting)
             /\ \/ sock'[x].remote \in {sock[x].remote, NULL}
                \/ x = th[p].new
                \/ AcceptPair(p) /\ x = th[p].r
    BY <1>0, <1>1
<1>2. ASSUME NEW f, NEW i, Allocates(f, i)
      PROVE  x # f /\ sock'[x].state = sock[x].state /\ sock'[x].connecting = sock[x].connecting
    BY <1>2 DEF Allocates, IsLive
<1>3. ASSUME NEW s, NEW n, Counts(s, n)
      PROVE  /\ sock'[x].state = sock[x].state /\ sock'[x].remote = sock[x].remote
             /\ sock'[x].connecting = sock[x].connecting
    BY <1>3 DEF Counts
<1>4. CASE unix_socket(p) \/ unix_socketpair(p) \/ AcceptAlloc(p)
    <2>1. PICK f, i : Allocates(f, i) /\ RemotesSame(f)
        BY <1>4, SocketIs, SocketpairIs, AcceptAllocIs
    <2>2. x # f /\ sock'[x].state = sock[x].state /\ sock'[x].connecting = sock[x].connecting
        BY <1>2, <2>1
    <2> QED BY <1>1, <2>1, <2>2 DEF RemotesSame
<1>5. CASE PairFails(p) \/ Opens(p)
    BY <1>1, <1>5, PairFailsIs DEF Opens
<1>6. CASE PairSecond(p)
    <2>1. th[p].new \in Socks
        BY <1>6, PairHolds
    <2>2. IsLive(th[p].new)
        BY <2>1, PointedIsLive, ThreadsAssumption DEF Accounts
    <2>3. PICK f, i :
             /\ Allocates(f, i)
             /\ \/ \A y \in Socks : sock'[y].remote = IF y = th[p].new THEN f
                                      ELSE IF y = f THEN th[p].new ELSE sock[y].remote
                \/ RemotesSame(f)
        BY <1>6, <2>2, PairSecondIs, ZenonT(60)
    <2>4. x # f /\ sock'[x].state = sock[x].state /\ sock'[x].connecting = sock[x].connecting
        BY <1>2, <2>3
    <2>5. sock'[x].remote = sock[x].remote \/ x = th[p].new
        BY <2>3, <2>4 DEF RemotesSame
    <2> QED BY <1>0, <2>4, <2>5
<1>7. CASE \E f \in open, l \in {"bind", "accept", "listen", "connect"} : Enter(p, f, l)
    BY <1>1, <1>3, <1>7, EnterIs
<1>8. CASE \E f \in open : unix_close(p, f)
    <2>1. PICK f \in open : unix_close(p, f)
        BY <1>8
    <2>2. th[p].pc = "user" /\ DropTwice(p, f)
        BY <2>1 DEF unix_close
    <2> QED BY <1>1, <1>3, <2>2, DropTwiceIs
<1>9. CASE ConnectLookup(p)
    BY <1>1, <1>3, <1>9, ConnectLookupIs
<1>10. CASE ConnectRef(p)
    BY <1>1, <1>3, <1>10, ConnectRefIs
<1>11. CASE ConnectAdd(p)
    BY <1>11, ConnectAddIs DEF Lists
<1>12. CASE ConnectUnlink(p)
    <2> DEFINE r == th[p].r
               q == sock[r].connecting
    <2>1. CASE UNCHANGED sock
        BY <1>1, <2>1
    <2>2. ASSUME r \in Socks, NEW i \in DOMAIN q, Lists(r, RemoveAt(q, i))
          PROVE  /\ sock'[x].state = sock[x].state /\ sock'[x].remote = sock[x].remote
                 /\ Len(sock'[x].connecting) <= Len(sock[x].connecting)
        <3>1. q \in Seq(Socks)
            BY <2>2, ListType
        <3>2. Len(RemoveAt(q, i)) <= Len(q)
            <4> HIDE DEF q
            <4>1. /\ SubSeq(q, 1, i - 1) \in Seq(Socks) /\ Len(SubSeq(q, 1, i - 1)) = i - 1
                  /\ SubSeq(q, i + 1, Len(q)) \in Seq(Socks)
                  /\ Len(SubSeq(q, i + 1, Len(q))) = Len(q) - i
                BY <2>2, <3>1
            <4>2. Len(SubSeq(q, 1, i - 1) \o SubSeq(q, i + 1, Len(q))) = (i - 1) + (Len(q) - i)
                BY <4>1
            <4>3. Len(q) \in Nat /\ i \in 1..Len(q)
                BY <2>2, <3>1
            <4> QED BY <4>2, <4>3 DEF RemoveAt
        <3>3. sock'[x].connecting = IF x = r THEN RemoveAt(q, i) ELSE sock[x].connecting
            BY <2>2 DEF Lists
        <3>4. Len(sock'[x].connecting) <= Len(sock[x].connecting)
            BY <1>0, <3>2, <3>3
        <3> QED BY <2>2, <3>4 DEF Lists
    <2> QED BY <1>12, <2>1, <2>2, ConnectUnlinkIs, ZenonT(60)
<1>13. CASE AcceptTake(p)
    <2> DEFINE s == th[p].s
               q == sock[s].connecting
    <2>1. s \in Socks /\ q # <<>> /\ Lists(s, Tail(q))
        BY <1>13, AcceptTakeIs
    <2>2. q \in Seq(Socks)
        BY <2>1, ListType
    <2>3. Len(Tail(q)) <= Len(q)
        <3> HIDE DEF q
        <3> QED BY <2>1, <2>2
    <2>4. sock'[x].connecting = IF x = s THEN Tail(q) ELSE sock[x].connecting
        BY <2>1 DEF Lists
    <2>5. Len(sock'[x].connecting) <= Len(sock[x].connecting)
        BY <1>0, <2>3, <2>4
    <2> QED BY <2>1, <2>5 DEF Lists
<1>14. CASE AcceptPair(p)
    <2>1. /\ sock'[x].connecting = sock[x].connecting
          /\ sock'[x].state = sock[x].state \/ sock'[x].state = sock[x].state \ {"PEER_CLOSED", "CONNECTING"}
          /\ x = th[p].new \/ x = th[p].r \/ sock'[x].remote = sock[x].remote
        BY <1>14, AcceptPairIs, ZenonT(60)
    <2>2. "LISTENING" \in sock'[x].state <=> "LISTENING" \in sock[x].state
        BY <2>1
    <2> QED BY <1>0, <1>14, <2>1, <2>2
<1>15. CASE Puts(p)
    <2> DEFINE s == Head(th[p].todo).s
    <2>1. CASE sock[s].refs > 1
        BY <1>1, <1>3, <1>15, <2>1, PutIs DEF Puts
    <2>2. CASE ~(sock[s].refs > 1)
        <3>1. Orphans(s)
            BY <1>15, <2>2, PutLastIs DEF Puts
        <3> HIDE DEF s
        <3>4. /\ sock'[x].connecting = <<>> \/ sock'[x].connecting = sock[x].connecting
              /\ sock'[x].remote = sock[x].remote \/ sock'[x].remote = NULL
            BY <3>1, ZenonT(60) DEF Orphans
        <3>5. sock'[x].state = sock[x].state \/ sock'[x].state = sock[x].state \cup {"PEER_CLOSED"}
            BY <3>1, ZenonT(60) DEF Orphans
        <3>2. /\ sock'[x].connecting \in {<<>>, sock[x].connecting}
              /\ sock'[x].remote \in {sock[x].remote, NULL}
              /\ "LISTENING" \in sock'[x].state <=> "LISTENING" \in sock[x].state
            BY <3>4, <3>5
        <3>3. Len(sock'[x].connecting) <= Len(sock[x].connecting)
            BY <1>0, <3>2
        <3> QED BY <3>2, <3>3
    <2> QED BY <2>1, <2>2
<1>16. CASE DetachesOne(p)
    <2>1. /\ SameSocks
          /\ \/ sock'[x].state = sock[x].state
             \/ sock'[x].state = (sock[x].state \cup {"PEER_CLOSED"}) \ {"CONNECTING"}
        BY <1>16, DetachIs, ZenonT(60) DEF DetachesOne
    <2>2. "LISTENING" \in sock'[x].state <=> "LISTENING" \in sock[x].state
        BY <2>1
    <2> QED BY <1>0, <2>1, <2>2 DEF SameSocks
<1>17. CASE Frees(p)
    <2> DEFINE s == Head(th[p].todo).s
    <2>1. /\ Head(th[p].todo).op = "free" /\ \A y \in Socks \ {s} : sock'[y] = sock[y]
          /\ th[p].todo \in Seq(Tasks) /\ th[p].todo # <<>> /\ s \in Socks
        BY <1>17, FreeIs, FinishType DEF Frees
    <2>2. 1 \in DOMAIN th[p].todo /\ th[p].todo[1] = Head(th[p].todo)
        BY <2>1
    <2>3. Gone(s)
        BY <2>1, <2>2 DEF Accounts, FreeInv, FreeOnly
    <2>4. x # s
        BY <2>3 DEF Gone, IsLive
    <2>5. sock'[x] = sock[x]
        BY <2>1, <2>4
    <2> QED BY <1>1, <2>5
<1> QED BY <1>4, <1>5, <1>6, <1>7, <1>8, <1>9, <1>10, <1>11, <1>12, <1>13, <1>14, <1>15, <1>16,
           <1>17 DEF Does

\* The step of a thread keeps that a socket with an accept() on it listens, and that one
\* with a connect() past its checks does not.
LEMMA ListenKeeps ==
    ASSUME TypeOK, ShapeInv, Accounts, Peers, ListenInv, "shutdown" \notin Ops,
           NEW p \in Threads, Does(p)
    PROVE  ListenInv'
<1> USE ThreadsAssumption, SocksType
<1>0. Others(p)
    BY DoesOthers
<1>1. SUFFICES ASSUME NEW q \in Threads
      PROVE  /\ th'[q].pc \in Accepting => "LISTENING" \in sock'[th'[q].s].state
             /\ th'[q].pc \in Connecting => "LISTENING" \notin sock'[th'[q].s].state
             /\ th'[q].pc = "connectStore" => "LISTENING" \notin th'[q].seen
    BY DEF ListenInv
<1>2. th[q].pc \in Accepting \cup Connecting => th[q].s \in Socks /\ IsLive(th[q].s)
    <2>1. th[q].pc \in Accepting \cup Connecting => th[q].pc \in OnSocket
        BY DEF Accepting, Connecting, OnSocket, AcceptLocations
    <2>2. th[q].pc \in OnSocket => th[q].s \in Socks
        BY DEF TypeOK, Calls, ShapeInv, Shape
    <2> QED BY <2>1, <2>2, PointedIsLive DEF Accounts
<1>3. q # p => /\ th'[q].s = th[q].s /\ th'[q].seen = th[q].seen
               /\ th'[q].pc \in Accepting <=> th[q].pc \in Accepting
               /\ th'[q].pc \in Connecting <=> th[q].pc \in Connecting
               /\ th'[q].pc = "connectStore" <=> th[q].pc = "connectStore"
    BY <1>0 DEF Others, SameRefs, Wakes, Accepting, Connecting, SetUpLocations
<1>4. CASE ~Looks(p)
    <2>1. Advances(p)
        BY <1>4, DoesAdvances
    <2>2. /\ th'[q].pc \in Accepting => th[q].pc \in Accepting /\ th'[q].s = th[q].s
          /\ th'[q].pc \in Connecting => th[q].pc \in Connecting /\ th'[q].s = th[q].s
          /\ th'[q].pc = "connectStore" => th[q].pc = "connectStore" /\ th'[q].seen = th[q].seen
        BY <1>3, <2>1 DEF Advances
    <2>3. \A x \in Socks : IsLive(x) => ("LISTENING" \in sock'[x].state <=> "LISTENING" \in sock[x].state)
        BY <1>4, DoesSocks
    <2> QED BY <1>2, <2>2, <2>3, ZenonT(60) DEF ListenInv
<1>5. CASE Looks(p)
    <2>1. Lands(p) /\ Marks(p) /\ Quiet(p)
        BY <1>5, LooksLand, LooksQuiet
    <2> DEFINE s == th[p].s
    <2>2. th[p].pc = "connectStore" => "LISTENING" \notin th[p].seen
        BY DEF ListenInv
    <2>3. ASSUME NEW x \in Socks
          PROVE  /\ \/ "LISTENING" \in sock'[x].state <=> "LISTENING" \in sock[x].state
                    \/ x = s /\ th[p].pc \in {"listen", "connectStore"}
                 /\ x = s /\ th[p].pc = "connectStore" => "LISTENING" \notin sock'[x].state
                 /\ x = s /\ th[p].pc = "listen" =>
                      ("LISTENING" \in sock[x].state => "LISTENING" \in sock'[x].state)
        <3>1. CASE sock'[x].state = sock[x].state /\ (x = s => th[p].pc # "connectStore")
            BY <3>1
        <3>2. CASE x = s /\ th[p].pc = "bindCreate" /\ sock'[x].state = sock[x].state \cup {"BOUND"}
            BY <3>2
        <3>3. CASE x = s /\ th[p].pc = "listen" /\ sock'[x].state = sock[x].state \cup {"LISTENING"}
            BY <3>3
        <3>4. CASE x = s /\ th[p].pc = "connectStore" /\ sock'[x].state = th[p].seen \cup {"CONNECTING"}
            BY <2>2, <3>4
        <3>5. CASE x = s /\ th[p].pc = "connectSleep" /\ sock'[x].state = sock[x].state \ {"CONNECTING"}
            BY <3>5
        <3> QED BY <2>1, <3>1, <3>2, <3>3, <3>4, <3>5 DEF Marks
    <2>4. CASE q # p
        <3>1. th[q].pc \in Accepting =>
                 /\ "LISTENING" \in sock[th[q].s].state
                 /\ th[q].s = s => th[p].pc # "connectStore"
            BY <2>3, <1>2 DEF ListenInv, Connecting, SetUpLocations
        <3>2. th[q].pc \in Connecting =>
                 /\ "LISTENING" \notin sock[th[q].s].state
                 /\ (th[q].s = s => th[p].pc \notin {"listen", "connectStore"})
            BY <1>2, <2>4, ZenonT(60) DEF ListenInv, Peers, SetUpInv, Connecting, SetUpLocations
        <3>3. th[q].pc = "connectStore" => "LISTENING" \notin th[q].seen
            BY DEF ListenInv
        <3>4. th'[q].pc \in Accepting => "LISTENING" \in sock'[th'[q].s].state
            BY <1>2, <1>3, <2>3, <2>4, <3>1
        <3>5. th'[q].pc \in Connecting => "LISTENING" \notin sock'[th'[q].s].state
            BY <1>2, <1>3, <2>3, <2>4, <3>2
        <3> QED BY <1>3, <2>4, <3>3, <3>4, <3>5
    <2>5. CASE q = p
        <3>1. CASE GoesHome(p)
            BY <2>5, <3>1, LeavesAdvances DEF GoesHome, Leaves, Accepting, Connecting, SetUpLocations
        <3>2. CASE GoesOn(p)
            <4>1. th'[p].s = s /\ s \in Socks
                BY <3>2 DEF GoesOn, SameRefs, SameKind, TypeOK, Calls, ShapeInv, Shape
            <4>2. th'[p].s # NULL
                BY <4>1
            <4>3. th'[p].pc \in Accepting =>
                     "LISTENING" \in sock[s].state /\ th[p].pc \notin {"listen", "connectStore"}
                BY <2>1, <4>2 DEF Lands, Accepting, ListenInv
            <4>4. th'[p].pc \in Connecting =>
                     "LISTENING" \notin sock[s].state /\ th[p].pc # "listen"
                BY <2>1, <4>2 DEF Lands, Connecting, SetUpLocations, ListenInv
            <4>5. th'[p].pc = "connectStore" => "LISTENING" \notin th'[p].seen
                BY <2>1, <4>2 DEF Lands, Connecting, SetUpLocations, ListenInv
            <4> QED BY <2>3, <2>5, <4>1, <4>3, <4>4, <4>5
        <3> QED BY <2>1, <3>1, <3>2 DEF Quiet
    <2> QED BY <2>4, <2>5
<1> QED BY <1>4, <1>5

\* The threads on their way to look at a list are finitely many.
LEMMA LoopersFinite ==
    ASSUME NEW x PROVE IsFiniteSet(Loopers(x)) /\ Cardinality(Loopers(x)) \in Nat
<1>1. Loopers(x) \subseteq Threads
    BY DEF Loopers
<1> QED BY <1>1, ThreadsAssumption, FS_Subset, FS_CardinalityType

\* The same after the step.
LEMMA LoopersNext ==
    ASSUME NEW x
    PROVE  /\ Loopers(x)' = {q \in Threads : th'[q].pc = "acceptLoop" /\ th'[q].s = x}
           /\ IsFiniteSet(Loopers(x)') /\ Cardinality(Loopers(x)') \in Nat
<1>1. Loopers(x)' = {q \in Threads : th'[q].pc = "acceptLoop" /\ th'[q].s = x}
    BY DEF Loopers
<1>2. Loopers(x)' \subseteq Threads
    BY <1>1
<1> QED BY <1>1, <1>2, ThreadsAssumption, FS_Subset, FS_CardinalityType

\* A socket is queued: an accept() that sleeps on the listener looks at the list again.
LEMMA ConnectAddWakes ==
    ASSUME TypeOK, ShapeInv, TypeOK', Accounts, Peers, ListenInv, AcceptSleepInv,
           NEW p \in Threads, ConnectAdd(p), NEW q \in Threads, NEW x \in Socks,
           th'[q].pc = "acceptSleep", th'[q].s = x
    PROVE  Len(sock'[x].connecting) <= Cardinality(Loopers(x)')
<1> DEFINE r == th[p].r
           s == th[p].s
<1>1. /\ th[p].pc = "connectAdd" /\ th'[p].pc = "connectMark" /\ Others(p)
      /\ r \in Socks /\ s \in Socks
      /\ Lists(r, Append(sock[r].connecting, s)) /\ Woken(r)
    BY ConnectAddIs DEF At
<1>2. q # p /\ th[q].pc = "acceptSleep" /\ th[q].s = x
    BY <1>1 DEF Others, SameRefs, Wakes
<1>3. Len(sock[x].connecting) <= Cardinality(Loopers(x))
    BY <1>2 DEF AcceptSleepInv
<1>4. Loopers(x) \subseteq Loopers(x)'
    <2>1. ASSUME NEW y \in Loopers(x) PROVE y \in Loopers(x)'
        <3>1. y \in Threads /\ th[y].pc = "acceptLoop" /\ th[y].s = x
            BY DEF Loopers
        <3>2. th'[y].pc = "acceptLoop" /\ th'[y].s = x
            BY <1>1, <3>1 DEF Others, SameRefs, Wakes
        <3> QED BY <3>1, <3>2, LoopersNext
    <2> QED BY <2>1
<1>5. /\ IsFiniteSet(Loopers(x)') /\ Cardinality(Loopers(x)') \in Nat
      /\ IsFiniteSet(Loopers(x)) /\ Cardinality(Loopers(x)) \in Nat
    BY LoopersFinite, LoopersNext
<1>6. sock[x].connecting \in Seq(Socks) /\ Len(sock[x].connecting) \in Nat
    BY ListType
<1>7. CASE x # r
    <2>1. sock'[x].connecting = sock[x].connecting
        BY <1>1, <1>7 DEF Lists
    <2>2. Cardinality(Loopers(x)) <= Cardinality(Loopers(x)')
        BY <1>4, <1>5, FS_Subset
    <2> QED BY <1>3, <1>5, <1>6, <2>1, <2>2
<1>8. CASE x = r
    <2>1. Len(sock'[x].connecting) = Len(sock[x].connecting) + 1
        <3>1. sock'[x].connecting = Append(sock[x].connecting, s)
            BY <1>1, <1>8, ZenonT(60) DEF Lists
        <3> QED BY <1>1, <1>6, <3>1
    <2>2. Asleep(q, x)
        BY <1>2 DEF Asleep
    <2>3. PICK y \in Threads : Asleep(y, x) /\ th'[y].pc = Awake(th[y].pc)
        BY <1>1, <1>8, <2>2 DEF Woken
    <2>4. th[y].pc = "acceptSleep" /\ th[y].s = x
        <3>1. "LISTENING" \in sock[x].state
            BY <1>2 DEF ListenInv, Accepting
        <3>2. th[y].pc \notin Connecting
            BY <2>3, <3>1 DEF ListenInv, Asleep
        <3> QED BY <2>3, <3>2 DEF Asleep, Connecting, SetUpLocations
    <2>5. th'[y].pc = "acceptLoop" /\ th'[y].s = x /\ y # p
        BY <1>1, <2>3, <2>4 DEF Awake, Others, SameRefs
    <2>6. y \in Loopers(x)' /\ y \notin Loopers(x)
        BY <2>4, <2>5, LoopersNext DEF Loopers
    <2>7. Loopers(x) \cup {y} \subseteq Loopers(x)'
        BY <1>4, <2>6
    <2>8. IsFiniteSet(Loopers(x) \cup {y}) /\ Cardinality(Loopers(x) \cup {y}) = Cardinality(Loopers(x)) + 1
        BY <1>5, <2>6, FS_AddElement
    <2>9. Cardinality(Loopers(x) \cup {y}) <= Cardinality(Loopers(x)')
        BY <1>5, <2>7, FS_Subset
    <2> QED BY <1>3, <1>5, <1>6, <2>1, <2>8, <2>9
<1> QED BY <1>7, <1>8

\* A socket is taken: one socket less, and one accept() less that looks at the list.
LEMMA AcceptTakeWakes ==
    ASSUME TypeOK, ShapeInv, TypeOK', AcceptSleepInv,
           NEW p \in Threads, AcceptTake(p), NEW q \in Threads, NEW x \in Socks,
           th'[q].pc = "acceptSleep", th'[q].s = x
    PROVE  Len(sock'[x].connecting) <= Cardinality(Loopers(x)')
<1> DEFINE s == th[p].s
           l == sock[s].connecting
<1>1. /\ th[p].pc = "acceptLoop" /\ th'[p].pc = "acceptPair" /\ Others(p)
      /\ s \in Socks /\ l # <<>> /\ Lists(s, Tail(l))
    BY AcceptTakeIs DEF At, Becomes
<1>2. q # p /\ th[q].pc = "acceptSleep" /\ th[q].s = x
    BY <1>1 DEF Others, SameRefs, Wakes
<1>3. Len(sock[x].connecting) <= Cardinality(Loopers(x))
    BY <1>2 DEF AcceptSleepInv
<1>4. Loopers(x) \ {p} \subseteq Loopers(x)'
    <2>1. ASSUME NEW y \in Loopers(x) \ {p} PROVE y \in Loopers(x)'
        <3>1. y \in Threads /\ th[y].pc = "acceptLoop" /\ th[y].s = x
            BY DEF Loopers
        <3>2. th'[y].pc = "acceptLoop" /\ th'[y].s = x
            BY <1>1, <2>1, <3>1 DEF Others, SameRefs, Wakes
        <3> QED BY <3>1, <3>2, LoopersNext
    <2> QED BY <2>1
<1>5. /\ IsFiniteSet(Loopers(x)') /\ Cardinality(Loopers(x)') \in Nat
      /\ IsFiniteSet(Loopers(x)) /\ Cardinality(Loopers(x)) \in Nat
    BY LoopersFinite, LoopersNext
<1>6. sock[x].connecting \in Seq(Socks) /\ Len(sock[x].connecting) \in Nat
    BY ListType
<1>7. CASE x # s
    <2>1. sock'[x].connecting = sock[x].connecting
        BY <1>1, <1>7 DEF Lists
    <2>2. p \notin Loopers(x)
        BY <1>7 DEF Loopers
    <2>3. Cardinality(Loopers(x)) <= Cardinality(Loopers(x)')
        BY <1>4, <1>5, <2>2, FS_Subset
    <2> QED BY <1>3, <1>5, <1>6, <2>1, <2>3
<1>8. CASE x = s
    <2>1. Len(sock'[x].connecting) = Len(sock[x].connecting) - 1
        <3>1. sock'[x].connecting = Tail(sock[x].connecting) /\ sock[x].connecting # <<>>
            BY <1>1, <1>8 DEF Lists
        <3> QED BY <1>6, <3>1
    <2>2. p \in Loopers(x)
        BY <1>1, <1>8 DEF Loopers
    <2>3. IsFiniteSet(Loopers(x) \ {p}) /\ Cardinality(Loopers(x) \ {p}) = Cardinality(Loopers(x)) - 1
        BY <1>5, <2>2, FS_RemoveElement
    <2>4. Cardinality(Loopers(x) \ {p}) <= Cardinality(Loopers(x)')
        BY <1>4, <1>5, FS_Subset
    <2> QED BY <1>3, <1>5, <1>6, <2>1, <2>3, <2>4
<1> QED BY <1>7, <1>8

\* No step leaves an accept() asleep over a list with more sockets on it than there are
\* threads that will look at it: unix_connect wakes one for each.
LEMMA AcceptSleepKeeps ==
    ASSUME TypeOK, ShapeInv, TypeOK', Accounts, Peers, ListenInv, AcceptSleepInv,
           "shutdown" \notin Ops, NEW p \in Threads, Does(p)
    PROVE  AcceptSleepInv'
<1> USE ThreadsAssumption
<1>0. Others(p)
    BY DoesOthers
<1>1. SUFFICES ASSUME NEW q \in Threads, NEW x \in Socks, th'[q].pc = "acceptSleep", th'[q].s = x
      PROVE  Len(sock'[x].connecting) <= Cardinality(Loopers(x)')
    BY DEF AcceptSleepInv, Loopers
<1>2. CASE ConnectAdd(p)
    BY <1>1, <1>2, ConnectAddWakes
<1>3. CASE AcceptTake(p)
    BY <1>1, <1>3, AcceptTakeWakes
<1>4. /\ IsFiniteSet(Loopers(x)') /\ Cardinality(Loopers(x)') \in Nat
      /\ IsFiniteSet(Loopers(x)) /\ Cardinality(Loopers(x)) \in Nat
    BY LoopersFinite, LoopersNext
<1>5. sock[x].connecting \in Seq(Socks) /\ Len(sock[x].connecting) \in Nat
    BY ListType
\* Nobody else stops to look.
<1>6. ASSUME th[p].pc # "acceptLoop" \/ th[p].s # x,
             q # p, IsLive(x) => Len(sock'[x].connecting) <= Len(sock[x].connecting)
      PROVE  Len(sock'[x].connecting) <= Cardinality(Loopers(x)')
    <2>1. th[q].pc = "acceptSleep" /\ th[q].s = x
        BY <1>0, <1>1, <1>6 DEF Others, SameRefs, Wakes
    <2>2. IsLive(x)
        BY <2>1, PointedIsLive DEF Accounts
    <2>3. Len(sock[x].connecting) <= Cardinality(Loopers(x))
        BY <2>1 DEF AcceptSleepInv
    <2>4. Loopers(x) \subseteq Loopers(x)'
        <3>1. ASSUME NEW y \in Loopers(x) PROVE y \in Loopers(x)'
            <4>1. y \in Threads /\ th[y].pc = "acceptLoop" /\ th[y].s = x
                BY DEF Loopers
            <4>2. th'[y].pc = "acceptLoop" /\ th'[y].s = x
                BY <1>0, <1>6, <4>1 DEF Others, SameRefs, Wakes
            <4> QED BY <4>1, <4>2, LoopersNext
        <3> QED BY <3>1
    <2>5. Cardinality(Loopers(x)) <= Cardinality(Loopers(x)')
        BY <1>4, <2>4, FS_Subset
    <2>6. Len(sock'[x].connecting) \in Nat
        <3>1. sock'[x].connecting \in Seq(Socks)
            BY DEF TypeOK, Sockets
        <3> QED BY <3>1
    <2> QED BY <1>4, <1>5, <1>6, <2>2, <2>3, <2>5, <2>6
<1>7. CASE Looks(p)
    <2>1. Lands(p) /\ Quiet(p)
        BY <1>7, LooksLand, LooksQuiet
    <2>2. sock'[x].connecting = sock[x].connecting
        BY <2>1 DEF Quiet, SameSocks
    <2>3. CASE th[p].pc = "acceptLoop" /\ th[p].s = x
        <3>1. th'[p].s # NULL
            <4>1. GoesOn(p)
                BY <2>1, <2>3 DEF Quiet, GoesHome, OnNew
            <4> QED BY <2>3, <4>1, SocksType DEF GoesOn, SameRefs
        <3>2. sock[x].connecting = <<>>
            BY <2>1, <2>3, <3>1 DEF Lands
        <3> QED BY <1>4, <2>2, <3>2
    <2>4. CASE th[p].pc # "acceptLoop" \/ th[p].s # x
        <3>1. q # p
            <4>1. th'[p].pc = "acceptSleep" => th[p].pc = "acceptLoop" /\ th'[p].s = th[p].s
                <5>1. th'[p].pc = "acceptSleep" => GoesOn(p)
                    BY <2>1 DEF Quiet, GoesHome, Leaves
                <5>2. GoesOn(p) => th'[p].s # NULL /\ th'[p].s = th[p].s
                    BY DEF GoesOn, SameRefs, SameKind, ShapeInv, Shape
                <5> QED BY <2>1, <5>1, <5>2 DEF Lands
            <4> QED BY <1>1, <2>4, <4>1
        <3> QED BY <1>5, <1>6, <2>2, <2>4, <3>1
    <2> QED BY <2>3, <2>4
<1>8. CASE ~Looks(p) /\ ~ConnectAdd(p) /\ ~AcceptTake(p)
    <2>1. Advances(p) /\ th[p].pc # "acceptLoop"
        BY <1>8, DoesAdvances
    <2>2. q # p
        BY <1>1, <2>1 DEF Advances
    <2>3. IsLive(x) => Len(sock'[x].connecting) <= Len(sock[x].connecting)
        BY <1>8, DoesSocks
    <2> QED BY <1>6, <2>1, <2>2, <2>3
<1> QED BY <1>2, <1>3, <1>7, <1>8

\* accept() wakes the connect() that sleeps on the socket it gives a peer.
LEMMA ConnectSleepKeeps ==
    ASSUME TypeOK, ShapeInv, Accounts, Peers, ListenInv, ConnectSleepInv,
           "shutdown" \notin Ops, NEW p \in Threads, Does(p)
    PROVE  ConnectSleepInv'
<1> USE ThreadsAssumption
<1>0. Others(p)
    BY DoesOthers
<1>1. SUFFICES ASSUME NEW q \in Threads, NEW x \in Socks,
                      th'[q].pc \in {"connectSleep", "lateSleep"}, th'[q].s = x
      PROVE  sock'[x].remote = NULL
    BY DEF ConnectSleepInv
<1>2. q # p => /\ th[q].pc = th'[q].pc /\ th[q].s = x /\ sock[x].remote = NULL /\ IsLive(x)
               /\ th[p].new # x
    <2>1. q # p => th[q].pc = th'[q].pc /\ th[q].s = x
        BY <1>0, <1>1 DEF Others, SameRefs, Wakes
    <2>2. th[q].s = x => IsLive(x) /\ th[p].new # x
        BY PointedIsLive DEF Accounts, Peers, NewInv
    <2> QED BY <1>1, <2>1, <2>2 DEF ConnectSleepInv
<1>3. CASE Looks(p)
    <2>1. Lands(p) /\ Quiet(p)
        BY <1>3, LooksLand, LooksQuiet
    <2>2. sock'[x].remote = sock[x].remote
        BY <2>1 DEF Quiet, SameSocks
    <2>3. CASE q = p
        <3>1. GoesOn(p)
            BY <1>1, <2>1, <2>3 DEF Quiet, GoesHome, Leaves
        <3>2. th'[p].s # NULL /\ th'[p].s = th[p].s
            BY <3>1 DEF GoesOn, SameRefs, SameKind, ShapeInv, Shape
        <3>3. sock[th[p].s].remote = NULL
            BY <1>1, <2>1, <2>3, <3>2 DEF Lands
        <3> QED BY <1>1, <2>2, <2>3, <3>2, <3>3
    <2> QED BY <1>2, <2>2, <2>3
<1>4. CASE ~Looks(p)
    <2>1. q # p
        BY <1>1, <1>4, DoesAdvances DEF Advances
    <2>2. \/ sock'[x].remote \in {sock[x].remote, NULL}
          \/ AcceptPair(p) /\ x = th[p].r
        BY <1>2, <1>4, <2>1, DoesSocks
    <2>3. ~(AcceptPair(p) /\ x = th[p].r)
        <3> SUFFICES ASSUME AcceptPair(p), x = th[p].r PROVE FALSE
            OBVIOUS
        <3>1. Woken(x)
            BY AcceptPairIs
        <3>2. Asleep(q, x) /\ th[q].pc \in Connecting
            BY <1>1, <1>2, <2>1 DEF Asleep, Connecting, SetUpLocations
        <3>3. PICK y \in Threads : Asleep(y, x) /\ th'[y].pc = Awake(th[y].pc)
            BY <3>1, <3>2 DEF Woken
        <3>4. th[y].pc # "acceptSleep"
            <4>1. "LISTENING" \notin sock[x].state
                BY <1>2, <2>1, <3>2 DEF ListenInv
            <4> QED BY <3>3, <4>1 DEF ListenInv, Accepting, Asleep
        <3>5. th[y].s = x /\ th[y].pc \in SetUpLocations
            BY <3>3, <3>4 DEF Asleep, SetUpLocations
        <3>6. y = q
            BY <1>2, <2>1, <3>2, <3>5 DEF Peers, SetUpInv, Connecting
        <3>7. th'[q].pc \in {"connectLoop", "lateLoop"}
            BY <3>3, <3>4, <3>6 DEF Asleep, Awake
        <3> QED BY <1>1, <3>7
    <2> QED BY <1>2, <2>1, <2>2, <2>3
<1> QED BY <1>3, <1>4

\* No wakeup is lost between connect() and accept(): whoever sleeps on a listener with a
\* connection waiting, or in connect() on an accepted socket, has a wakeup on its way.
THEOREM NoWakeupIsLost ==
    ASSUME "shutdown" \notin Ops, ~SharedConnect PROVE Spec => []NoLostWakeup
<1> USE ThreadsAssumption
<1> DEFINE Inv == Peers /\ ListenInv /\ AcceptSleepInv /\ ConnectSleepInv
<1>1. Init => Inv
    <2>1. Init => \A p \in Threads : th[p].pc = "user"
        BY DEF Init, User
    <2>2. Init => ListenInv /\ AcceptSleepInv /\ ConnectSleepInv
        BY <2>1 DEF ListenInv, Accepting, Connecting, SetUpLocations, AcceptSleepInv, ConnectSleepInv
    <2> QED BY <2>2, PeersInit
<1>2. TypeOK /\ ShapeInv /\ TypeOK' /\ Accounts /\ Inv /\ [Next]_vars => Inv'
    <2> SUFFICES ASSUME TypeOK, ShapeInv, TypeOK', Accounts, Inv, [Next]_vars PROVE Inv'
        OBVIOUS
    <2>1. CASE UNCHANGED vars \/ Unlink
        <3>1. sock' = sock /\ th' = th
            BY <2>1 DEF vars, Unlink
        <3>2. Peers'
            BY <3>1, PeersSame
        <3>3. ListenInv' /\ AcceptSleepInv' /\ ConnectSleepInv'
            BY <3>1 DEF ListenInv, AcceptSleepInv, ConnectSleepInv, Loopers
        <3> QED BY <3>2, <3>3
    <2>2. ASSUME NEW p \in Threads, Does(p) PROVE Inv'
        BY <2>2, PeersStep, ListenKeeps, AcceptSleepKeeps, ConnectSleepKeeps
    <2> QED BY <2>1, <2>2, NextDoes
<1>3. TypeOK /\ ShapeInv /\ Inv => NoLostWakeup
    <2> SUFFICES ASSUME TypeOK, ShapeInv, Inv, NEW p \in Threads,
                        th[p].pc \in {"acceptSleep", "connectSleep", "lateSleep"}
                 PROVE  /\ th[p].pc = "acceptSleep" /\ sock[th[p].s].connecting # <<>> =>
                             \E q \in Threads : th[q].pc = "acceptLoop" /\ th[q].s = th[p].s
                        /\ th[p].pc \in {"connectSleep", "lateSleep"} => sock[th[p].s].remote = NULL
        BY DEF NoLostWakeup, At
    <2> DEFINE x == th[p].s
    <2>1. x \in Socks
        BY DEF TypeOK, Calls, ShapeInv, Shape, OnSocket, AcceptLocations, SetUpLocations
    <2>2. th[p].pc \in {"connectSleep", "lateSleep"} => sock[x].remote = NULL
        BY <2>1 DEF ConnectSleepInv
    <2>3. ASSUME th[p].pc = "acceptSleep", sock[x].connecting # <<>>
          PROVE  \E q \in Threads : th[q].pc = "acceptLoop" /\ th[q].s = x
        <3>1. Len(sock[x].connecting) <= Cardinality(Loopers(x))
            BY <2>1, <2>3 DEF AcceptSleepInv
        <3>2. Len(sock[x].connecting) >= 1
            <4> HIDE DEF x
            <4>1. sock[x].connecting \in Seq(Socks)
                BY <2>1, ListType
            <4> QED BY <2>3, <4>1
        <3>3. Loopers(x) # {}
            <4> HIDE DEF x
            <4> DEFINE L == Loopers(x)
                       n == Len(sock[x].connecting)
            <4>1. Cardinality(L) \in Nat /\ n \in Nat
                BY <2>1, LoopersFinite, ListType
            <4>2. Cardinality({}) = 0
                BY FS_EmptySet
            <4>3. n <= Cardinality(L) /\ n >= 1
                BY <3>1, <3>2
            <4> HIDE DEF L, n
            <4>4. L # {}
                BY ONLY <4>1, <4>2, <4>3
            <4> QED BY <4>4 DEF L
        <3> QED BY <3>3 DEF Loopers
    <2> QED BY <2>2, <2>3
<1>4. Spec => [](TypeOK /\ ShapeInv)
    BY TypeCorrect
<1>5. Spec => []Accounts
    BY AccountsHold
<1> QED BY <1>1, <1>2, <1>3, <1>4, <1>5, PTL DEF Spec

-----------------------------------------------------------------------------
(* The lists of connecting sockets *)

\* x waits to be accepted from r.
On(x, r) == \E i \in DOMAIN sock[r].connecting : sock[r].connecting[i] = x
Listens(x) == "LISTENING" \in sock[x].state

\* A socket in the tree has a reference left.
PositiveInv == \A x \in Live : sock[x].refs >= 1

\* A socket is queued where somebody listens.
TargetInv == \A p \in Threads : th[p].pc \in {"connectRef", "connectAdd"} => Listens(th[p].r)
QueueInv == \A x, r \in Socks : On(x, r) => Listens(r)

\* Sockets that wait for each other do not go round in a circle: a socket that waits may
\* listen, but then it has waited for longer than those on its own list.
ChainInv ==
    \A T \in SUBSET Socks : T # {} => \E x \in T : \A r \in T : ~(Listens(x) /\ On(x, r))

QueuesInv == PositiveInv /\ TargetInv /\ QueueInv /\ ChainInv

\* Whatever is in q is in l.
Inside(q, l) == \A i \in DOMAIN q : \E j \in DOMAIN l : l[j] = q[i]

\* A list and the empty list are inside a list.
LEMMA InsideSame == ASSUME NEW q PROVE Inside(q, q) /\ Inside(<<>>, q)
BY DEF Inside

\* Taking the head off a list adds nothing to it.
LEMMA TailInside ==
    ASSUME NEW q \in Seq(Socks), q # <<>> PROVE Inside(Tail(q), q)
<1>1. ASSUME NEW i \in DOMAIN Tail(q) PROVE i + 1 \in DOMAIN q /\ q[i + 1] = Tail(q)[i]
    BY <1>1
<1> QED BY <1>1 DEF Inside

\* Taking an element off a list adds nothing to it.
LEMMA RemoveInside ==
    ASSUME NEW q \in Seq(Socks), NEW k \in DOMAIN q PROVE Inside(RemoveAt(q, k), q)
<1> DEFINE a == SubSeq(q, 1, k - 1)
           b == SubSeq(q, k + 1, Len(q))
<1>1. k \in 1..Len(q) /\ Len(q) \in Nat /\ DOMAIN q = 1..Len(q)
    OBVIOUS
<1>2. a \in Seq(Socks) /\ Len(a) = k - 1 /\ \A i \in 1..Len(a) : a[i] = q[i]
    BY <1>1
<1>3. b \in Seq(Socks) /\ Len(b) = Len(q) - k /\ \A i \in 1..Len(b) : b[i] = q[i + k]
    BY <1>1
<1>4. RemoveAt(q, k) = a \o b
    BY DEF RemoveAt
<1> HIDE DEF a, b
<1>5. /\ DOMAIN (a \o b) = 1..(Len(a) + Len(b))
      /\ \A i \in 1..(Len(a) + Len(b)) : (a \o b)[i] = IF i <= Len(a) THEN a[i] ELSE b[i - Len(a)]
    <2>1. /\ a \o b \in Seq(Socks) /\ Len(a \o b) = Len(a) + Len(b)
          /\ \A i \in 1..(Len(a) + Len(b)) :
                (a \o b)[i] = IF i <= Len(a) THEN a[i] ELSE b[i - Len(a)]
        BY <1>2, <1>3, ConcatProperties, Zenon
    <2>2. DOMAIN (a \o b) = 1..Len(a \o b)
        BY ONLY <2>1
    <2> QED BY ONLY <2>1, <2>2
<1>6. ASSUME NEW i \in 1..(Len(a) + Len(b)) PROVE \E j \in DOMAIN q : q[j] = (a \o b)[i]
    <2>1. CASE i <= Len(a)
        <3>1. (a \o b)[i] = q[i] /\ i \in DOMAIN q
            BY <1>1, <1>2, <1>3, <1>5, <2>1, SMTT(60)
        <3> QED BY <3>1
    <2>2. CASE ~(i <= Len(a))
        <3>1. i - Len(a) \in 1..Len(b) /\ (i - Len(a)) + k \in DOMAIN q
            BY <1>1, <1>2, <1>3, <2>2, SMTT(60)
        <3>2. (a \o b)[i] = q[(i - Len(a)) + k]
            BY <1>3, <1>5, <2>2, <3>1
        <3> QED BY <3>1, <3>2
    <2> QED BY <2>1, <2>2
<1> QED BY <1>4, <1>5, <1>6 DEF Inside

\* Who listens after a step that looks.
LEMMA LooksListen ==
    ASSUME ListenInv, NEW p \in Threads, Marks(p), NEW x \in Socks
    PROVE  /\ Listens(x) => Listens(x)'
           /\ Listens(x)' => Listens(x) \/ (x = th[p].s /\ th[p].pc = "listen")
<1>1. th[p].pc = "connectStore" => ~Listens(th[p].s) /\ "LISTENING" \notin th[p].seen
    BY DEF ListenInv, Connecting, SetUpLocations, Listens
<1>2. CASE sock'[x].state = sock[x].state /\ (x = th[p].s => th[p].pc # "connectStore")
    BY <1>2 DEF Listens
<1>3. CASE x = th[p].s /\ th[p].pc = "bindCreate" /\ sock'[x].state = sock[x].state \cup {"BOUND"}
    BY <1>3 DEF Listens
<1>4. CASE x = th[p].s /\ th[p].pc = "listen" /\ sock'[x].state = sock[x].state \cup {"LISTENING"}
    BY <1>4 DEF Listens
<1>5. CASE x = th[p].s /\ th[p].pc = "connectStore" /\ sock'[x].state = th[p].seen \cup {"CONNECTING"}
    BY <1>1, <1>5 DEF Listens
<1>6. CASE x = th[p].s /\ th[p].pc = "connectSleep" /\ sock'[x].state = sock[x].state \ {"CONNECTING"}
    BY <1>6 DEF Listens
<1> QED BY <1>2, <1>3, <1>4, <1>5, <1>6 DEF Marks

\* The steps that do more than look leave a socket in the tree with a reference, and queue
\* nobody but in connect().
LEMMA DoesQueues ==
    ASSUME TypeOK, ShapeInv, Accounts, PositiveInv, "shutdown" \notin Ops,
           NEW p \in Threads, Does(p), ~Looks(p), NEW x \in Socks
    PROVE  /\ sock'[x].mem = "live" => sock'[x].refs >= 1
           /\ ~ConnectAdd(p) => Inside(sock'[x].connecting, sock[x].connecting)
<1> USE DEF At
<1> DEFINE l == sock[x].connecting
           l1 == sock'[x].connecting
<1>0. /\ l \in Seq(Socks) /\ sock[x].refs \in Nat
      /\ sock[x].mem = "live" => sock[x].refs >= 1
    BY DEF TypeOK, Sockets, PositiveInv, Live
<1>1. ASSUME sock'[x].mem = sock[x].mem, sock'[x].refs = sock[x].refs, l1 = l
      PROVE  (sock'[x].mem = "live" => sock'[x].refs >= 1) /\ Inside(l1, l)
    BY <1>0, <1>1, InsideSame
<1>2. ASSUME NEW f, NEW i, Allocates(f, i)
      PROVE  (sock'[x].mem = "live" => sock'[x].refs >= 1) /\ Inside(l1, l)
    <2>1. CASE x = f
        BY <1>2, <2>1, InsideSame DEF Allocates
    <2>2. CASE x # f
        BY <1>1, <1>2, <2>2 DEF Allocates
    <2> QED BY <2>1, <2>2
<1>3. ASSUME NEW s, NEW n \in Nat, n >= 1, Counts(s, n)
      PROVE  (sock'[x].mem = "live" => sock'[x].refs >= 1) /\ Inside(l1, l)
    <2>1. /\ sock'[x].mem = sock[x].mem /\ l1 = l
          /\ sock'[x].refs = IF x = s THEN n ELSE sock[x].refs
        BY <1>3 DEF Counts
    <2> QED BY <1>0, <1>3, <2>1, InsideSame
<1>4. ASSUME NEW s \in Socks PROVE sock[s].refs + 1 \in Nat /\ sock[s].refs + 1 >= 1
    <2>1. sock[s].refs \in Nat
        BY DEF TypeOK, Sockets
    <2> QED BY <2>1
<1>5. ASSUME NEW r, NEW q, Lists(r, q)
      PROVE  /\ sock'[x].mem = "live" => sock'[x].refs >= 1
             /\ l1 = IF x = r THEN q ELSE l
    BY <1>0, <1>5 DEF Lists
<1>6. CASE unix_socket(p) \/ unix_socketpair(p) \/ AcceptAlloc(p)
    <2>1. PICK f, i : Allocates(f, i)
        BY <1>6, SocketIs, SocketpairIs, AcceptAllocIs
    <2> QED BY <1>2, <2>1
<1>7. CASE PairFails(p) \/ Opens(p)
    BY <1>1, <1>7, PairFailsIs DEF Opens
<1>8. CASE PairSecond(p)
    <2>1. th[p].new \in Socks
        BY <1>8, PairHolds
    <2>2. IsLive(th[p].new)
        BY <2>1, PointedIsLive, ThreadsAssumption DEF Accounts
    <2>3. PICK f, i : Allocates(f, i)
        BY <1>8, <2>2, PairSecondIs
    <2> QED BY <1>2, <2>3
<1>9. CASE \E f \in open, k \in {"bind", "accept", "listen", "connect"} : Enter(p, f, k)
    <2>1. PICK s \in Socks : Counts(s, sock[s].refs + 1)
        BY <1>9, EnterIs, FoundType
    <2> QED BY <1>3, <1>4, <2>1
<1>10. CASE \E f \in open : unix_close(p, f)
    <2>1. PICK f \in open : unix_close(p, f)
        BY <1>10
    <2>2. th[p].pc = "user" /\ DropTwice(p, f)
        BY <2>1 DEF unix_close
    <2>3. UNCHANGED sock \/ \E s \in Socks : Counts(s, sock[s].refs + 1)
        BY <2>2, DropTwiceIs, FoundType
    <2> QED BY <1>1, <1>3, <1>4, <2>3
<1>11. CASE ConnectLookup(p)
    <2>1. UNCHANGED sock \/ \E s \in Socks : Counts(s, sock[s].refs + 1)
        BY <1>11, ConnectLookupIs, FoundType
    <2> QED BY <1>1, <1>3, <1>4, <2>1
<1>12. CASE ConnectRef(p)
    <2>1. \E s \in Socks : Counts(s, sock[s].refs + 1)
        BY <1>12, ConnectRefIs
    <2> QED BY <1>3, <1>4, <2>1
<1>13. CASE ConnectAdd(p)
    BY <1>5, <1>13, ConnectAddIs
<1>14. CASE ConnectUnlink(p)
    <2> DEFINE r == th[p].r
               q == sock[r].connecting
    <2>1. CASE UNCHANGED sock
        BY <1>1, <2>1
    <2>2. ASSUME r \in Socks, NEW i \in DOMAIN q, Lists(r, RemoveAt(q, i))
          PROVE  (sock'[x].mem = "live" => sock'[x].refs >= 1) /\ Inside(l1, l)
        <3>1. Inside(RemoveAt(q, i), q)
            BY <2>2, ListType, RemoveInside
        <3>2. /\ sock'[x].mem = "live" => sock'[x].refs >= 1
              /\ l1 = IF x = r THEN RemoveAt(q, i) ELSE l
            BY <1>5, <2>2
        <3> QED BY <3>1, <3>2, InsideSame
    <2> QED BY <1>14, <2>1, <2>2, ConnectUnlinkIs
<1>15. CASE AcceptTake(p)
    <2> DEFINE s == th[p].s
               q == sock[s].connecting
    <2>1. s \in Socks /\ q # <<>> /\ Lists(s, Tail(q))
        BY <1>15, AcceptTakeIs
    <2>2. Inside(Tail(q), q)
        BY <2>1, ListType, TailInside
    <2>3. /\ sock'[x].mem = "live" => sock'[x].refs >= 1
          /\ l1 = IF x = s THEN Tail(q) ELSE l
        BY <1>5, <2>1
    <2> QED BY <2>2, <2>3, InsideSame
<1>16. CASE AcceptPair(p)
    BY <1>1, <1>16, AcceptPairIs, ZenonT(60)
<1>17. CASE Puts(p)
    <2> DEFINE s == Head(th[p].todo).s
    <2>1. CASE sock[s].refs > 1
        <3>1. s \in Socks /\ Counts(s, sock[s].refs - 1)
            BY <1>17, <2>1, PutIs, FinishType DEF Puts
        <3>2. sock[s].refs - 1 \in Nat /\ sock[s].refs - 1 >= 1
            <4>1. sock[s].refs \in Nat
                BY <3>1 DEF TypeOK, Sockets
            <4> QED BY <2>1, <4>1
        <3> QED BY <1>3, <3>1, <3>2
    <2>2. CASE ~(sock[s].refs > 1)
        <3>1. Orphans(s)
            BY <1>17, <2>2, PutLastIs DEF Puts
        <3> HIDE DEF s
        <3>2. CASE x = s
            BY <3>1, <3>2, InsideSame DEF Orphans
        <3>3. CASE x # s
            BY <1>1, <3>1, <3>3 DEF Orphans
        <3> QED BY <3>2, <3>3
    <2> QED BY <2>1, <2>2
<1>18. CASE DetachesOne(p)
    <2>1. SameSocks
        BY <1>18, DetachIs DEF DetachesOne
    <2> QED BY <1>1, <2>1 DEF SameSocks
<1>19. CASE Frees(p)
    <2> DEFINE s == Head(th[p].todo).s
    <2>1. /\ \A y \in Socks \ {s} : sock'[y] = sock[y]
          /\ s \in Socks /\ sock'[s].mem = "freed" /\ sock'[s].connecting = <<>>
        BY <1>19, FreeIs, FinishType DEF Frees
    <2>2. CASE x = s
        BY <2>1, <2>2, InsideSame
    <2>3. CASE x # s
        BY <1>1, <2>1, <2>3
    <2> QED BY <2>2, <2>3
<1> QED BY <1>6, <1>7, <1>8, <1>9, <1>10, <1>11, <1>12, <1>13, <1>14, <1>15, <1>16, <1>17, <1>18,
           <1>19 DEF Does

\* Who is on a list that nothing was added to was on it before.
LEMMA InsideOn ==
    ASSUME NEW x, NEW r \in Socks, Inside(sock'[r].connecting, sock[r].connecting), On(x, r)'
    PROVE  On(x, r)
BY DEF Inside, On

\* Only the socket that connects is queued.
LEMMA AddOn ==
    ASSUME TypeOK, ShapeInv, NEW p \in Threads, ConnectAdd(p), NEW x, NEW r \in Socks, On(x, r)'
    PROVE  On(x, r) \/ (x = th[p].s /\ r = th[p].r)
<1> DEFINE q == sock[r].connecting
           s == th[p].s
<1>1. /\ s \in Socks
      /\ sock'[r].connecting = IF r = th[p].r THEN Append(q, s) ELSE q
    <2>1. Lists(th[p].r, Append(sock[th[p].r].connecting, s)) /\ s \in Socks
        BY ConnectAddIs
    <2> QED BY <2>1 DEF Lists
<1>2. q \in Seq(Socks)
    BY ListType
<1>3. CASE r # th[p].r
    BY <1>1, <1>3 DEF On
<1>4. CASE r = th[p].r
    <2>1. sock'[r].connecting = Append(q, s)
        BY <1>1, <1>4
    <2>2. PICK i \in DOMAIN sock'[r].connecting : sock'[r].connecting[i] = x
        BY DEF On
    <2> HIDE DEF q, s
    <2>3. i \in 1..(Len(q) + 1) /\ Append(q, s)[i] = x /\ Len(q) \in Nat /\ DOMAIN q = 1..Len(q)
        BY <1>1, <1>2, <2>1, <2>2
    <2>4. CASE i = Len(q) + 1
        <3>1. Append(q, s)[i] = s
            BY <1>1, <1>2, <2>4
        <3> QED BY <1>4, <2>3, <3>1 DEF s
    <2>5. CASE i # Len(q) + 1
        <3>1. i \in DOMAIN q /\ Append(q, s)[i] = q[i]
            BY <1>1, <1>2, <2>3, <2>5
        <3> QED BY <2>3, <3>1 DEF On, q
    <2> QED BY <2>4, <2>5
<1> QED BY <1>3, <1>4

\* Who is on a list of the tree is in the tree.
LEMMA OnIsLive ==
    ASSUME TypeOK, Accounts, NEW x \in Socks, NEW r \in Socks, On(x, r)
    PROVE  IsLive(x) /\ IsLive(r)
<1> USE ThreadsAssumption
<1>1. IsLive(r)
    BY DEF Accounts, EmptyInv, On
<1>2. Links(x) # {}
    <2>1. PICK i \in DOMAIN sock[r].connecting : sock[r].connecting[i] = x
        BY DEF On
    <2>2. <<r, i>> \in Links(x)
        BY <2>1 DEF Links, Positions
    <2> QED BY <2>2
<1>3. IsLive(x)
    <2> SUFFICES ASSUME ~IsLive(x) PROVE FALSE
        OBVIOUS
    <2>1. Linked(x) = 0
        BY NotLiveIs DEF Accounts
    <2> QED BY <1>2, <2>1, LinkedType
<1> QED BY <1>1, <1>3

\* Every step keeps that a socket in the tree is owned by someone: unixsock_put of the
\* last reference takes it out.
LEMMA PositiveKeeps ==
    ASSUME TypeOK, ShapeInv, Accounts, PositiveInv, "shutdown" \notin Ops, NEW p \in Threads, Does(p)
    PROVE  PositiveInv'
<1>1. SUFFICES ASSUME NEW x \in Socks PROVE sock'[x].mem = "live" => sock'[x].refs >= 1
    BY DEF PositiveInv, Live
<1>2. CASE Looks(p)
    <2>1. SameSocks
        BY <1>2, LooksQuiet DEF Quiet
    <2> QED BY <2>1 DEF SameSocks, PositiveInv, Live
<1>3. CASE ~Looks(p)
    BY <1>3, DoesQueues
<1> QED BY <1>2, <1>3

\* Who is in the tree and listens goes on to listen.
LEMMA ListensOn ==
    ASSUME TypeOK, ShapeInv, Accounts, Peers, ListenInv, "shutdown" \notin Ops,
           NEW p \in Threads, Does(p), NEW x \in Socks, IsLive(x)
    PROVE  /\ Listens(x) => Listens(x)'
           /\ Listens(x)' => Listens(x) \/ (Looks(p) /\ x = th[p].s /\ th[p].pc = "listen")
<1>1. CASE Looks(p)
    BY <1>1, LooksLand, LooksListen
<1>2. CASE ~Looks(p)
    BY <1>2, DoesSocks DEF Listens
<1> QED BY <1>1, <1>2

\* Every step keeps that connect() is about to queue its socket where somebody listens:
\* LISTENING, once checked, is never cleared.
LEMMA TargetKeeps ==
    ASSUME TypeOK, ShapeInv, Accounts, Peers, ListenInv, TargetInv, "shutdown" \notin Ops,
           NEW p \in Threads, Does(p)
    PROVE  TargetInv'
<1> USE ThreadsAssumption
<1>1. SUFFICES ASSUME NEW q \in Threads, th'[q].pc \in {"connectRef", "connectAdd"}
      PROVE  "LISTENING" \in sock'[th'[q].r].state
    BY DEF TargetInv, Listens
<1>2. ASSUME th[q].pc \in {"connectRemote", "connectRef", "connectAdd"}, Listens(th[q].r),
             th'[q].r = th[q].r
      PROVE  "LISTENING" \in sock'[th'[q].r].state
    <2>1. th[q].r \in Socks
        BY <1>2 DEF TypeOK, Calls, ShapeInv, Shape, OnRemote
    <2>2. IsLive(th[q].r)
        BY <2>1, PointedIsLive DEF Accounts
    <2>3. Listens(th[q].r) => "LISTENING" \in sock'[th[q].r].state
        BY <2>1, <2>2, ListensOn DEF Listens
    <2> QED BY <1>2, <2>3
<1>3. CASE q # p
    <2>1. th'[q].pc = th[q].pc /\ th'[q].r = th[q].r
        BY <1>1, <1>3, DoesOthers DEF Others, SameRefs, Wakes
    <2> QED BY <1>1, <1>2, <2>1 DEF TargetInv
<1>4. CASE q = p /\ ~Looks(p)
    <2>1. th[q].pc = "connectRef" /\ th'[q].r = th[q].r
        BY <1>1, <1>4, DoesAdvances DEF Advances
    <2> QED BY <1>2, <2>1 DEF TargetInv
<1>5. CASE q = p /\ Looks(p)
    <2>1. Lands(p) /\ Quiet(p)
        BY <1>5, LooksLand, LooksQuiet
    <2>2. GoesOn(p)
        BY <1>1, <1>5, <2>1 DEF Quiet, GoesHome, Leaves
    <2>3. th'[p].s # NULL /\ th'[p].r = th[p].r
        BY <2>2 DEF GoesOn, SameRefs, SameKind, ShapeInv, Shape
    <2>4. th[p].pc = "connectRemote" /\ Listens(th[p].r)
        BY <1>1, <1>5, <2>1, <2>3 DEF Lands, Listens
    <2> QED BY <1>2, <1>5, <2>3, <2>4
<1> QED BY <1>3, <1>4, <1>5

\* The new members of the lists.
LEMMA NewOn ==
    ASSUME TypeOK, ShapeInv, Accounts, PositiveInv, "shutdown" \notin Ops,
           NEW p \in Threads, Does(p), NEW x \in Socks, NEW r \in Socks, On(x, r)'
    PROVE  On(x, r) \/ (ConnectAdd(p) /\ x = th[p].s /\ r = th[p].r)
<1>1. CASE Looks(p)
    <2>1. SameSocks
        BY <1>1, LooksQuiet DEF Quiet
    <2>2. sock'[r].connecting = sock[r].connecting
        BY <2>1 DEF SameSocks
    <2> QED BY <2>2 DEF On
<1>2. CASE ConnectAdd(p)
    BY <1>2, AddOn
<1>3. CASE ~Looks(p) /\ ~ConnectAdd(p)
    BY <1>3, DoesQueues, InsideOn
<1> QED BY <1>1, <1>2, <1>3

\* Every step keeps that the sockets on a list are queued where somebody listens.
LEMMA QueueKeeps ==
    ASSUME TypeOK, ShapeInv, Accounts, Peers, ListenInv, QueuesInv, "shutdown" \notin Ops,
           NEW p \in Threads, Does(p)
    PROVE  QueueInv'
<1> USE ThreadsAssumption DEF QueuesInv
<1>1. ASSUME NEW x \in Socks, NEW r \in Socks, On(x, r)' PROVE Listens(r)'
    <2>1. CASE On(x, r)
        BY <2>1, OnIsLive, ListensOn DEF QueueInv
    <2>2. CASE ConnectAdd(p) /\ x = th[p].s /\ r = th[p].r
        <3>1. Listens(r)
            BY <2>2 DEF TargetInv, ConnectAdd, At
        <3>2. IsLive(r)
            BY <2>2, PointedIsLive DEF Accounts
        <3> QED BY <3>1, <3>2, ListensOn
    <2> QED BY <1>1, <2>1, <2>2, NewOn
<1>2. ASSUME NEW x \in Socks, NEW r \in Socks, On(x, r)' PROVE Listens(r)'
    BY <1>1, <1>2
<1> QED BY <1>2 DEF QueueInv, On, Listens

\* listen() closes no circle, because nobody waits for a socket that has not listened; nor
\* does connect(), because a socket that connects does not listen.
LEMMA ChainKeeps ==
    ASSUME TypeOK, ShapeInv, Accounts, Peers, ListenInv, QueuesInv, "shutdown" \notin Ops,
           NEW p \in Threads, Does(p)
    PROVE  ChainInv'
<1> USE ThreadsAssumption DEF QueuesInv
<1> DEFINE s == th[p].s
           New(x) == ~Listens(x) /\ x = s
\* A new wait of a listener is that of a socket which starts to listen.
<1>1. ASSUME NEW x \in Socks, NEW r \in Socks, On(x, r)', Listens(x)'
      PROVE  On(x, r) /\ (Listens(x) \/ New(x))
    <2>1. CASE On(x, r)
        <3>1. IsLive(x)
            BY <2>1, OnIsLive
        <3> QED BY <1>1, <2>1, <3>1, ListensOn
    <2>2. CASE ConnectAdd(p) /\ x = s /\ r = th[p].r
        <3>1. ~Listens(x)
            BY <2>2 DEF ListenInv, ConnectAdd, At, Connecting, SetUpLocations, Listens
        <3>2. IsLive(x)
            BY <2>2, PointedIsLive DEF Accounts
        <3>3. th[p].pc # "listen"
            BY <2>2 DEF ConnectAdd, At
        <3> QED BY <1>1, <3>1, <3>2, <3>3, ListensOn
    <2> QED BY <1>1, <2>1, <2>2, NewOn
<1>2. ASSUME NEW T \in SUBSET Socks, T # {}
      PROVE  \E x \in T : \A r \in T : ~(Listens(x)' /\ On(x, r)')
    <2> DEFINE U == {x \in T : ~New(x)}
    <2>1. CASE U # {}
        <3>1. PICK x \in U : \A r \in U : ~(Listens(x) /\ On(x, r))
            BY <1>2, <2>1 DEF ChainInv
        <3>2. ASSUME NEW r \in T, Listens(x)', On(x, r)' PROVE FALSE
            <4>1. On(x, r) /\ Listens(x)
                BY <1>1, <1>2, <3>1, <3>2
            <4>2. New(r)
                BY <3>1, <4>1
            <4>3. Listens(r)
                BY <1>2, <3>1, <4>1 DEF QueueInv
            <4> QED BY <4>2, <4>3
        <3> QED BY <3>1, <3>2
    <2>2. CASE U = {}
        <3>1. \A x \in T : New(x)
            BY <2>2
        <3>2. PICK x \in T : TRUE
            BY <1>2
        <3>3. ASSUME NEW r \in T, Listens(x)', On(x, r)' PROVE FALSE
            <4>1. On(x, r) /\ ~Listens(r)
                BY <1>1, <1>2, <3>1, <3>3
            <4> QED BY <1>2, <4>1 DEF QueueInv
        <3> QED BY <3>3
    <2> QED BY <2>1, <2>2
<1>3. ASSUME NEW T \in SUBSET Socks, T # {}
      PROVE  \E x \in T : \A r \in T :
                ~(/\ "LISTENING" \in sock'[x].state
                  /\ \E i \in DOMAIN sock'[r].connecting : sock'[r].connecting[i] = x)
    BY <1>2, <1>3 DEF On, Listens
<1> QED BY <1>3 DEF ChainInv, On, Listens

\* A step that changes neither structures nor calls keeps the four invariants of the
\* lists.
LEMMA QueuesSame ==
    ASSUME QueuesInv, sock' = sock, th' = th PROVE QueuesInv'
BY ZenonT(60) DEF QueuesInv, PositiveInv, Live, TargetInv, QueueInv, ChainInv, On, Listens

\* They hold at start.
LEMMA QueuesInit ==
    ASSUME Init PROVE QueuesInv
<1>1. \A r \in Socks : sock[r].mem = "unused" /\ sock[r].connecting = <<>>
    BY DEF Init, Blank
<1>2. \A p \in Threads : th[p].pc = "user"
    BY DEF Init, User
<1>3. \A x, r \in Socks : ~On(x, r)
    BY <1>1 DEF On
<1>4. ChainInv
    BY <1>3 DEF ChainInv
<1> QED BY <1>1, <1>2, <1>3, <1>4 DEF QueuesInv, PositiveInv, Live, TargetInv, QueueInv

\* With no file open and no call under way, a socket in the tree waits to be accepted from
\* another one that listens; but they do not wait for each other in a circle.
LEMMA NobodyLeft ==
    ASSUME TypeOK, ShapeInv, Accounts, QueuesInv, open = {}, \A p \in Threads : th[p].pc = "user"
    PROVE  Live = {}
<1> USE ThreadsAssumption
<1>1. ASSUME NEW x \in Live PROVE \E r \in Live : Listens(r) /\ On(x, r)
    <2>1. x \in Socks /\ sock[x].refs >= 1 /\ RefsOf(x) = sock[x].refs
        BY DEF Live, QueuesInv, PositiveInv, RefsOf, IsLive
    <2>2. RefsOf(x) = Claims(x) + Linked(x) + Opened(x) /\ Opened(x) = 0
        BY <2>1 DEF Accounts, AccountInv, Opened
    <2>3. Holders(x) = {} /\ Drops(x) = {}
        <3>1. ASSUME NEW p \in Threads
              PROVE  th[p].s = NULL /\ th[p].r = NULL /\ th[p].new = NULL /\ th[p].todo = <<>>
            BY DEF ShapeInv, Shape, OnSocket, OnRemote, OnNew, AcceptLocations, SetUpLocations
        <3>2. ASSUME NEW p \in Threads PROVE Roles(th[p], x) = {} /\ Pending(th[p].todo, x) = {}
            BY <2>1, <3>1, SocksType DEF Roles, Pending
        <3> QED BY <3>2 DEF Holders, Drops
    <2>4. Claims(x) = 0
        <3>1. Cardinality(Holders(x)) = 0 /\ Cardinality(Drops(x)) = 0
            BY <2>3, FS_EmptySet, Zenon
        <3> QED BY <3>1 DEF Claims
    <2>5. Linked(x) >= 1
        <3>1. Linked(x) \in Nat /\ sock[x].refs \in Nat
            BY <2>1, LinkedType DEF TypeOK, Sockets
        <3>2. sock[x].refs = 0 + Linked(x) + 0
            BY <2>1, <2>2, <2>4
        <3> DEFINE n == sock[x].refs
                   m == Linked(x)
        <3>3. n \in Nat /\ m \in Nat /\ n = 0 + m + 0 /\ n >= 1
            BY <2>1, <3>1, <3>2
        <3> HIDE DEF n, m
        <3>4. m >= 1
            BY <3>3
        <3> QED BY <3>4 DEF m
    <2>6. Links(x) # {}
        <3>1. Links(x) = {} => Linked(x) = 0
            BY FS_EmptySet, Zenon DEF Linked
        <3> QED BY <2>5, <3>1
    <2>7. PICK r \in Socks : Positions(sock[r].connecting, x) # {}
        BY <2>6 DEF Links
    <2>8. On(x, r)
        BY <2>7 DEF Positions, On
    <2>9. IsLive(r) /\ Listens(r)
        BY <2>1, <2>8, OnIsLive DEF QueuesInv, QueueInv
    <2> QED BY <2>8, <2>9 DEF Live, IsLive
<1> DEFINE T == {x \in Live : Listens(x)}
<1>2. T \in SUBSET Socks
    BY DEF Live
<1>3. CASE T = {}
    BY <1>1, <1>3
<1>4. CASE T # {}
    <2>1. PICK x \in T : \A r \in T : ~(Listens(x) /\ On(x, r))
        BY <1>2, <1>4 DEF QueuesInv, ChainInv
    <2>2. PICK r \in Live : Listens(r) /\ On(x, r)
        BY <1>1
    <2> QED BY <2>1, <2>2
<1> QED BY <1>3, <1>4

\* Once every file is closed and every call has returned, unixsock_put has freed every
\* socket, the ones that still waited to be accepted included, however the listeners that
\* they waited for had been queued themselves.
THEOREM NothingIsLeaked ==
    ASSUME "shutdown" \notin Ops, ~SharedConnect PROVE Spec => []NothingLeaks
<1> DEFINE Inv == Peers /\ ListenInv /\ QueuesInv
<1>1. Init => Inv
    <2>1. Init => \A p \in Threads : th[p].pc = "user"
        BY DEF Init, User
    <2>2. Init => ListenInv
        BY <2>1 DEF ListenInv, Accepting, Connecting, SetUpLocations
    <2>3. Init => Peers
        BY PeersInit, ThreadsAssumption
    <2> QED BY <2>2, <2>3, QueuesInit
<1>2. TypeOK /\ ShapeInv /\ TypeOK' /\ Accounts /\ Inv /\ [Next]_vars => Inv'
    <2> SUFFICES ASSUME TypeOK, ShapeInv, TypeOK', Accounts, Inv, [Next]_vars PROVE Inv'
        OBVIOUS
    <2>1. CASE UNCHANGED vars \/ Unlink
        <3>1. sock' = sock /\ th' = th
            BY <2>1 DEF vars, Unlink
        <3>2. ListenInv'
            BY <3>1 DEF ListenInv
        <3> QED BY <3>1, <3>2, PeersSame, QueuesSame
    <2>2. ASSUME NEW p \in Threads, Does(p) PROVE Inv'
        <3>1. Peers' /\ ListenInv'
            BY <2>2, PeersStep, ListenKeeps, ThreadsAssumption
        <3>2. QueuesInv'
            <4>1. PositiveInv' /\ TargetInv'
                BY <2>2, PositiveKeeps, TargetKeeps DEF QueuesInv
            <4>2. QueueInv' /\ ChainInv'
                BY <2>2, QueueKeeps, ChainKeeps
            <4> QED BY <4>1, <4>2 DEF QueuesInv
        <3> QED BY <3>1, <3>2
    <2> QED BY <2>1, <2>2, NextDoes
<1>3. TypeOK /\ ShapeInv /\ Accounts /\ Inv => NothingLeaks
    BY NobodyLeft DEF NothingLeaks, At
<1>4. Spec => [](TypeOK /\ ShapeInv)
    BY TypeCorrect
<1>5. Spec => []Accounts
    BY AccountsHold
<1> QED BY <1>1, <1>2, <1>3, <1>4, <1>5, PTL DEF Spec
=============================================================================
