------------------------ MODULE UnixSockCountProofs -------------------------
(***************************************************************************)
(* The life of AF_UNIX sockets: the account of references, and peers.      *)
(*                                                                         *)
(* A socket counts as many references as calls, drops to come and open     *)
(* files have of it.  So long as nobody calls shutdown, nothing that is    *)
(* pointed at is freed.  Then the account of queued sockets: who has a     *)
(* socket on its way from connect() to accept(), and what each step does   *)
(* to it.  From it the peers, which point at each other without a          *)
(* reference.                                                              *)
(***************************************************************************)
EXTENDS UnixSockStepProofs

-----------------------------------------------------------------------------
(* The account of references: the steps of unixsock_put, and all steps *)

\* The next task, and the tasks after it.
LEMMA HeadIn ==
    ASSUME NEW t \in Tasks, NEW x \in Socks
    PROVE  /\ t \in Drop(x) <=> t.s = x /\ t.op # "free"
           /\ t = Task("open", x) <=> t.op = "open" /\ t.s = x
BY DEF Drop, Task, Tasks

\* The drops that are left after the first one still free only what is out of the tree.
LEMMA TailFree ==
    ASSUME TypeOK, ShapeInv, FreeInv, NEW p \in Threads, At(p, "finish"),
           \A x \in Socks : Gone(x) => Gone(x)'
    PROVE  \A i \in DOMAIN Tail(th[p].todo) :
              Tail(th[p].todo)[i].op = "free"
                => sock'[Tail(th[p].todo)[i].s].mem \in {"dying", "freed"}
<1> DEFINE q == th[p].todo
<1>1. q \in Seq(Tasks) /\ q # <<>>
    BY FinishType
<1>2. \A i \in DOMAIN q : q[i].op = "free" => Gone(q[i].s)
    BY DEF FreeInv, FreeOnly
<1>3. \A t \in Tasks : t.s \in Socks
    BY DEF Tasks
<1> HIDE DEF q
<1>4. ASSUME NEW i \in DOMAIN Tail(q), Tail(q)[i].op = "free"
      PROVE  sock'[Tail(q)[i].s].mem \in {"dying", "freed"}
    <2>1. i + 1 \in DOMAIN q /\ Tail(q)[i] = q[i + 1] /\ q[i + 1] \in Tasks
        BY <1>1
    <2>2. Gone(q[i + 1].s) /\ q[i + 1].s \in Socks
        BY <1>2, <1>3, <1>4, <2>1
    <2>3. PICK x \in Socks : x = q[i + 1].s
        BY <2>2
    <2>4. Gone(x)'
        BY <2>2, <2>3
    <2>5. sock'[x].mem \in {"dying", "freed"}
        BY <2>4 DEF Gone
    <2> QED BY ONLY <2>1, <2>3, <2>5, Zenon
<1> QED BY <1>4 DEF q

\* The account balances after unixsock_put with other owners left.
LEMMA PutKeeps ==
    ASSUME IsFiniteSet(Threads), TypeOK, ShapeInv, TypeOK', Accounts, NEW p \in Threads,
           Puts(p), sock[Head(th[p].todo).s].refs > 1
    PROVE  Accounts'
<1> DEFINE s == Head(th[p].todo).s
           z == Tail(th[p].todo)
<1>1. At(p, "finish") /\ Head(th[p].todo).op = "put" /\ Put(p, s) /\ open' = open
    BY DEF Puts
<1>2. Others(p) /\ Leaves(p, z) /\ Counts(s, sock[s].refs - 1)
    BY <1>1, PutIs
<1>3. s \in Socks /\ Head(th[p].todo) \in Tasks
    BY <1>1, FinishType
<1>4. \A x \in Socks : /\ Owns(th[p], x) = Bit(s = x) + N(z, Drop(x)) /\ N(z, Drop(x)) \in Nat
                       /\ Title(th[p], x) = N(z, {Task("open", x)}) /\ N(z, {Task("open", x)}) \in Nat
    <2>1. ASSUME NEW x \in Socks
          PROVE  /\ Owns(th[p], x) = Bit(s = x) + N(z, Drop(x)) /\ N(z, Drop(x)) \in Nat
                 /\ Title(th[p], x) = N(z, {Task("open", x)}) /\ N(z, {Task("open", x)}) \in Nat
        <3>1. /\ Owns(th[p], x) = Bit(Head(th[p].todo) \in Drop(x)) + N(z, Drop(x))
              /\ Title(th[p], x) = Bit(Head(th[p].todo) = Task("open", x)) + N(z, {Task("open", x)})
              /\ N(z, Drop(x)) \in Nat /\ N(z, {Task("open", x)}) \in Nat
            BY <1>1, OwnsInFinish
        <3>2. (Head(th[p].todo) \in Drop(x) <=> s = x) /\ Head(th[p].todo) # Task("open", x)
            BY <1>1, <1>3, HeadIn
        <3> HIDE DEF z, s
        <3> QED BY ONLY <3>1, <3>2 DEF Bit
    <2> QED BY <2>1
<1>5. \A x \in Socks : Owns(th[p], x)' = N(z, Drop(x)) /\ Title(th[p], x)' = N(z, {Task("open", x)})
    BY <1>2, LeavesOwns
<1>6. IsLive(s)
    <2>1. Owns(th[p], s) = Bit(s = s) + N(z, Drop(s)) /\ N(z, Drop(s)) \in Nat
        <3> HIDE DEF s, z
        <3> QED BY <1>3, <1>4
    <2>2. Owns(th[p], s) > 0
        <3> HIDE DEF s, z
        <3> QED BY ONLY <2>1 DEF Bit
    <2> QED BY <1>3, <2>2, OwnedIsLive DEF Accounts
<1>7. FreeOnly(th[p])'
    <2>1. \A x \in Socks : Gone(x) => Gone(x)'
        BY <1>2 DEF Counts, Gone
    <2>2. \A i \in DOMAIN z : z[i].op = "free" => sock'[z[i].s].mem \in {"dying", "freed"}
        BY <1>1, <2>1, TailFree DEF Accounts
    <2> HIDE DEF z
    <2> QED BY <1>2, <2>2, LeavesFree
<1>8. \A x \in Socks : Opened(x)' = Opened(x) /\ Opened(x) \in Nat
    BY <1>1 DEF Opened
<1>9. \A x \in Socks : ~IsLive(x) => Opened(x) = 0 /\ Owns(th[p], x) = 0
    BY NotLiveIs DEF Accounts, Opened
<1>10. \A x \in Socks : sock[x].refs \in Nat
    BY DEF TypeOK, Sockets
<1>11. /\ \A x \in Socks :
           /\ sock'[x].mem = sock[x].mem /\ sock'[x].id = sock[x].id
           /\ sock'[x].connecting = sock[x].connecting
           /\ sock'[x].refs = IF x = s THEN sock[s].refs - 1 ELSE sock[x].refs
    BY <1>2 DEF Counts
<1> HIDE DEF z, s
<1>12. \A x \in Socks :
         /\ sock'[x].mem = sock[x].mem /\ sock'[x].id = sock[x].id
         /\ sock'[x].connecting = sock[x].connecting
         /\ IsLive(x) => sock'[x].refs + Owns(th[p], x) + Opened(x)
                           = sock[x].refs + Owns(th[p], x)' + Opened(x)'
         /\ ~IsLive(x) => Owns(th[p], x)' = 0 /\ Opened(x)' = 0
         /\ Title(th[p], x)' + Opened(x)' <= Title(th[p], x) + Opened(x)
    <2> SUFFICES ASSUME NEW x \in Socks
          PROVE  /\ sock'[x].mem = sock[x].mem /\ sock'[x].id = sock[x].id
                 /\ sock'[x].connecting = sock[x].connecting
                 /\ IsLive(x) => sock'[x].refs + Owns(th[p], x) + Opened(x)
                                   = sock[x].refs + Owns(th[p], x)' + Opened(x)'
                 /\ ~IsLive(x) => Owns(th[p], x)' = 0 /\ Opened(x)' = 0
                 /\ Title(th[p], x)' + Opened(x)' <= Title(th[p], x) + Opened(x)
        OBVIOUS
    <2>1. CASE x = s
        <3>1. /\ Owns(th[p], x) = 1 + N(z, Drop(x)) /\ Owns(th[p], x)' = N(z, Drop(x))
              /\ Title(th[p], x) = N(z, {Task("open", x)}) /\ Title(th[p], x)' = N(z, {Task("open", x)})
            BY <1>4, <1>5, <2>1 DEF Bit
        <3>2. /\ N(z, Drop(x)) \in Nat /\ N(z, {Task("open", x)}) \in Nat
              /\ Opened(x)' = Opened(x) /\ Opened(x) \in Nat /\ sock[x].refs \in Nat
            BY ONLY <1>4, <1>8, <1>10, x \in Socks, Zenon
        <3>3. /\ sock'[x].mem = sock[x].mem /\ sock'[x].id = sock[x].id
              /\ sock'[x].connecting = sock[x].connecting
              /\ sock'[x].refs = sock[x].refs - 1 /\ IsLive(x)
            BY ONLY <1>6, <1>11, <2>1, x \in Socks, Zenon
        <3> DEFINE k == sock[x].refs
                   n == N(z, Drop(x))
                   o == Opened(x)
        <3>6. sock'[x].refs = k - 1 /\ Owns(th[p], x) = 1 + n /\ Owns(th[p], x)' = n /\ Opened(x)' = o
            BY ONLY <3>1, <3>2, <3>3, Zenon
        <3>7. k \in Nat /\ n \in Nat /\ o \in Nat
            BY ONLY <3>2
        <3> HIDE DEF k, n, o
        <3>8. (k - 1) + (1 + n) + o = k + n + o
            BY ONLY <3>7
        <3>4. sock'[x].refs + Owns(th[p], x) + Opened(x) = sock[x].refs + Owns(th[p], x)' + Opened(x)'
            BY ONLY <3>6, <3>8, Zenon DEF k, o
        <3>5. Title(th[p], x)' + Opened(x)' <= Title(th[p], x) + Opened(x)
            BY ONLY <3>1, <3>2
        <3> QED BY ONLY <3>3, <3>4, <3>5, Zenon
    <2>2. CASE x # s
        <3>1. /\ Owns(th[p], x) = N(z, Drop(x)) /\ Owns(th[p], x)' = N(z, Drop(x))
              /\ Title(th[p], x) = N(z, {Task("open", x)}) /\ Title(th[p], x)' = N(z, {Task("open", x)})
            <4>1. /\ Owns(th[p], x) = Bit(s = x) + N(z, Drop(x)) /\ N(z, Drop(x)) \in Nat
                  /\ Title(th[p], x) = N(z, {Task("open", x)})
                  /\ Owns(th[p], x)' = N(z, Drop(x)) /\ Title(th[p], x)' = N(z, {Task("open", x)})
                BY ONLY <1>4, <1>5, x \in Socks, Zenon
            <4>2. Bit(s = x) = 0
                BY ONLY <2>2 DEF Bit
            <4>3. 0 + N(z, Drop(x)) = N(z, Drop(x))
                BY ONLY <4>1
            <4> QED BY ONLY <4>1, <4>2, <4>3, Zenon
        <3>2. /\ N(z, Drop(x)) \in Nat /\ N(z, {Task("open", x)}) \in Nat
              /\ Opened(x)' = Opened(x) /\ Opened(x) \in Nat /\ sock[x].refs \in Nat
            BY ONLY <1>4, <1>8, <1>10, x \in Socks, Zenon
        <3>3. /\ sock'[x].mem = sock[x].mem /\ sock'[x].id = sock[x].id
              /\ sock'[x].connecting = sock[x].connecting
              /\ sock'[x].refs = sock[x].refs
            BY ONLY <1>11, <2>2, x \in Socks, Zenon
        <3>4. sock'[x].refs + Owns(th[p], x) + Opened(x) = sock[x].refs + Owns(th[p], x)' + Opened(x)'
            BY ONLY <3>1, <3>2, <3>3
        <3>5. Title(th[p], x)' + Opened(x)' <= Title(th[p], x) + Opened(x)
            BY ONLY <3>1, <3>2
        <3>6. ~IsLive(x) => Owns(th[p], x)' = 0 /\ Opened(x)' = 0
            BY ONLY <1>9, <3>1, <3>2, x \in Socks, Zenon
        <3> QED BY ONLY <3>3, <3>4, <3>5, <3>6, Zenon
    <2> QED BY <2>1, <2>2
<1> QED BY ONLY IsFiniteSet(Threads), TypeOK, TypeOK', Accounts, <1>1, <1>2, <1>7, <1>12, KeepsCounts

\* What a call that drops its references owns: the task at hand and the others.
LEMMA TaskOwns ==
    ASSUME TypeOK, ShapeInv, NEW p \in Threads, At(p, "finish"), NEW x \in Socks
    PROVE  /\ Owns(th[p], x) = Bit(Head(th[p].todo).s = x /\ Head(th[p].todo).op # "free")
                               + N(Tail(th[p].todo), Drop(x))
           /\ Title(th[p], x) = Bit(Head(th[p].todo).op = "open" /\ Head(th[p].todo).s = x)
                                + N(Tail(th[p].todo), {Task("open", x)})
           /\ N(Tail(th[p].todo), Drop(x)) \in Nat
           /\ N(Tail(th[p].todo), {Task("open", x)}) \in Nat
<1>1. /\ Owns(th[p], x) = Bit(Head(th[p].todo) \in Drop(x)) + N(Tail(th[p].todo), Drop(x))
      /\ Title(th[p], x) = Bit(Head(th[p].todo) = Task("open", x))
                           + N(Tail(th[p].todo), {Task("open", x)})
      /\ N(Tail(th[p].todo), Drop(x)) \in Nat
      /\ N(Tail(th[p].todo), {Task("open", x)}) \in Nat
    BY OwnsInFinish
<1>2. /\ Head(th[p].todo) \in Drop(x) <=> Head(th[p].todo).s = x /\ Head(th[p].todo).op # "free"
      /\ Head(th[p].todo) = Task("open", x)
           <=> Head(th[p].todo).op = "open" /\ Head(th[p].todo).s = x
    BY FinishType, HeadIn
<1> DEFINE h == Head(th[p].todo)
           z == Tail(th[p].todo)
<1>3. /\ Bit(h \in Drop(x)) = Bit(h.s = x /\ h.op # "free")
      /\ Bit(h = Task("open", x)) = Bit(h.op = "open" /\ h.s = x)
    <2> HIDE DEF h
    <2> QED BY <1>2 DEF Bit, h
<1> QED BY <1>1, <1>3

\* An element of a concatenation is an element of one of its parts.
LEMMA ConcatElements ==
    ASSUME NEW a \in Seq(Tasks), NEW b \in Seq(Tasks), NEW i \in DOMAIN (a \o b)
    PROVE  (\E j \in DOMAIN a : (a \o b)[i] = a[j]) \/ (\E j \in DOMAIN b : (a \o b)[i] = b[j])
<1>1. CASE i <= Len(a)
    <2>1. i \in DOMAIN a /\ (a \o b)[i] = a[i]
        BY <1>1
    <2> QED BY <2>1
<1>2. CASE ~(i <= Len(a))
    <2>1. i - Len(a) \in DOMAIN b /\ (a \o b)[i] = b[i - Len(a)]
        BY <1>2
    <2> QED BY <2>1
<1> QED BY <1>1, <1>2

\* The references of the list pass to the tasks of the teardown.
LEMMA TeardownOwns ==
    ASSUME TypeOK, NEW s \in Socks, NEW z \in Seq(Tasks), NEW x \in Socks
    PROVE  /\ N(Teardown(s) \o z, Drop(x)) = N(sock[s].connecting, {x}) + N(z, Drop(x))
           /\ N(Teardown(s) \o z, {Task("open", x)}) = N(z, {Task("open", x)})
<1> DEFINE w == sock[s].connecting
           d == [i \in DOMAIN w |-> Task("detach", w[i])]
           f == <<Task("free", s)>>
<1>1. w \in Seq(Socks)
    BY ListType
<1>2. d \in Seq(Tasks) /\ Teardown(s) = d \o f /\ Teardown(s) \in Seq(Tasks)
    BY TeardownType DEF Teardown
<1>3. f \in Seq(Tasks)
    <2>1. Task("free", s) \in Tasks
        BY TaskType
    <2> QED BY <2>1
<1>4. N(f, Drop(x)) = 0 /\ N(f, {Task("open", x)}) = 0
    <2>1. Task("free", s) \notin Drop(x) /\ Task("free", s) # Task("open", x)
        BY TaskIn
    <2>2. N(f, Drop(x)) = 0
        BY <2>1, WhereOne
    <2>3. N(f, {Task("open", x)}) = 0
        <3>1. Task("free", s) \notin {Task("open", x)}
            BY <2>1
        <3> QED BY <3>1, WhereOne
    <2> QED BY <2>2, <2>3
<1>5. N(d, Drop(x)) = N(w, {x})
    <2>1. Len(w) \in Nat /\ DOMAIN w = 1..Len(w) /\ DOMAIN d = DOMAIN w
          /\ \A i \in DOMAIN w : w[i] \in Socks /\ d[i] = Task("detach", w[i])
        BY <1>1
    <2> HIDE DEF d, w
    <2>2. \A i \in DOMAIN w : d[i] \in Drop(x) <=> w[i] \in {x}
        <3>1. ASSUME NEW i \in DOMAIN w PROVE d[i] \in Drop(x) <=> w[i] \in {x}
            <4>1. w[i] \in Socks /\ d[i] = Task("detach", w[i])
                BY <2>1
            <4>2. Task("detach", w[i]) \in Drop(x) <=> w[i] = x
                BY <4>1, TaskIn
            <4> QED BY ONLY <4>1, <4>2
        <3> QED BY <3>1
    <2>3. Where(d, Drop(x)) = Where(w, {x})
        BY <2>1, <2>2 DEF Where
    <2> QED BY <2>3 DEF N
<1>6. N(d, {Task("open", x)}) = 0
    <2>1. DOMAIN d = DOMAIN w /\ \A i \in DOMAIN w : w[i] \in Socks /\ d[i] = Task("detach", w[i])
        BY <1>1
    <2> HIDE DEF d, w
    <2>2. \A i \in DOMAIN d : d[i] \notin {Task("open", x)}
        <3>1. ASSUME NEW i \in DOMAIN d PROVE d[i] # Task("open", x)
            <4>1. w[i] \in Socks /\ d[i] = Task("detach", w[i])
                BY <2>1
            <4> QED BY <4>1, TaskIn
        <3> QED BY <3>1
    <2> QED BY <1>2, <2>2, WhereNone
<1> HIDE DEF d, f, w
<1>7. /\ N(d \o f, Drop(x)) = N(w, {x}) + 0
      /\ N(d \o f, {Task("open", x)}) = 0 + 0
    BY <1>2, <1>3, <1>4, <1>5, <1>6, WhereConcat
<1>8. N(w, {x}) \in Nat /\ N(z, Drop(x)) \in Nat /\ N(z, {Task("open", x)}) \in Nat
    BY <1>1, WhereFinite
<1>9. /\ N(Teardown(s) \o z, Drop(x)) = N(Teardown(s), Drop(x)) + N(z, Drop(x))
      /\ N(Teardown(s) \o z, {Task("open", x)})
           = N(Teardown(s), {Task("open", x)}) + N(z, {Task("open", x)})
    <2> DEFINE T == Teardown(s)
    <2>1. T \in Seq(Tasks)
        BY <1>2
    <2> HIDE DEF T
    <2>2. /\ N(T \o z, Drop(x)) = N(T, Drop(x)) + N(z, Drop(x))
          /\ N(T \o z, {Task("open", x)}) = N(T, {Task("open", x)}) + N(z, {Task("open", x)})
        BY <2>1, WhereConcat
    <2> QED BY <2>2 DEF T
<1> QED BY <1>2, <1>7, <1>8, <1>9 DEF w

\* A teardown frees the socket it tears down and no other.
LEMMA TeardownFree ==
    ASSUME TypeOK, NEW s \in Socks, NEW i \in DOMAIN Teardown(s), Teardown(s)[i].op = "free"
    PROVE  Teardown(s)[i].s = s
<1> DEFINE w == sock[s].connecting
           d == [j \in DOMAIN w |-> Task("detach", w[j])]
           f == <<Task("free", s)>>
<1>1. w \in Seq(Socks)
    BY ListType
<1>2. d \in Seq(Tasks) /\ Teardown(s) = d \o f
    BY TeardownType DEF Teardown
<1>3. f \in Seq(Tasks) /\ DOMAIN f = {1} /\ f[1] = Task("free", s)
    <2>1. Task("free", s) \in Tasks
        BY TaskType
    <2> QED BY <2>1
<1>4. \A j \in DOMAIN d : d[j].op = "detach"
    BY <1>1 DEF Task
<1> HIDE DEF d, f
<1>9. d \in Seq(Tasks) /\ f \in Seq(Tasks) /\ i \in DOMAIN (d \o f)
    BY <1>2, <1>3, Zenon
<1>5. (\E j \in DOMAIN d : (d \o f)[i] = d[j]) \/ (\E j \in DOMAIN f : (d \o f)[i] = f[j])
    BY ONLY <1>9, ConcatElements, Zenon
<1>6. (d \o f)[i].op = "free" /\ "free" # "detach"
    BY <1>2, Zenon
<1>7. (d \o f)[i] = Task("free", s)
    <2>1. ASSUME NEW j \in DOMAIN d, (d \o f)[i] = d[j] PROVE FALSE
        BY ONLY <1>4, <1>6, <2>1, Zenon
    <2>2. PICK j \in DOMAIN f : (d \o f)[i] = f[j]
        BY ONLY <1>5, <2>1, Zenon
    <2>3. j = 1
        BY ONLY <1>3, <2>2
    <2> QED BY ONLY <1>3, <2>2, <2>3, Zenon
<1>8. (d \o f)[i].s = s
    BY ONLY <1>7 DEF Task
<1> QED BY ONLY <1>2, <1>8, Zenon

\* The account balances after unixsock_put of the last reference.
LEMMA PutLastKeeps ==
    ASSUME IsFiniteSet(Threads), TypeOK, ShapeInv, TypeOK', Accounts, NEW p \in Threads,
           Puts(p), ~(sock[Head(th[p].todo).s].refs > 1)
    PROVE  Accounts'
<1> DEFINE s == Head(th[p].todo).s
           z == Tail(th[p].todo)
           w == sock[s].connecting
<1>1. At(p, "finish") /\ Head(th[p].todo).op = "put" /\ Put(p, s) /\ open' = open
    BY DEF Puts
<1>2. /\ Others(p) /\ Leaves(p, Teardown(s) \o z)
      /\ sock'[s].mem = "dying" /\ sock'[s].connecting = <<>> /\ sock'[s].id = sock[s].id
      /\ \A x \in Socks \ {s} :
           /\ sock'[x].mem = sock[x].mem /\ sock'[x].id = sock[x].id
           /\ sock'[x].refs = sock[x].refs /\ sock'[x].connecting = sock[x].connecting
    <2>1. /\ s = Head(th[p].todo).s /\ z = Tail(th[p].todo) /\ ~(sock[s].refs > 1)
        OBVIOUS
    <2> HIDE DEF s, z, w
    <2>2. Others(p) /\ Leaves(p, Teardown(s) \o Tail(th[p].todo)) /\ Orphans(s)
        BY <1>1, <2>1, PutLastIs
    <2> QED BY ONLY <2>1, <2>2, ZenonT(60) DEF Orphans
<1>3. s \in Socks /\ z \in Seq(Tasks)
    BY <1>1, FinishType
<1>4. \A x \in Socks :
         /\ Owns(th[p], x) = Bit(s = x) + N(z, Drop(x)) /\ N(z, Drop(x)) \in Nat
         /\ Title(th[p], x) = N(z, {Task("open", x)}) /\ N(z, {Task("open", x)}) \in Nat
    <2>1. ASSUME NEW x \in Socks
          PROVE  /\ Owns(th[p], x) = Bit(s = x) + N(z, Drop(x)) /\ N(z, Drop(x)) \in Nat
                 /\ Title(th[p], x) = N(z, {Task("open", x)}) /\ N(z, {Task("open", x)}) \in Nat
        <3>1. /\ Owns(th[p], x) = Bit(s = x /\ Head(th[p].todo).op # "free") + N(z, Drop(x))
              /\ Title(th[p], x) = Bit(Head(th[p].todo).op = "open" /\ s = x) + N(z, {Task("open", x)})
              /\ N(z, Drop(x)) \in Nat /\ N(z, {Task("open", x)}) \in Nat
            BY <1>1, TaskOwns, ZenonT(60)
        <3> HIDE DEF z, s
        <3> QED BY ONLY <3>1, <1>1 DEF Bit
    <2> QED BY <2>1
<1>5. \A x \in Socks : /\ Owns(th[p], x)' = N(w, {x}) + N(z, Drop(x)) /\ N(w, {x}) \in Nat
                       /\ Title(th[p], x)' = N(z, {Task("open", x)})
    <2>1. ASSUME NEW x \in Socks
          PROVE  /\ Owns(th[p], x)' = N(w, {x}) + N(z, Drop(x)) /\ N(w, {x}) \in Nat
                 /\ Title(th[p], x)' = N(z, {Task("open", x)})
        <3> DEFINE T == Teardown(s) \o z
        <3>1. N(T, Drop(x)) = N(w, {x}) + N(z, Drop(x)) /\ N(T, {Task("open", x)}) = N(z, {Task("open", x)})
            BY <1>3, TeardownOwns, ZenonT(60)
        <3>2. Leaves(p, T)
            BY <1>2
        <3>3. N(w, {x}) \in Nat
            BY <1>3, LinkedType
        <3> HIDE DEF T
        <3>4. Owns(th[p], x)' = N(T, Drop(x)) /\ Title(th[p], x)' = N(T, {Task("open", x)})
            BY <3>2, LeavesOwns
        <3> QED BY ONLY <3>1, <3>3, <3>4, SMTT(60)
    <2> QED BY <2>1
<1>6. IsLive(s)
    <2>1. Owns(th[p], s) = Bit(s = s) + N(z, Drop(s)) /\ N(z, Drop(s)) \in Nat
        <3> HIDE DEF s, z
        <3> QED BY <1>3, <1>4
    <2>2. Owns(th[p], s) > 0
        <3> HIDE DEF s, z
        <3> QED BY ONLY <2>1 DEF Bit
    <2> QED BY <1>3, <2>2, OwnedIsLive DEF Accounts
<1> HIDE DEF s, z
<1>7. /\ sock[s].refs = 1 /\ Owns(th[p], s) = 1 /\ N(z, Drop(s)) = 0 /\ Linked(s) = 0
      /\ Opened(s) = 0 /\ N(w, {s}) = 0
    <2>1. sock[s].refs = Claims(s) + Linked(s) + Opened(s) /\ sock[s].refs \in Nat
        BY <1>3, <1>6 DEF Accounts, AccountInv, RefsOf, TypeOK, Sockets
    <2>2. Claims(s) \in Nat /\ Owns(th[p], s) <= Claims(s)
        BY <1>3, ClaimsType
    <2>3. Linked(s) \in Nat /\ N(w, {s}) <= Linked(s) /\ N(w, {s}) \in Nat
        BY <1>3, LinkedType
    <2>4. Opened(s) \in Nat
        BY DEF Opened
    <2>5. Owns(th[p], s) = 1 + N(z, Drop(s)) /\ N(z, Drop(s)) \in Nat
        BY <1>3, <1>4 DEF Bit
    <2>6. ~(sock[s].refs > 1)
        BY DEF s
    <2> HIDE DEF w
    <2> QED BY ONLY <2>1, <2>2, <2>3, <2>4, <2>5, <2>6
<1>8. FreeOnly(th[p])'
    <2> DEFINE T == Teardown(s) \o z
    <2>1. \A x \in Socks : Gone(x) => Gone(x)'
        BY <1>2 DEF Gone
    <2>2. \A i \in DOMAIN z : z[i].op = "free" => sock'[z[i].s].mem \in {"dying", "freed"}
        BY <1>1, <2>1, TailFree DEF Accounts, z
    <2>3. Teardown(s) \in Seq(Tasks)
        BY <1>3, TeardownType
    <2>4. ASSUME NEW i \in DOMAIN T, T[i].op = "free"
          PROVE  sock'[T[i].s].mem \in {"dying", "freed"}
        <3>1. (\E j \in DOMAIN Teardown(s) : T[i] = Teardown(s)[j]) \/ (\E j \in DOMAIN z : T[i] = z[j])
            BY <1>3, <2>3, ConcatElements
        <3>2. CASE \E j \in DOMAIN Teardown(s) : T[i] = Teardown(s)[j]
            <4>1. T[i].s = s
                BY <1>3, <2>4, <3>2, TeardownFree
            <4> QED BY <1>2, <4>1
        <3>3. CASE \E j \in DOMAIN z : T[i] = z[j]
            BY <2>2, <2>4, <3>3
        <3> QED BY <3>1, <3>2, <3>3
    <2>5. Leaves(p, T)
        BY <1>2
    <2> HIDE DEF T
    <2> QED BY <2>4, <2>5, LeavesFree
<1>9. ASSUME NEW x \in Socks
      PROVE  /\ RefsOf(x)' + Owns(th[p], x) + Linked(x) + Opened(x)
                  = RefsOf(x) + Owns(th[p], x)' + Linked(x)' + Opened(x)'
             /\ Title(th[p], x)' + Opened(x)' <= Title(th[p], x) + Opened(x)
    <2>1. Opened(x)' = Opened(x) /\ Opened(x) \in Nat
        BY <1>1 DEF Opened
    <2>2. Linked(x)' + N(w, {x}) = Linked(x) /\ Linked(x) \in Nat /\ Linked(x)' \in Nat /\ N(w, {x}) \in Nat
        <3>1. /\ Linked(x)' + N(sock[s].connecting, {x}) = Linked(x) + N(sock'[s].connecting, {x})
              /\ Linked(x) \in Nat /\ Linked(x)' \in Nat
              /\ N(sock[s].connecting, {x}) \in Nat
            BY <1>2, <1>3, LinkedChange, ZenonT(60)
        <3>2. N(sock'[s].connecting, {x}) = 0
            BY <1>2, WhereEmpty
        <3> QED BY <3>1, <3>2
    <2>3. Title(th[p], x)' = Title(th[p], x) /\ Title(th[p], x) \in Nat
        BY <1>4, <1>5, ZenonT(60)
    <2> DEFINE o0 == Owns(th[p], x)
               o1 == Owns(th[p], x)'
               p0 == Opened(x)
               p1 == Opened(x)'
               l0 == Linked(x)
               l1 == Linked(x)'
               r0 == RefsOf(x)
               r1 == RefsOf(x)'
               n == N(w, {x})
               m == N(z, Drop(x))
    <2>4. CASE x = s
        <3>1. r0 = 1 /\ r1 = 0
            BY <1>2, <1>6, <1>7, <2>4 DEF RefsOf, IsLive
        <3>2. o0 = 1 /\ o1 = n + m /\ n = 0 /\ m = 0 /\ l0 = 0 /\ p0 = 0 /\ p1 = 0 /\ l1 + n = l0 /\ l1 \in Nat
            BY <1>5, <1>7, <2>1, <2>2, <2>4
        <3> HIDE DEF o0, o1, p0, p1, l0, l1, r0, r1, n, m
        <3>3. r1 + o0 + l0 + p0 = r0 + o1 + l1 + p1
            BY ONLY <3>1, <3>2
        <3> QED BY <2>1, <2>3, <3>3 DEF o0, o1, p0, p1, l0, l1, r0, r1
    <2>5. CASE x # s
        <3>1. r1 = r0 /\ r0 \in Nat
            BY <1>2, <2>5 DEF RefsOf, IsLive, TypeOK, Sockets
        <3>2. o0 = Bit(s = x) + m /\ m \in Nat /\ o1 = n + m /\ n \in Nat
            BY <1>4, <1>5
        <3>3. o0 = m
            BY ONLY <2>5, <3>2 DEF Bit
        <3>4. l0 \in Nat /\ l1 \in Nat /\ l1 + n = l0 /\ p0 = p1 /\ p0 \in Nat
            BY <2>1, <2>2
        <3> HIDE DEF o0, o1, p0, p1, l0, l1, r0, r1, n, m
        <3>5. r1 = r0 /\ o0 = m /\ o1 = n + m /\ l0 = l1 + n /\ p1 = p0
            BY ONLY <3>1, <3>2, <3>3, <3>4
        <3>6. r0 \in Nat /\ m \in Nat /\ n \in Nat /\ l1 \in Nat /\ p0 \in Nat
            BY ONLY <3>1, <3>2, <3>4
        <3>7. r1 + o0 + l0 + p0 = r0 + o1 + l1 + p1
            BY ONLY <3>5, <3>6
        <3> QED BY <2>1, <2>3, <3>7 DEF o0, o1, p0, p1, l0, l1, r0, r1
    <2> QED BY <2>4, <2>5
<1>10. \A x \in Socks : /\ sock'[x].id = sock[x].id
                        /\ IsLive(x)' => IsLive(x)
                        /\ ~IsLive(x)' => sock'[x].connecting = <<>>
                        /\ Gone(x) => Gone(x)'
    BY <1>2 DEF Accounts, EmptyInv, IsLive, Gone
<1> QED BY ONLY IsFiniteSet(Threads), TypeOK, TypeOK', Accounts, <1>2, <1>8, <1>9, <1>10, Keeps

\* The account balances after the detaching of one connecting socket.
LEMMA DetachKeeps ==
    ASSUME IsFiniteSet(Threads), TypeOK, ShapeInv, TypeOK', Accounts, NEW p \in Threads,
           DetachesOne(p)
    PROVE  Accounts'
<1> DEFINE s == Head(th[p].todo).s
           z == Tail(th[p].todo)
           a == Task("put", s)
           b == <<a>>
           t == b \o z
<1>1. At(p, "finish") /\ Head(th[p].todo).op = "detach" /\ Detach(p, s) /\ open' = open
    BY DEF DetachesOne
<1>2. Others(p) /\ Leaves(p, t) /\ SameSocks
    BY <1>1, DetachIs
<1>3. s \in Socks /\ z \in Seq(Tasks) /\ a \in Tasks /\ a.op = "put"
    BY <1>1, FinishType, TaskType
<1>4. ASSUME NEW x \in Socks
      PROVE  Owns(th[p], x)' = Owns(th[p], x) /\ Title(th[p], x)' = Title(th[p], x)
             /\ Title(th[p], x) \in Nat /\ Owns(th[p], x) \in Nat
    <2>1. /\ Owns(th[p], x) = Bit(s = x /\ Head(th[p].todo).op # "free") + N(z, Drop(x))
          /\ Title(th[p], x) = Bit(Head(th[p].todo).op = "open" /\ s = x) + N(z, {Task("open", x)})
          /\ N(z, Drop(x)) \in Nat /\ N(z, {Task("open", x)}) \in Nat
        BY <1>1, TaskOwns
    <2>2. (a \in Drop(x) <=> s = x) /\ a \notin {Task("open", x)}
        BY <1>3, TaskIn
    <2>3. Leaves(p, t) /\ b \in Seq(Tasks)
        BY <1>2, <1>3
    <2> HIDE DEF a, s, z
    <2>5. N(b, Drop(x)) = Bit(s = x) /\ N(b, {Task("open", x)}) = 0
        BY <2>2, WhereOne DEF Bit
    <2> HIDE DEF b
    <2>4. /\ N(t, Drop(x)) = N(b, Drop(x)) + N(z, Drop(x))
          /\ N(t, {Task("open", x)}) = N(b, {Task("open", x)}) + N(z, {Task("open", x)})
        BY <1>3, <2>3, WhereConcat
    <2> HIDE DEF t
    <2>6. Owns(th[p], x)' = N(t, Drop(x)) /\ Title(th[p], x)' = N(t, {Task("open", x)})
        BY <2>3, LeavesOwns
    <2>7. Owns(th[p], x) = Bit(s = x) + N(z, Drop(x)) /\ Title(th[p], x) = N(z, {Task("open", x)})
        BY ONLY <1>1, <2>1 DEF Bit
    <2>8. Owns(th[p], x) \in Nat
        BY OwnsType
    <2> QED BY ONLY <2>1, <2>4, <2>5, <2>6, <2>7, <2>8
<1>5. FreeOnly(th[p])'
    <2>1. \A x \in Socks : Gone(x) => Gone(x)'
        BY <1>2 DEF SameSocks, Gone
    <2>2. \A i \in DOMAIN z : z[i].op = "free" => sock'[z[i].s].mem \in {"dying", "freed"}
        BY <1>1, <2>1, TailFree DEF Accounts
    <2> HIDE DEF z, a
    <2>3. ASSUME NEW i \in DOMAIN t, t[i].op = "free"
          PROVE  sock'[t[i].s].mem \in {"dying", "freed"}
        <3>1. <<a>> \in Seq(Tasks) /\ DOMAIN <<a>> = {1} /\ <<a>>[1] = a
            BY <1>3
        <3>2. (\E j \in DOMAIN <<a>> : t[i] = <<a>>[j]) \/ (\E j \in DOMAIN z : t[i] = z[j])
            BY <1>3, <3>1, ConcatElements
        <3>3. \E j \in DOMAIN z : t[i] = z[j]
            BY <1>3, <2>3, <3>1, <3>2
        <3> QED BY <2>2, <2>3, <3>3
    <2> HIDE DEF t
    <2> QED BY <1>2, <2>3, LeavesFree
<1>6. \A x \in Socks : Opened(x)' = Opened(x) /\ Opened(x) \in Nat
    BY <1>1 DEF Opened
<1>7. \A x \in Socks : ~IsLive(x) => Opened(x) = 0 /\ Owns(th[p], x) = 0
    BY NotLiveIs DEF Accounts, Opened
<1>8. \A x \in Socks :
         /\ sock'[x].mem = sock[x].mem /\ sock'[x].id = sock[x].id
         /\ sock'[x].connecting = sock[x].connecting /\ sock'[x].refs = sock[x].refs
    BY <1>2 DEF SameSocks
<1> HIDE DEF t
<1>9. \A x \in Socks :
         /\ sock'[x].mem = sock[x].mem /\ sock'[x].id = sock[x].id
         /\ sock'[x].connecting = sock[x].connecting
         /\ IsLive(x) => sock'[x].refs + Owns(th[p], x) + Opened(x)
                           = sock[x].refs + Owns(th[p], x)' + Opened(x)'
         /\ ~IsLive(x) => Owns(th[p], x)' = 0 /\ Opened(x)' = 0
         /\ Title(th[p], x)' + Opened(x)' <= Title(th[p], x) + Opened(x)
    BY ONLY <1>4, <1>6, <1>7, <1>8
<1> QED BY ONLY IsFiniteSet(Threads), TypeOK, TypeOK', Accounts, <1>2, <1>5, <1>9, KeepsCounts

\* The memory of a socket that left the tree.
LEMMA FreeKeeps ==
    ASSUME IsFiniteSet(Threads), TypeOK, ShapeInv, TypeOK', Accounts, NEW p \in Threads, Frees(p)
    PROVE  Accounts'
<1> DEFINE s == Head(th[p].todo).s
           z == Tail(th[p].todo)
<1>1. At(p, "finish") /\ Head(th[p].todo).op = "free" /\ Free(p, s) /\ open' = open
    BY DEF Frees
<1>2. /\ Others(p) /\ Leaves(p, z)
      /\ sock'[s].mem = "freed" /\ sock'[s].connecting = <<>> /\ sock'[s].id = sock[s].id
      /\ \A x \in Socks \ {s} : sock'[x] = sock[x]
    BY <1>1, FreeIs
<1>3. s \in Socks
    BY <1>1, FinishType
<1>4. Gone(s)
    <2>1. th[p].todo \in Seq(Tasks) /\ th[p].todo # <<>>
        BY <1>1, FinishType
    <2>2. 1 \in DOMAIN th[p].todo /\ Head(th[p].todo) = th[p].todo[1]
        BY <2>1
    <2>3. th[p].todo[1].op = "free" => Gone(th[p].todo[1].s)
        BY <2>2 DEF Accounts, FreeInv, FreeOnly
    <2> QED BY <1>1, <2>2, <2>3
<1>5. ~IsLive(s) /\ sock[s].connecting = <<>>
    BY <1>3, <1>4 DEF Gone, IsLive, Accounts, EmptyInv
<1>6. ASSUME NEW x \in Socks
      PROVE  Owns(th[p], x)' = Owns(th[p], x) /\ Title(th[p], x)' = Title(th[p], x)
             /\ Title(th[p], x) \in Nat /\ Owns(th[p], x) \in Nat
    <2>1. /\ Owns(th[p], x) = Bit(s = x /\ Head(th[p].todo).op # "free") + N(z, Drop(x))
          /\ Title(th[p], x) = Bit(Head(th[p].todo).op = "open" /\ s = x) + N(z, {Task("open", x)})
          /\ N(z, Drop(x)) \in Nat /\ N(z, {Task("open", x)}) \in Nat
        BY <1>1, TaskOwns
    <2>2. Owns(th[p], x)' = N(z, Drop(x)) /\ Title(th[p], x)' = N(z, {Task("open", x)})
        BY <1>2, LeavesOwns, ZenonT(60)
    <2> HIDE DEF s, z
    <2> QED BY ONLY <1>1, <2>1, <2>2 DEF Bit
<1>7. FreeOnly(th[p])'
    <2>1. \A x \in Socks : Gone(x) => Gone(x)'
        BY <1>2 DEF Gone
    <2>2. \A i \in DOMAIN z : z[i].op = "free" => sock'[z[i].s].mem \in {"dying", "freed"}
        BY <1>1, <2>1, TailFree DEF Accounts
    <2> HIDE DEF z
    <2> QED BY <1>2, <2>2, LeavesFree
<1>8. ASSUME NEW x \in Socks
      PROVE  /\ RefsOf(x)' + Owns(th[p], x) + Linked(x) + Opened(x)
                  = RefsOf(x) + Owns(th[p], x)' + Linked(x)' + Opened(x)'
             /\ Title(th[p], x)' + Opened(x)' <= Title(th[p], x) + Opened(x)
    <2>1. Opened(x)' = Opened(x) /\ Opened(x) \in Nat
        BY <1>1 DEF Opened
    <2>2. RefsOf(x)' = RefsOf(x)
        <3>1. CASE x = s
            BY <1>2, <1>5, <3>1 DEF RefsOf, IsLive
        <3>2. CASE x # s
            BY <1>2, <3>2 DEF RefsOf, IsLive
        <3> QED BY <3>1, <3>2
    <2>3. Linked(x)' = Linked(x)
        <3>1. \A y \in Socks : sock'[y].connecting = sock[y].connecting
            BY <1>2, <1>5
        <3> QED BY <3>1, LinkedSame
    <2>4. Owns(th[p], x)' = Owns(th[p], x) /\ Title(th[p], x)' = Title(th[p], x)
          /\ Title(th[p], x) \in Nat
        BY <1>6
    <2> QED BY ONLY <2>1, <2>2, <2>3, <2>4
<1>9. \A x \in Socks : /\ sock'[x].id = sock[x].id
                       /\ IsLive(x)' => IsLive(x)
                       /\ ~IsLive(x)' => sock'[x].connecting = <<>>
                       /\ Gone(x) => Gone(x)'
    BY <1>2, <1>5 DEF Accounts, EmptyInv, IsLive, Gone
<1> HIDE DEF s, z
<1> QED BY ONLY IsFiniteSet(Threads), TypeOK, TypeOK', Accounts, <1>2, <1>7, <1>8, <1>9, Keeps

\* The call returns a file: the tree's reference is the file's from now on.
LEMMA OpensKeeps ==
    ASSUME IsFiniteSet(Threads), TypeOK, ShapeInv, TypeOK', Accounts, NEW p \in Threads, Opens(p)
    PROVE  Accounts'
<1> DEFINE s == Head(th[p].todo).s
           z == Tail(th[p].todo)
<1>1. /\ At(p, "finish") /\ Head(th[p].todo).op = "open" /\ th' = Leave(p, z)
      /\ open' = open \cup {s} /\ sock' = sock
    BY DEF Opens
<1>2. Others(p) /\ Leaves(p, z)
    BY <1>1, FileOpenIs
<1>3. s \in Socks
    BY <1>1, FinishType
<1>4. ASSUME NEW x \in Socks
      PROVE  /\ Owns(th[p], x) = Bit(s = x) + Owns(th[p], x)' /\ Owns(th[p], x)' \in Nat
             /\ Title(th[p], x) = Bit(s = x) + Title(th[p], x)' /\ Title(th[p], x)' \in Nat
    <2>1. /\ Owns(th[p], x) = Bit(s = x /\ Head(th[p].todo).op # "free") + N(z, Drop(x))
          /\ Title(th[p], x) = Bit(Head(th[p].todo).op = "open" /\ s = x) + N(z, {Task("open", x)})
          /\ N(z, Drop(x)) \in Nat /\ N(z, {Task("open", x)}) \in Nat
        BY <1>1, TaskOwns
    <2>2. Owns(th[p], x)' = N(z, Drop(x)) /\ Title(th[p], x)' = N(z, {Task("open", x)})
        BY <1>2, LeavesOwns
    <2> HIDE DEF s, z
    <2> QED BY ONLY <1>1, <2>1, <2>2 DEF Bit
<1>5. ASSUME NEW x \in Socks, x = s PROVE IsLive(x) /\ Opened(x) = 0
    <2> HIDE DEF s, z
    <2>1. Owns(th[p], x) = Bit(s = x) + Owns(th[p], x)' /\ Owns(th[p], x)' \in Nat
          /\ Title(th[p], x) = Bit(s = x) + Title(th[p], x)' /\ Title(th[p], x)' \in Nat
        BY <1>4
    <2>2. Owns(th[p], x) > 0 /\ Title(th[p], x) > 0 /\ Title(th[p], x) \in Nat
        BY ONLY <1>5, <2>1 DEF Bit
    <2>3. IsLive(x)
        BY <2>2, OwnedIsLive DEF Accounts
    <2>4. Title(th[p], x) <= Titled(x) /\ Titled(x) \in Nat
        BY TitledType
    <2>5. Titled(x) + Opened(x) <= 1 /\ Opened(x) \in Nat
        BY DEF Accounts, TitleInv, Opened
    <2> QED BY ONLY <2>2, <2>3, <2>4, <2>5
<1>6. FreeOnly(th[p])'
    <2>1. \A x \in Socks : Gone(x) => Gone(x)'
        BY <1>1 DEF Gone
    <2>2. \A i \in DOMAIN z : z[i].op = "free" => sock'[z[i].s].mem \in {"dying", "freed"}
        BY <1>1, <2>1, TailFree DEF Accounts
    <2> HIDE DEF z
    <2> QED BY <1>2, <2>2, LeavesFree
<1>7. ASSUME NEW x \in Socks
      PROVE  /\ sock'[x].mem = sock[x].mem /\ sock'[x].id = sock[x].id
             /\ sock'[x].connecting = sock[x].connecting
             /\ IsLive(x) => sock'[x].refs + Owns(th[p], x) + Opened(x)
                               = sock[x].refs + Owns(th[p], x)' + Opened(x)'
             /\ ~IsLive(x) => Owns(th[p], x)' = 0 /\ Opened(x)' = 0
             /\ Title(th[p], x)' + Opened(x)' <= Title(th[p], x) + Opened(x)
    <2>1. Opened(x) \in Nat /\ (x = s => Opened(x)' = 1) /\ (x # s => Opened(x)' = Opened(x))
        BY <1>1 DEF Opened
    <2>2. sock[x].refs \in Nat
        BY DEF TypeOK, Sockets
    <2>3. ~IsLive(x) => Owns(th[p], x) = 0 /\ Opened(x) = 0
        BY NotLiveIs DEF Accounts, Opened
    <2> HIDE DEF s, z
    <2>4. CASE x = s
        <3>1. Opened(x) = 0 /\ IsLive(x) /\ Opened(x)' = 1
            BY <1>5, <2>1, <2>4
        <3>2. Owns(th[p], x) = 1 + Owns(th[p], x)' /\ Title(th[p], x) = 1 + Title(th[p], x)'
            BY <1>4, <2>4 DEF Bit
        <3> QED BY <1>1, <1>4, <2>2, <3>1, <3>2
    <2>5. CASE x # s
        <3>1. Owns(th[p], x) = Owns(th[p], x)' /\ Title(th[p], x) = Title(th[p], x)'
            BY <1>4, <2>5 DEF Bit
        <3> QED BY <1>1, <1>4, <2>1, <2>2, <2>3, <2>5, <3>1
    <2> QED BY <2>4, <2>5
<1> HIDE DEF s, z
<1> QED BY ONLY IsFiniteSet(Threads), TypeOK, TypeOK', Accounts, <1>2, <1>6, <1>7, KeepsCounts

\* Every step of a thread keeps the accounts, and a call of shutdown() is not made.
LEMMA AccountsStep ==
    ASSUME IsFiniteSet(Threads), "shutdown" \notin Ops, TypeOK, ShapeInv, Accounts,
           NEW p \in Threads, Does(p)
    PROVE  Accounts'
<1>0. TypeOK' /\ ShapeInv'
    BY StepType
<1>1. CASE Looks(p)
    BY <1>0, <1>1, LooksQuiet, QuietKeeps
<1>2. CASE unix_socket(p)
    BY <1>0, <1>2, SocketKeeps
<1>3. CASE unix_socketpair(p)
    BY <1>0, <1>3, SocketpairKeeps
<1>4. CASE PairFails(p)
    BY <1>0, <1>4, PairFailsKeeps
<1>5. CASE PairSecond(p)
    BY <1>0, <1>5, PairSecondKeeps
<1>6. CASE AcceptAlloc(p)
    BY <1>0, <1>6, AcceptAllocKeeps
<1>7. CASE \E f \in open, l \in {"bind", "accept", "listen", "connect"} : Enter(p, f, l)
    BY <1>0, <1>7, EnterKeeps
<1>8. CASE \E f \in open : unix_close(p, f)
    BY <1>0, <1>8, CloseKeeps
<1>9. CASE ConnectLookup(p)
    BY <1>0, <1>9, ConnectLookupKeeps
<1>10. CASE ConnectRef(p)
    BY <1>0, <1>10, ConnectRefKeeps
<1>11. CASE ConnectAdd(p)
    BY <1>0, <1>11, ConnectAddKeeps
<1>12. CASE ConnectUnlink(p)
    BY <1>0, <1>12, ConnectUnlinkKeeps
<1>13. CASE AcceptTake(p)
    BY <1>0, <1>13, AcceptTakeKeeps
<1>14. CASE AcceptPair(p)
    BY <1>0, <1>14, AcceptPairKeeps
<1>15. CASE Puts(p)
    BY <1>0, <1>15, PutKeeps, PutLastKeeps
<1>16. CASE DetachesOne(p)
    BY <1>0, <1>16, DetachKeeps
<1>17. CASE Frees(p)
    BY <1>0, <1>17, FreeKeeps
<1>18. CASE Opens(p)
    BY <1>0, <1>18, OpensKeeps
<1> QED BY <1>1, <1>2, <1>3, <1>4, <1>5, <1>6, <1>7, <1>8, <1>9, <1>10, <1>11, <1>12, <1>13,
           <1>14, <1>15, <1>16, <1>17, <1>18 DEF Does

\* A step that touches neither sockets nor calls nor files.
LEMMA AccountsSame ==
    ASSUME Accounts, sock' = sock, th' = th, open' = open PROVE Accounts'
<1>2. AccountInv'
    <2>1. \A x : Holders(x)' = Holders(x) /\ Drops(x)' = Drops(x) /\ Links(x)' = Links(x)
        BY DEF Holders, Drops, Links, Roles
    <2>2. \A x \in Socks : RefsOf(x)' = RefsOf(x) /\ Claims(x)' = Claims(x) /\ Linked(x)' = Linked(x)
                           /\ Opened(x)' = Opened(x)
        BY <2>1 DEF RefsOf, Claims, Linked, Opened, IsLive
    <2> QED BY <2>2 DEF Accounts, AccountInv
<1>3. TitleInv'
    <2>1. \A x : Titles(x)' = Titles(x)
        BY DEF Titles, TitlesOf
    <2>2. \A x \in Socks : Titled(x)' = Titled(x) /\ Opened(x)' = Opened(x)
        BY <2>1 DEF Titled, Opened
    <2> QED BY <2>2 DEF Accounts, TitleInv
<1>4. FreeInv' /\ EmptyInv' /\ IdsInv'
    BY DEF Accounts, FreeInv, FreeOnly, Gone, EmptyInv, IdsInv, IsLive, Live
<1> QED BY <1>2, <1>3, <1>4 DEF Accounts

\* At start nothing is counted and nobody owns anything.
LEMMA AccountsInit ==
    ASSUME IsFiniteSet(Threads), Init PROVE Accounts
<1>1. TypeOK
    <2>1. Blank \in Sockets
        <3>1. <<>> \in Seq(Socks) /\ 0 \in Ids
            BY MaxSocksAssumption DEF Ids
        <3> QED BY <3>1 DEF Blank, Sockets
    <2> QED BY <2>1, UserType DEF Init, TypeOK
<1>2. ASSUME NEW x \in Socks
      PROVE  /\ sock[x].mem = "unused" /\ sock[x].connecting = <<>> /\ x \notin open
             /\ Holders(x) = {} /\ Drops(x) = {} /\ Links(x) = {} /\ Titles(x) = {}
    <2>1. sock[x].mem = "unused" /\ sock[x].connecting = <<>> /\ x \notin open
        BY DEF Init, Blank
    <2>2. \A p \in Threads : /\ th[p].s # x /\ th[p].r # x /\ th[p].new # x
                             /\ th[p].todo = <<>>
        BY SocksType DEF Init, User
    <2>3. Holders(x) = {} /\ Drops(x) = {}
        BY <2>2 DEF Holders, Drops, Roles, Pending
    <2>4. Titles(x) = {}
        BY <2>2 DEF Titles, TitlesOf
    <2>5. Links(x) = {}
        BY DEF Links, Positions, Init, Blank
    <2> QED BY <2>1, <2>3, <2>4, <2>5
<1>3. ASSUME NEW x \in Socks
      PROVE  RefsOf(x) = 0 /\ Claims(x) = 0 /\ Linked(x) = 0 /\ Opened(x) = 0 /\ Titled(x) = 0
    <2>1. RefsOf(x) = 0 /\ Opened(x) = 0
        BY <1>2 DEF RefsOf, IsLive, Opened
    <2>2. Claims(x) = 0
        <3>1. Cardinality(Holders(x)) = 0 /\ Cardinality(Drops(x)) = 0
            BY <1>2, FS_EmptySet, Zenon
        <3> QED BY <3>1 DEF Claims
    <2>3. Linked(x) = 0 /\ Titled(x) = 0
        BY <1>2, FS_EmptySet, Zenon DEF Linked, Titled
    <2> QED BY <2>1, <2>2, <2>3
<1>4. AccountInv /\ TitleInv
    BY <1>3 DEF AccountInv, TitleInv
<1>5. FreeInv
    BY DEF Init, User, FreeInv, FreeOnly
<1>6. EmptyInv /\ IdsInv
    BY <1>2 DEF EmptyInv, IdsInv, Live
<1> QED BY <1>4, <1>5, <1>6 DEF Accounts

-----------------------------------------------------------------------------
(* The theorems about references *)

\* The inductive invariant of unixsock_alloc, unixsock_get and unixsock_put and of all the
\* calls that use them: the count of a socket in the tree is the number of its owners, one
\* that has left the tree has none and no list, the tree's reference has at most one heir,
\* and an id names one socket.  shutdown() is left out: it drops the tree's reference and
\* leaves the file open, and the next drop is one too many (line 1233).
THEOREM AccountsHold ==
    ASSUME "shutdown" \notin Ops PROVE Spec => []Accounts
<1> USE ThreadsAssumption
<1>1. Init => Accounts
    BY AccountsInit
<1>2. TypeOK /\ ShapeInv /\ Accounts /\ [Next]_vars => Accounts'
    <2> SUFFICES ASSUME TypeOK, ShapeInv, Accounts, [Next]_vars PROVE Accounts'
        OBVIOUS
    <2>1. CASE UNCHANGED vars
        BY <2>1, AccountsSame DEF vars
    <2>2. CASE Unlink
        BY <2>2, AccountsSame DEF Unlink
    <2>3. ASSUME NEW p \in Threads, Does(p) PROVE Accounts'
        BY <2>3, AccountsStep
    <2> QED BY <2>1, <2>2, <2>3, NextDoes
<1> QED BY <1>1, <1>2, TypeCorrect, PTL DEF Spec

\* The account is more than the two properties say: reference counts balance, and no call
\* uses what was freed.
LEMMA Balanced ==
    ASSUME TypeOK, Accounts PROVE RefsBalance /\ NoUseAfterFree
<1> USE ThreadsAssumption
<1>1. RefsBalance
    <2>1. ASSUME NEW s \in Live
          PROVE  sock[s].refs = Cardinality(Holders(s)) + Cardinality(Drops(s)) + Cardinality(Links(s))
                                  + (IF s \in open THEN 1 ELSE 0)
        <3>1. s \in Socks /\ RefsOf(s) = sock[s].refs
            BY DEF Live, IsLive, RefsOf
        <3>2. RefsOf(s) = Claims(s) + Linked(s) + Opened(s)
            BY <3>1 DEF Accounts, AccountInv
        <3> QED BY <3>1, <3>2 DEF Claims, Linked, Opened
    <2> QED BY <2>1 DEF RefsBalance
<1>2. NoUseAfterFree
    <2>1. ASSUME NEW s \in Socks, ~IsLive(s)
          PROVE  Holders(s) = {} /\ Drops(s) = {} /\ Links(s) = {}
        <3>1. Claims(s) = 0 /\ Linked(s) = 0
            BY <2>1, NotLiveIs DEF Accounts
        <3> QED BY <3>1, ClaimsType, LinkedType
    <2> QED BY <2>1 DEF NoUseAfterFree, IsLive
<1> QED BY <1>1, <1>2

\* No path of connect(), accept(), the timeout, the failure paths or the teardown of a
\* listener in unixsock_put drops a reference too many, or keeps one.
THEOREM RefsAreBalanced ==
    ASSUME "shutdown" \notin Ops PROVE Spec => []RefsBalance
<1>1. TypeOK /\ Accounts => RefsBalance
    BY Balanced
<1> QED BY <1>1, AccountsHold, TypeCorrect, PTL

\* Whatever a call, a drop to come or a list of connecting sockets points at has not been
\* freed by unixsock_put, for any number of threads and sockets.
THEOREM NoUseAfterFreeHolds ==
    ASSUME "shutdown" \notin Ops PROVE Spec => []NoUseAfterFree
<1>1. TypeOK /\ Accounts => NoUseAfterFree
    BY Balanced
<1> QED BY <1>1, AccountsHold, TypeCorrect, PTL

-----------------------------------------------------------------------------
(* Sockets in limbo *)

\* From the moment it is queued until it is accepted or told that its listener is gone, a
\* socket is in limbo: on a list, in the hands of an accept() (place 0 of its call), or
\* about to be detached.
Handling(c, x) == Bit(c.pc = "acceptPair" /\ c.r = x) + N(c.todo, {Task("detach", x)})
HandlingsOf(c, x) ==
    {i \in {0} \cup DOMAIN c.todo :
        IF i = 0 THEN c.pc = "acceptPair" /\ c.r = x ELSE c.todo[i] = Task("detach", x)}
Handlings(x) == UNION {{p} \X HandlingsOf(th[p], x) : p \in Threads}
Limbo(x) == Linked(x) + Cardinality(Handlings(x))

\* The handlings of x by a call are as many as they are counted.
LEMMA HandlingCount ==
    ASSUME NEW c, c.todo \in Seq(Tasks), NEW x
    PROVE  IsFiniteSet(HandlingsOf(c, x)) /\ Cardinality(HandlingsOf(c, x)) = Handling(c, x)
           /\ Handling(c, x) \in Nat
<1> DEFINE b == c.pc = "acceptPair" /\ c.r = x
           A == IF b THEN {0} ELSE {}
           B == Where(c.todo, {Task("detach", x)})
<1>1. DOMAIN c.todo = 1..Len(c.todo) /\ Len(c.todo) \in Nat
    OBVIOUS
<1>2. HandlingsOf(c, x) = A \cup B
    BY <1>1 DEF HandlingsOf, Where
<1>3. A \cap B = {}
    BY <1>1 DEF Where
<1>4. IsFiniteSet(B) /\ Cardinality(B) = N(c.todo, {Task("detach", x)}) /\ Cardinality(B) \in Nat
    BY WhereFinite DEF N
<1>5. b \in BOOLEAN /\ A = IF b THEN {0} ELSE {}
    OBVIOUS
<1>6. Handling(c, x) = Bit(b) + N(c.todo, {Task("detach", x)})
    BY DEF Handling
<1> HIDE DEF A, B, b
<1>7. IsFiniteSet(A) /\ Cardinality(A) = Bit(b)
    BY <1>5, BitSet
<1>8. Bit(b) \in Nat
    BY DEF Bit
<1>9. IsFiniteSet(A \cup B) /\ Cardinality(A \cup B) = Cardinality(A) + Cardinality(B)
    BY ONLY <1>3, <1>4, <1>7, DisjointSize
<1> DEFINE n == Bit(b)
           m == N(c.todo, {Task("detach", x)})
<1>10. n \in Nat /\ m \in Nat /\ n + m \in Nat
    BY <1>4, <1>8
<1> HIDE DEF n, m
<1> QED BY <1>2, <1>4, <1>6, <1>7, <1>9, <1>10 DEF n, m

\* A step changes what its own call handles, and the lists.
LEMMA LimboChange ==
    ASSUME TypeOK, TypeOK', NEW p \in Threads, Others(p), NEW x
    PROVE  /\ Limbo(x)' + Handling(th[p], x) + Linked(x) = Limbo(x) + Handling(th[p], x)' + Linked(x)'
           /\ Limbo(x) \in Nat /\ Limbo(x)' \in Nat /\ Linked(x) \in Nat /\ Linked(x)' \in Nat
           /\ Handling(th[p], x) \in Nat /\ Handling(th[p], x)' \in Nat
<1> USE ThreadsAssumption
<1> DEFINE F == [q \in Threads |-> HandlingsOf(th[q], x)]
           F1 == [q \in Threads |-> HandlingsOf(th'[q], x)]
<1>1. \A q \in Threads : th[q].todo \in Seq(Tasks) /\ th'[q].todo \in Seq(Tasks)
    BY DEF TypeOK, Calls
<1>2. \A q \in Threads : /\ IsFiniteSet(F[q]) /\ Cardinality(F[q]) = Handling(th[q], x)
                         /\ IsFiniteSet(F1[q]) /\ Cardinality(F1[q]) = Handling(th'[q], x)
    BY <1>1, HandlingCount
<1>3. Handlings(x) = Pairs(Threads, F) /\ Handlings(x)' = Pairs(Threads, F1)
    BY DEF Handlings, Pairs
<1>4. \A q \in Threads \ {p} : F[q] = F1[q]
    BY DEF Others, SameRefs, Wakes, HandlingsOf
<1>5. Handling(th[p], x)' = Handling(th'[p], x)
    BY DEF Handling, N, Where
<1> HIDE DEF F, F1
<1>6. Cardinality(Pairs(Threads, F1)) + Cardinality(F[p]) = Cardinality(Pairs(Threads, F)) + Cardinality(F1[p])
    BY <1>2, <1>4, PairsChange
<1>7. Cardinality(F[p]) = Handling(th[p], x) /\ Cardinality(F1[p]) = Handling(th'[p], x)
    BY <1>2
<1>8. Limbo(x) = Linked(x) + Cardinality(Handlings(x))
      /\ Limbo(x)' = Linked(x)' + Cardinality(Handlings(x)')
    BY DEF Limbo
<1>9. Cardinality(Pairs(Threads, F)) \in Nat /\ Cardinality(Pairs(Threads, F1)) \in Nat
    BY <1>2, PairsFinite
<1>10. Handling(th[p], x) \in Nat /\ Handling(th'[p], x) \in Nat
    BY <1>1, HandlingCount
<1>11. Linked(x) \in Nat /\ Linked(x)' \in Nat
    BY LinkedType, LinkedTypeNext
<1> DEFINE c == Cardinality(Pairs(Threads, F))
           c1 == Cardinality(Pairs(Threads, F1))
<1>12. Limbo(x) = Linked(x) + c /\ Limbo(x)' = Linked(x)' + c1
    BY ONLY <1>3, <1>8, Zenon
<1>13. c \in Nat /\ c1 \in Nat /\ c1 + Handling(th[p], x) = c + Handling(th[p], x)'
    BY ONLY <1>5, <1>6, <1>7, <1>9, Zenon
<1>14. Handling(th[p], x)' \in Nat
    BY ONLY <1>5, <1>10, Zenon
<1> HIDE DEF c, c1
<1> QED BY ONLY <1>10, <1>11, <1>12, <1>13, <1>14

\* The hands of one call.
LEMMA LimboType ==
    ASSUME TypeOK, NEW x
    PROVE  Limbo(x) \in Nat /\ \A p \in Threads : Handling(th[p], x) <= Limbo(x)
<1> USE ThreadsAssumption
<1> DEFINE F == [p \in Threads |-> HandlingsOf(th[p], x)]
<1>1. \A p \in Threads : /\ IsFiniteSet(F[p]) /\ Cardinality(F[p]) = Handling(th[p], x)
                         /\ Handling(th[p], x) \in Nat
    BY OwnsType, HandlingCount
<1>2. Handlings(x) = Pairs(Threads, F)
    BY DEF Handlings, Pairs
<1> HIDE DEF F
<1>3. Cardinality(Pairs(Threads, F)) \in Nat
    BY <1>1, PairsFinite
<1>4. Linked(x) \in Nat
    BY LinkedType
<1>5. ASSUME NEW p \in Threads PROVE Handling(th[p], x) <= Limbo(x)
    <2>1. /\ Cardinality(Pairs(Threads, F)) = Cardinality(F[p]) + Cardinality(Pairs(Threads \ {p}, F))
          /\ Cardinality(Pairs(Threads \ {p}, F)) \in Nat
        BY <1>1, PairsSplit
    <2>2. Cardinality(F[p]) = Handling(th[p], x) /\ Handling(th[p], x) \in Nat
        BY <1>1
    <2> QED BY <1>2, <1>4, <2>1, <2>2 DEF Limbo
<1> QED BY <1>2, <1>3, <1>4, <1>5 DEF Limbo

\* What is not in the tree is not in limbo.
LEMMA NotLiveLimbo ==
    ASSUME TypeOK, Accounts, NEW x \in Socks, ~IsLive(x) PROVE Limbo(x) = 0
<1> USE ThreadsAssumption
<1>1. Claims(x) = 0 /\ Linked(x) = 0
    BY NotLiveIs DEF Accounts
<1>2. Holders(x) = {} /\ Drops(x) = {}
    BY <1>1, ClaimsType
<1>3. Handlings(x) = {}
    <2>1. ASSUME NEW p \in Threads, NEW i \in HandlingsOf(th[p], x) PROVE FALSE
        <3>1. CASE i = 0
            <4>1. "r" \in Roles(th[p], x)
                BY <2>1, <3>1 DEF HandlingsOf, Roles
            <4>2. <<p, "r">> \in Holders(x)
                BY <4>1 DEF Holders
            <4> QED BY <1>2, <4>2
        <3>2. CASE i # 0
            <4>1. i \in Pending(th[p].todo, x)
                BY <2>1, <3>2 DEF HandlingsOf, Pending, Task
            <4>2. <<p, i>> \in Drops(x)
                BY <4>1 DEF Drops
            <4> QED BY <1>2, <4>2
        <3> QED BY <3>1, <3>2
    <2> QED BY <2>1 DEF Handlings
<1> QED BY <1>1, <1>3, FS_EmptySet DEF Limbo

-----------------------------------------------------------------------------
(* Peers *)

\* Where the connect() of a socket in limbo is while the socket does not say
\* US_CONNECTING, and where it is after it found the socket free and before it is queued.
LatePoints == {"connectMark", "connectStore", "connectUnlink", "lateLoop", "lateSleep"}
Late(c, x) == c.s = x /\ c.pc \in LatePoints
Checked == {"connectLookup", "connectRemote", "connectRef", "connectAdd"}

\* A socket is in limbo once and has no peer then; another connect() is kept out, by the flag
\* or because the socket's own has not returned.
LimboInv ==
    \A x \in Socks :
       /\ Limbo(x) <= 1
       /\ Limbo(x) >= 1 => /\ sock[x].remote = NULL
                           /\ "CONNECTING" \in sock[x].state \/ \E p \in Threads : Late(th[p], x)

\* Nobody knows a socket that no file is open for yet.
NewInv ==
    \A p \in Threads, x \in Socks :
       th[p].new = x => /\ sock[x].remote = NULL /\ Limbo(x) = 0
                        /\ \A q \in Threads : th[q].s # x

\* A connect() that has not queued its socket still finds it as it checked it.
ConnectInv ==
    \A p \in Threads, x \in Socks :
       th[p].s = x /\ th[p].pc \in Checked => sock[x].remote = NULL /\ Limbo(x) = 0

\* One connect() or listen() at a time.
SetUpInv ==
    \A p, q \in Threads, x \in Socks :
       /\ th[p].s = x /\ th[p].pc \in SetUpLocations
       /\ th[q].s = x /\ th[q].pc \in SetUpLocations
       => p = q

Peers == LimboInv /\ NewInv /\ ConnectInv /\ SetUpInv

\* connect() queues its socket.
Queues(p, x) ==
    /\ th[p].s = x /\ th[p].pc = "connectAdd"
    /\ th'[p].s = x /\ th'[p].pc = "connectMark"
    /\ Limbo(x)' = Limbo(x) + 1

\* Where the call of p goes, as far as x has to do with it.
Steers(p, x) ==
    /\ th'[p].new = x =>
          /\ th'[p].s = th[p].s
          /\ \/ th[p].new = x /\ sock'[x].remote = sock[x].remote
             \/ ~IsLive(x) /\ sock'[x].remote = NULL
    /\ th'[p].s = x => th[p].s = x \/ x \in open
    /\ th'[p].s = x /\ th'[p].pc \in Checked =>
          /\ th[p].s = x /\ sock'[x].remote = sock[x].remote
          /\ \/ th[p].pc \in Checked \ {"connectAdd"}
             \/ th[p].pc = "connect" /\ "CONNECTING" \notin sock[x].state /\ sock[x].remote = NULL
    /\ th'[p].s = x /\ th'[p].pc \in SetUpLocations =>
          \/ th[p].s = x /\ th[p].pc \in SetUpLocations
          \/ \A q \in Threads : th[q].s = x => th[q].pc \notin SetUpLocations

\* What a step of p does to x.
Treats(p, x) ==
    /\ Limbo(x)' <= Limbo(x) \/ Queues(p, x)
    /\ \/ sock'[x].remote \in {sock[x].remote, NULL}
       \/ Limbo(x) >= 1 /\ Limbo(x)' = 0
       \/ x = th[p].new
       \/ ~IsLive(x)
    /\ "CONNECTING" \in sock[x].state =>
          "CONNECTING" \in sock'[x].state \/ Late(th'[p], x) \/ Limbo(x)' = 0
    /\ Late(th[p], x) =>
          \/ Late(th'[p], x) \/ "CONNECTING" \in sock'[x].state
          \/ sock[x].remote # NULL \/ Limbo(x)' = 0
    /\ Steers(p, x)

\* Two calls cannot have the same new socket, and no file is open for it.
LEMMA NewIsOwn ==
    ASSUME TypeOK, Accounts, NEW p \in Threads, NEW x \in Socks, th[p].new = x
    PROVE  x \notin open /\ IsLive(x) /\ \A q \in Threads \ {p} : th[q].new # x
<1> USE ThreadsAssumption
<1>1. IsLive(x)
    BY PointedIsLive DEF Accounts
<1>2. Titled(x) + Opened(x) <= 1 /\ Titled(x) \in Nat /\ Opened(x) \in Nat
    BY TitledType DEF Accounts, TitleInv, Opened
<1>3. Title(th[p], x) >= 1 /\ Title(th[p], x) \in Nat
    <2>1. Bit(th[p].new = x) = 1 /\ N(th[p].todo, {Task("open", x)}) \in Nat
        BY OwnsType DEF Bit
    <2> QED BY <2>1 DEF Title
<1>4. Title(th[p], x) <= Titled(x)
    BY TitledType
<1>5. Titled(x) = 1 /\ Opened(x) = 0
    BY <1>2, <1>3, <1>4
<1>6. ASSUME NEW q \in Threads \ {p} PROVE th[q].new # x
    <2> DEFINE F == [y \in Threads |-> TitlesOf(th[y], x)]
    <2>1. \A y \in Threads : /\ IsFiniteSet(F[y]) /\ Cardinality(F[y]) = Title(th[y], x)
        BY OwnsType, TitleCount
    <2>2. Titles(x) = Pairs(Threads, F) /\ (th[q].new = x => 0 \in F[q])
        BY DEF Titles, Pairs, TitlesOf
    <2> HIDE DEF F
    <2>3. Cardinality(Pairs(Threads, F)) <= Cardinality(F[p])
        BY <1>3, <1>5, <2>1, <2>2 DEF Titled
    <2>4. F[q] = {}
        BY <2>1, <2>3, PairsOnly
    <2> QED BY <2>2, <2>4
<1> QED BY <1>1, <1>5, <1>6 DEF Opened

\* No step that treats every socket well brings one into limbo twice, or one that has a
\* peer.
LEMMA LimboKeeps ==
    ASSUME TypeOK, TypeOK', Accounts, Peers, NEW p \in Threads, Others(p),
           \A x \in Socks : Treats(p, x)
    PROVE  LimboInv'
<1> SUFFICES ASSUME NEW x \in Socks
      PROVE  /\ Limbo(x)' <= 1
             /\ Limbo(x)' >= 1 => /\ sock'[x].remote = NULL
                                  /\ "CONNECTING" \in sock'[x].state \/ \E q \in Threads : Late(th'[q], x)
    BY DEF LimboInv, Late
<1>1. Treats(p, x) /\ Limbo(x) \in Nat /\ Limbo(x)' \in Nat
    BY LimboChange
<1>2. /\ Limbo(x) <= 1
      /\ Limbo(x) >= 1 => /\ sock[x].remote = NULL
                          /\ "CONNECTING" \in sock[x].state \/ \E q \in Threads : Late(th[q], x)
    BY DEF Peers, LimboInv
<1>3. \A q \in Threads \ {p} : Late(th[q], x) => Late(th'[q], x)
    BY DEF Others, SameRefs, Wakes, Late, LatePoints
<1>4. x = th[p].new => Limbo(x) = 0
    BY DEF Peers, NewInv
<1>5. ~IsLive(x) => Limbo(x) = 0
    BY NotLiveLimbo
<1>6. CASE Queues(p, x)
    <2>1. Limbo(x) = 0 /\ sock[x].remote = NULL
        BY <1>6 DEF Queues, Peers, ConnectInv, Checked
    <2>2. Limbo(x)' = 1 /\ Late(th'[p], x) /\ th[p].s = x
        BY <1>1, <1>6, <2>1 DEF Queues, Late, LatePoints
    <2>3. x # th[p].new /\ IsLive(x)
        BY <2>2, PointedIsLive, ThreadsAssumption DEF Peers, NewInv, Accounts
    <2>4. sock'[x].remote = NULL
        BY <1>1, <2>1, <2>2, <2>3 DEF Treats, Steers
    <2> QED BY <2>2, <2>4
<1>7. CASE ~Queues(p, x)
    <2>1. Limbo(x)' <= Limbo(x)
        BY <1>1, <1>7 DEF Treats, Steers
    <2>2. ASSUME Limbo(x)' >= 1
          PROVE  sock'[x].remote = NULL
                 /\ ("CONNECTING" \in sock'[x].state \/ \E q \in Threads : Late(th'[q], x))
        <3>1. Limbo(x) = 1 /\ sock[x].remote = NULL
              /\ ("CONNECTING" \in sock[x].state \/ \E q \in Threads : Late(th[q], x))
            BY <1>1, <1>2, <2>1, <2>2
        <3>2. sock'[x].remote = NULL
            BY <1>1, <1>4, <1>5, <2>2, <3>1 DEF Treats, Steers
        <3>3. CASE "CONNECTING" \in sock[x].state
            BY <1>1, <2>2, <3>2, <3>3 DEF Treats, Steers
        <3>4. CASE \E q \in Threads : Late(th[q], x)
            BY <1>1, <1>3, <2>2, <3>1, <3>2, <3>4 DEF Treats, Steers
        <3> QED BY <3>1, <3>2, <3>3, <3>4
    <2> QED BY <1>1, <1>2, <2>1, <2>2
<1> QED BY <1>6, <1>7

\* No step that treats every socket well makes a socket known before its file is open.
LEMMA NewKeeps ==
    ASSUME TypeOK, TypeOK', Accounts, Peers, NEW p \in Threads, Others(p),
           \A x \in Socks : Treats(p, x)
    PROVE  NewInv'
<1> SUFFICES ASSUME NEW q \in Threads, NEW x \in Socks, th'[q].new = x
      PROVE  /\ sock'[x].remote = NULL /\ Limbo(x)' = 0
             /\ \A y \in Threads : th'[y].s # x
    BY DEF NewInv
<1>1. Treats(p, x) /\ Limbo(x) \in Nat /\ Limbo(x)' \in Nat
    BY LimboChange
<1>2. \A y \in Threads \ {p} : th'[y].s = th[y].s /\ th'[y].new = th[y].new
    BY DEF Others, SameRefs
<1>3. CASE th[q].new = x
    <2>1. sock[x].remote = NULL /\ Limbo(x) = 0 /\ \A y \in Threads : th[y].s # x
        BY <1>3 DEF Peers, NewInv
    <2>2. x \notin open /\ IsLive(x) /\ (q # p => th[p].new # x)
        BY <1>3, NewIsOwn
    <2>3. Limbo(x)' = 0
        BY <1>1, <2>1 DEF Treats, Steers, Queues
    <2>4. th'[p].s # x
        BY <1>1, <2>1, <2>2 DEF Treats, Steers
    <2>5. sock'[x].remote = NULL
        BY <1>1, <2>1, <2>2 DEF Treats, Steers
    <2> QED BY <1>2, <2>1, <2>3, <2>4, <2>5
<1>4. CASE th[q].new # x
    <2>1. q = p
        BY <1>2, <1>4
    <2>2. ~IsLive(x) /\ sock'[x].remote = NULL /\ th'[p].s = th[p].s
        BY <1>1, <1>4, <2>1 DEF Treats, Steers
    <2>3. Limbo(x) = 0 /\ \A y \in Threads : th[y].s # x
        BY <2>2, NotLiveLimbo, PointedIsLive, ThreadsAssumption DEF Accounts
    <2>4. Limbo(x)' = 0
        BY <1>1, <2>3 DEF Treats, Steers, Queues
    <2> QED BY <1>2, <2>2, <2>3, <2>4
<1> QED BY <1>3, <1>4

\* No step that treats every socket well changes a socket behind the back of the connect()
\* that has checked it.
LEMMA ConnectKeeps ==
    ASSUME TypeOK, TypeOK', Accounts, Peers, NEW p \in Threads, Others(p),
           \A x \in Socks : Treats(p, x)
    PROVE  ConnectInv'
<1> SUFFICES ASSUME NEW q \in Threads, NEW x \in Socks, th'[q].s = x, th'[q].pc \in Checked
      PROVE  sock'[x].remote = NULL /\ Limbo(x)' = 0
    BY DEF ConnectInv
<1>1. Treats(p, x) /\ Limbo(x) \in Nat /\ Limbo(x)' \in Nat
    BY LimboChange
<1>2. CASE q # p
    <2>1. th[q].s = x /\ th[q].pc \in Checked
        BY <1>2 DEF Others, SameRefs, Wakes, Checked
    <2>2. sock[x].remote = NULL /\ Limbo(x) = 0 /\ IsLive(x) /\ th[p].new # x
        BY <2>1, PointedIsLive, ThreadsAssumption DEF Peers, ConnectInv, NewInv, Accounts
    <2>3. ~Queues(p, x)
        <3>1. th[q].pc \in SetUpLocations
            BY <2>1 DEF Checked, SetUpLocations
        <3>2. Queues(p, x) => th[p].s = x /\ th[p].pc \in SetUpLocations
            BY DEF Queues, SetUpLocations
        <3> QED BY <1>2, <2>1, <3>1, <3>2 DEF Peers, SetUpInv
    <2>4. Limbo(x)' = 0
        BY <1>1, <2>2, <2>3 DEF Treats, Steers
    <2> QED BY <1>1, <2>2, <2>4 DEF Treats, Steers
<1>3. CASE q = p
    <2>1. /\ th[p].s = x /\ sock'[x].remote = sock[x].remote
          /\ \/ th[p].pc \in Checked \ {"connectAdd"}
             \/ th[p].pc = "connect" /\ "CONNECTING" \notin sock[x].state /\ sock[x].remote = NULL
        BY <1>1, <1>3 DEF Treats, Steers
    <2>2. th[p].pc # "connectAdd" /\ (th[p].pc \in Checked \/ th[p].pc = "connect")
        BY <2>1
    <2>3. ~Queues(p, x)
        BY <2>2 DEF Queues, Checked
    <2>4. CASE th[p].pc \in Checked
        <3>1. sock[x].remote = NULL /\ Limbo(x) = 0
            BY <2>1, <2>4 DEF Peers, ConnectInv
        <3> QED BY <1>1, <2>1, <2>3, <3>1 DEF Treats, Steers
    <2>5. CASE th[p].pc = "connect"
        <3>1. "CONNECTING" \notin sock[x].state /\ sock[x].remote = NULL
            BY <2>1, <2>5 DEF Checked
        <3>2. \A y \in Threads : ~Late(th[y], x)
            <4>1. th[p].pc \in SetUpLocations /\ ~Late(th[p], x)
                BY <2>5 DEF SetUpLocations, Late, LatePoints
            <4>2. \A y \in Threads : Late(th[y], x) => th[y].s = x /\ th[y].pc \in SetUpLocations
                BY DEF Late, LatePoints, SetUpLocations
            <4> QED BY <2>1, <4>1, <4>2 DEF Peers, SetUpInv
        <3>3. Limbo(x) = 0
            BY <1>1, <3>1, <3>2 DEF Peers, LimboInv
        <3> QED BY <1>1, <2>1, <2>3, <3>1, <3>3 DEF Treats, Steers
    <2> QED BY <2>2, <2>4, <2>5
<1> QED BY <1>2, <1>3

\* No step that treats every socket well starts a second connect() or listen() on one.
LEMMA SetUpKeeps ==
    ASSUME Peers, NEW p \in Threads, Others(p), \A x \in Socks : Treats(p, x)
    PROVE  SetUpInv'
<1>1. \A q \in Threads \ {p} : th'[q].s = th[q].s /\ (th'[q].pc \in SetUpLocations => th[q].pc \in SetUpLocations)
    BY DEF Others, SameRefs, Wakes, SetUpLocations
<1>2. ASSUME NEW x \in Socks, NEW q \in Threads \ {p},
             th'[p].s = x, th'[p].pc \in SetUpLocations, th'[q].s = x, th'[q].pc \in SetUpLocations
      PROVE  FALSE
    <2>1. th[q].s = x /\ th[q].pc \in SetUpLocations
        BY <1>1, <1>2
    <2>2. th[p].s = x /\ th[p].pc \in SetUpLocations
        BY <1>2, <2>1 DEF Treats, Steers
    <2> QED BY <2>1, <2>2 DEF Peers, SetUpInv
<1>3. ASSUME NEW x \in Socks, NEW q \in Threads, NEW y \in Threads,
             th'[y].s = x, th'[y].pc \in SetUpLocations, th'[q].s = x, th'[q].pc \in SetUpLocations
      PROVE  y = q
    <2>1. CASE y = p
        BY <1>2, <1>3, <2>1
    <2>2. CASE q = p
        BY <1>2, <1>3, <2>2
    <2>3. CASE y # p /\ q # p
        BY <1>1, <1>3, <2>3 DEF Peers, SetUpInv
    <2> QED BY <2>1, <2>2, <2>3
<1> QED BY <1>3 DEF SetUpInv

-----------------------------------------------------------------------------
(* Where the looking steps lead *)

\* The place after the step, with what the step has checked.
Lands(p) ==
    LET s == th[p].s
        l == th[p].pc
        m == th'[p].pc IN
    \/ /\ th'[p].s = NULL
       /\ l \notin {"connectMark", "connectUnlink", "lateSleep"}
       /\ l = "lateLoop" => sock[s].remote # NULL
    \/ l = "bind" /\ m = "bindCreate"
    \/ l = "accept" /\ m = "acceptAlloc" /\ "LISTENING" \in sock[s].state
    \/ l = "acceptLoop" /\ m \in {"acceptLoop", "acceptSleep"} /\ sock[s].connecting = <<>>
    \/ /\ l = "connect" /\ m = "connectLookup"
       /\ sock[s].state \cap {"LISTENING", "CONNECTING"} = {} /\ sock[s].remote = NULL
    \/ l = "connectRemote" /\ m = "connectRef" /\ "LISTENING" \in sock[th[p].r].state
    \/ l = "connectMark" /\ m = "connectStore" /\ th'[p].seen = sock[s].state
    \/ l = "connectStore" /\ m = "connectLoop"
    \/ l = "connectLoop" /\ m \in {"connectLoop", "connectSleep"} /\ sock[s].remote = NULL
    \/ l = "connectSleep" /\ m = "connectUnlink"
    \/ l = "lateLoop" /\ m \in {"lateLoop", "lateSleep"} /\ sock[s].remote = NULL

\* What becomes of the flags.
Marks(p) ==
    LET s == th[p].s
        l == th[p].pc IN
    \A x \in Socks :
       \/ sock'[x].state = sock[x].state /\ (x = s => l # "connectStore")
       \/ x = s /\ l = "bindCreate" /\ sock'[x].state = sock[x].state \cup {"BOUND"}
       \/ x = s /\ l = "listen" /\ sock'[x].state = sock[x].state \cup {"LISTENING"}
       \/ x = s /\ l = "connectStore" /\ sock'[x].state = th[p].seen \cup {"CONNECTING"}
       \/ /\ x = s /\ l = "connectSleep" /\ th'[p].pc = "connectUnlink" /\ th'[p].s = s
          /\ sock'[x].state = sock[x].state \ {"CONNECTING"}

\* A step that changes no structure changes no flag.
LEMMA SameMarks ==
    ASSUME UNCHANGED sock, NEW p \in Threads, th[p].pc # "connectStore" PROVE Marks(p)
BY DEF Marks

\* A call that returns.
LEMMA Returned ==
    ASSUME TypeOK, ShapeInv, NEW p \in Threads, th[p].pc \in OnSocket, th' = Return(p)
    PROVE  th'[p].s = NULL
BY ReturnIs DEF Leaves

\* proc_threadWait goes to sleep or finds its sentinel, and changes no flag.
LEMMA WaitLands ==
    ASSUME TypeOK, ShapeInv, NEW p \in Threads, th[p].pc \in OnSocket,
           NEW l \in {"acceptSleep", "connectSleep", "lateSleep"}, proc_threadWait(p, l),
           th[p].pc # "connectStore"
    PROVE  Marks(p) /\ th'[p].pc \in {th[p].pc, l}
BY WaitIs DEF Marks

\* Where the looking steps lead, what they have checked, and which flag they set.
LEMMA LooksLand ==
    ASSUME TypeOK, ShapeInv, NEW p \in Threads, Looks(p) PROVE Lands(p) /\ Marks(p)
<1>0. th \in [Threads -> Calls] /\ sock \in [Socks -> Sockets]
    BY DEF TypeOK
<1> USE DEF At
<1>1. CASE BindCheck(p)
    <2>1. th[p].pc \in OnSocket /\ "bindCreate" \in Locations
        BY <1>1 DEF BindCheck, OnSocket, Locations
    <2>2. th'[p].s = NULL \/ th'[p].pc = "bindCreate"
        BY <1>0, <1>1, <2>1, Returned, GotoIs DEF BindCheck
    <2> QED BY <1>1, <2>2, SameMarks DEF BindCheck, Lands
<1>2. CASE BindCreate(p)
    <2>1. th[p].pc \in OnSocket
        BY <1>2 DEF BindCreate, OnSocket
    <2>2. th'[p].s = NULL
        BY <1>2, <2>1, Returned DEF BindCreate
    <2>3. Marks(p)
        <3>1. CASE path = NoId
            <4>1. th[p].s \in Socks
                BY <2>1, DuesType
            <4> DEFINE f == sock[th[p].s].state \cup {"BOUND"}
            <4>2. f \in SUBSET Flags
                BY <1>0, <4>1 DEF Sockets, Flags
            <4>3. sock' = [sock EXCEPT ![th[p].s].state = f]
                BY <1>2, <3>1 DEF BindCreate
            <4>4. \A x \in Socks : sock'[x].state = IF x = th[p].s THEN f ELSE sock[x].state
                <5> HIDE DEF f
                <5> QED BY <4>1, <4>2, <4>3, FlagsChange, ZenonT(60)
            <4> QED BY <1>2, <4>4 DEF Marks, BindCreate
        <3>2. CASE path # NoId
            BY <1>2, <3>2, SameMarks DEF BindCreate
        <3> QED BY <3>1, <3>2
    <2> QED BY <1>2, <2>2, <2>3 DEF BindCreate, Lands
<1>3. CASE unix_listen(p)
    <2>1. th[p].pc \in OnSocket
        BY <1>3 DEF unix_listen, OnSocket, SetUpLocations
    <2>2. th'[p].s = NULL /\ th[p].s \in Socks
        BY <1>3, <2>1, Returned, DuesType DEF unix_listen
    <2> DEFINE f == sock[th[p].s].state \cup {"LISTENING"}
    <2>3. f \in SUBSET Flags /\ sock' = [sock EXCEPT ![th[p].s].state = f]
        BY <1>0, <1>3, <2>2 DEF Sockets, Flags, unix_listen
    <2>4. \A x \in Socks : sock'[x].state = IF x = th[p].s THEN f ELSE sock[x].state
        <3> HIDE DEF f
        <3> QED BY <2>2, <2>3, FlagsChange, ZenonT(60)
    <2>5. Marks(p)
        BY <1>3, <2>4 DEF Marks, unix_listen
    <2> QED BY <1>3, <2>2, <2>5 DEF unix_listen, Lands
<1>4. CASE AcceptCheck(p)
    <2>1. th[p].pc \in OnSocket /\ "acceptAlloc" \in Locations
        BY <1>4 DEF AcceptCheck, OnSocket, Locations, AcceptLocations
    <2>2. th'[p].s = NULL \/ (th'[p].pc = "acceptAlloc" /\ "LISTENING" \in sock[th[p].s].state)
        BY <1>0, <1>4, <2>1, Returned, GotoIs DEF AcceptCheck
    <2> QED BY <1>4, <2>2, SameMarks DEF AcceptCheck, Lands
<1>5. CASE AcceptNoMemory(p)
    <2>1. th[p].pc \in OnSocket
        BY <1>5 DEF AcceptNoMemory, OnSocket, AcceptLocations
    <2> QED BY <1>5, <2>1, Returned, SameMarks DEF AcceptNoMemory, Lands
<1>6. CASE AcceptWait(p)
    <2>1. th[p].pc \in OnSocket
        BY <1>6 DEF AcceptWait, OnSocket, AcceptLocations
    <2>2. Marks(p) /\ th'[p].pc \in {"acceptLoop", "acceptSleep"}
        BY <1>6, <2>1, WaitLands DEF AcceptWait
    <2> QED BY <1>6, <2>2 DEF AcceptWait, Lands
<1>7. CASE ConnectCheck(p)
    <2>1. th[p].pc \in OnSocket /\ "connectLookup" \in Locations
        BY <1>7 DEF ConnectCheck, OnSocket, Locations, SetUpLocations
    <2>2. \/ th'[p].s = NULL
          \/ /\ th'[p].pc = "connectLookup"
             /\ sock[th[p].s].state \cap {"LISTENING", "CONNECTING"} = {}
             /\ sock[th[p].s].remote = NULL
        BY <1>0, <1>7, <2>1, Returned, GotoIs DEF ConnectCheck
    <2> QED BY <1>7, <2>2, SameMarks DEF ConnectCheck, Lands
<1>8. CASE ConnectRemote(p)
    <2>1. th[p].pc \in OnSocket /\ "connectRef" \in Locations
        BY <1>8 DEF ConnectRemote, OnSocket, Locations, SetUpLocations
    <2>2. th'[p].s = NULL \/ (th'[p].pc = "connectRef" /\ "LISTENING" \in sock[th[p].r].state)
        BY <1>0, <1>8, <2>1, Returned, GotoIs DEF ConnectRemote
    <2> QED BY <1>8, <2>2, SameMarks DEF ConnectRemote, Lands
<1>9. CASE ConnectMark(p)
    BY <1>9, ConnectMarkQuiet, SameMarks, ZenonT(60) DEF ConnectMark, Lands
<1>10. CASE ConnectStore(p)
    <2>1. Marks(p)
        BY <1>10, ConnectStoreQuiet, ZenonT(60) DEF Marks, ConnectStore
    <2>2. th'[p].s = NULL \/ th'[p].pc = "connectLoop"
        BY <1>10, ConnectStoreQuiet DEF Quiet, GoesHome, Leaves
    <2> QED BY <1>10, <2>1, <2>2 DEF ConnectStore, Lands
<1>11. CASE ConnectLoop(p)
    <2>1. th[p].pc \in OnSocket
        BY <1>11 DEF ConnectLoop, OnSocket, SetUpLocations
    <2>2. CASE sock[th[p].s].remote # NULL
        BY <1>11, <2>1, <2>2, Returned, SameMarks DEF ConnectLoop, Lands
    <2>3. CASE sock[th[p].s].remote = NULL
        <3>1. Marks(p) /\ th'[p].pc \in {"connectLoop", "connectSleep"}
            BY <1>11, <2>1, <2>3, WaitLands DEF ConnectLoop
        <3> QED BY <1>11, <2>3, <3>1 DEF ConnectLoop, Lands
    <2> QED BY <2>2, <2>3
<1>12. CASE ConnectTimeout(p)
    <2>1. CASE GoesHome(p) /\ UNCHANGED sock
        BY <1>12, <2>1, SameMarks DEF ConnectTimeout, Lands, GoesHome, Leaves
    <2>2. CASE /\ GoesOn(p) /\ th'[p].pc = "connectUnlink"
               /\ \A x \in Socks : sock'[x].state = IF x = th[p].s
                                     THEN sock[x].state \ {"CONNECTING"} ELSE sock[x].state
        <3>1. th'[p].s = th[p].s
            BY <2>2 DEF GoesOn, SameRefs
        <3>2. Marks(p)
            BY <1>12, <2>2, <3>1, ZenonT(60) DEF ConnectTimeout, Marks
        <3> QED BY <1>12, <2>2, <3>2 DEF ConnectTimeout, Lands
    <2> QED BY <1>12, <2>1, <2>2, ConnectTimeoutQuiet
<1>13. CASE LateLoop(p)
    <2>1. th[p].pc \in OnSocket
        BY <1>13 DEF LateLoop, OnSocket, SetUpLocations
    <2>2. CASE sock[th[p].s].remote # NULL
        BY <1>13, <2>1, <2>2, Returned, SameMarks DEF LateLoop, Lands
    <2>3. CASE sock[th[p].s].remote = NULL
        <3>1. Marks(p) /\ th'[p].pc \in {"lateLoop", "lateSleep"}
            BY <1>13, <2>1, <2>3, WaitLands DEF LateLoop
        <3> QED BY <1>13, <2>3, <3>1 DEF LateLoop, Lands
    <2> QED BY <2>2, <2>3
<1> QED BY <1>1, <1>2, <1>3, <1>4, <1>5, <1>6, <1>7, <1>8, <1>9, <1>10, <1>11, <1>12, <1>13 DEF Looks

-----------------------------------------------------------------------------
(* The steps that queue, take or detach nothing *)

LEMMA LeavesHandling ==
    ASSUME NEW p \in Threads, NEW tasks \in Seq(Tasks), Leaves(p, tasks), NEW x
    PROVE  /\ Handling(th[p], x)' = N(tasks, {Task("detach", x)})
           /\ N(tasks, {Task("detach", x)}) \in Nat
           /\ (\A i \in DOMAIN tasks : tasks[i].op # "detach") => Handling(th[p], x)' = 0
<1>1. th'[p].pc # "acceptPair" /\ th'[p].todo = tasks
    BY DEF Leaves
<1>2. N(tasks, {Task("detach", x)}) \in Nat
    BY WhereFinite
<1>3. Bit(th'[p].pc = "acceptPair" /\ th'[p].r = x) = 0
    BY <1>1 DEF Bit
<1>4. Handling(th'[p], x) = 0 + N(tasks, {Task("detach", x)})
    BY <1>1, <1>3 DEF Handling
<1>5. (\A i \in DOMAIN tasks : tasks[i].op # "detach") => N(tasks, {Task("detach", x)}) = 0
    BY WhereNone DEF Task
<1>6. Handling(th[p], x)' = Handling(th'[p], x)
    BY DEF Handling, N, Where
<1> QED BY <1>2, <1>4, <1>5, <1>6

\* A call without drops handles the socket it is accepting, and no other.
LEMMA CallHandling ==
    ASSUME NEW c, c.todo = <<>>, NEW x
    PROVE  Handling(c, x) = IF c.pc = "acceptPair" /\ c.r = x THEN 1 ELSE 0
BY WhereEmpty DEF Handling, Bit

\* The same after the step.
LEMMA CallHandlingNext ==
    ASSUME NEW p \in Threads, th'[p].todo = <<>>, NEW x
    PROVE  Handling(th[p], x)' = IF th'[p].pc = "acceptPair" /\ th'[p].r = x THEN 1 ELSE 0
<1>1. Handling(th[p], x)' = Handling(th'[p], x)
    BY DEF Handling, N, Where
<1> QED BY <1>1, CallHandling

\* A step of p that leaves x where it waits, or does not wait.
Passes(p, x) ==
    /\ \A y \in Socks : sock'[y].connecting = sock[y].connecting
    /\ Handling(th[p], x) = Handling(th[p], x)'

\* A step that leaves the lists and its own handling of x alone leaves x in limbo as often
\* as it was.
LEMMA UnhandledLimbo ==
    ASSUME TypeOK, TypeOK', NEW p \in Threads, Others(p), NEW x,
           \A y \in Socks : sock'[y].connecting = sock[y].connecting,
           Handling(th[p], x) = Handling(th[p], x)'
    PROVE  Limbo(x)' = Limbo(x)
<1>1. Linked(x)' = Linked(x)
    BY LinkedSame
<1> DEFINE l == Limbo(x)
           l1 == Limbo(x)'
           k == Linked(x)
           h == Handling(th[p], x)
<1>2. l1 + h + k = l + h + k /\ l \in Nat /\ l1 \in Nat /\ k \in Nat /\ h \in Nat
    BY <1>1, LimboChange, Zenon
<1> HIDE DEF l, l1, k, h
<1>3. l1 = l
    BY ONLY <1>2
<1> QED BY <1>3 DEF l, l1

\* A call on its way out steers nowhere.
LEMMA LeavesSteers ==
    ASSUME NEW p \in Threads, NEW tasks, Leaves(p, tasks), NEW x \in Socks PROVE Steers(p, x)
BY SocksType DEF Leaves, Steers

\* Nor does one that is out.
LEMMA HomeSteers ==
    ASSUME NEW p \in Threads, th'[p].s = NULL, th'[p].new = NULL, NEW x \in Socks
    PROVE  Steers(p, x)
BY SocksType DEF Steers

\* The drops of a returning call are unixsock_puts.
LEMMA DuesTasks ==
    ASSUME NEW c, NEW i \in DOMAIN Dues(c) PROVE Dues(c)[i].op = "put"
<1>1. CASE c.r = NULL
    <2>1. Dues(c) = <<Task("put", c.s)>>
        BY <1>1 DEF Dues
    <2> QED BY <2>1 DEF Task
<1>2. CASE c.r # NULL
    <2>1. Dues(c) = <<Task("put", c.r), Task("put", c.s)>>
        BY <1>2 DEF Dues
    <2> QED BY <2>1 DEF Task
<1> QED BY <1>1, <1>2

\* A step that looks leaves every socket in limbo or out of it.
LEMMA QuietLimbo ==
    ASSUME TypeOK, ShapeInv, TypeOK', NEW p \in Threads, Quiet(p), NEW x
    PROVE  Limbo(x)' = Limbo(x) /\ Passes(p, x)
<1>1. \A y \in Socks : sock'[y].connecting = sock[y].connecting
    BY DEF Quiet, SameSocks
<1>2. CASE GoesOn(p)
    <2>1. th[p].todo = th'[p].todo /\ th[p].pc # "acceptPair" /\ th'[p].pc # "acceptPair"
        BY <1>2 DEF GoesOn, SameRefs, SameKind
    <2>2. Handling(th[p], x)' = Handling(th'[p], x)
        BY DEF Handling, N, Where
    <2>3. Handling(th'[p], x) = Handling(th[p], x)
        BY <2>1 DEF Handling
    <2> QED BY <1>1, <2>2, <2>3, UnhandledLimbo DEF Quiet, Passes
<1>3. CASE GoesHome(p)
    <2>1. th[p].todo = <<>> /\ th[p].pc # "acceptPair" /\ th[p].pc \in OnSocket
        BY <1>3 DEF GoesHome, ShapeInv, Shape, OnNew, OnSocket, AcceptLocations, SetUpLocations
    <2>2. Handling(th[p], x) = 0
        BY <2>1, CallHandling
    <2>3. Dues(th[p]) \in Seq(Tasks) /\ Leaves(p, Dues(th[p]))
        BY <1>3, <2>1, DuesType DEF GoesHome
    <2>4. Handling(th[p], x)' = 0
        BY <2>3, LeavesHandling, DuesTasks
    <2> QED BY <1>1, <2>2, <2>4, UnhandledLimbo DEF Quiet, Passes
<1> QED BY <1>2, <1>3 DEF Quiet

\* The looking steps treat every socket well.
LEMMA LooksTreats ==
    ASSUME TypeOK, ShapeInv, TypeOK', NEW p \in Threads, Looks(p), NEW x \in Socks
    PROVE  Treats(p, x) /\ Passes(p, x)
<1>1. Quiet(p) /\ Lands(p) /\ Marks(p)
    BY LooksQuiet, LooksLand
<1>2. Limbo(x)' = Limbo(x) /\ Limbo(x) \in Nat /\ Passes(p, x)
    BY <1>1, QuietLimbo, LimboType
<1>3. sock'[x].remote = sock[x].remote
    BY <1>1 DEF Quiet, SameSocks
<1>4. (th'[p].s = NULL /\ th'[p].new = NULL /\ th'[p].pc \in {"user", "finish"}) \/ GoesOn(p)
    BY <1>1 DEF Quiet, GoesHome, Leaves
<1>5. th'[p].s = NULL => ~GoesOn(p)
    <2>1. GoesOn(p) => th[p].pc \in OnSocket /\ th'[p].s = th[p].s
        BY DEF GoesOn, SameKind, SameRefs
    <2> QED BY <2>1 DEF ShapeInv, Shape
<1>6. Steers(p, x)
    <2>1. CASE GoesOn(p)
        <3>1. th'[p].s = th[p].s /\ th'[p].new = th[p].new
            BY <2>1 DEF GoesOn, SameRefs
        <3>2. th'[p].s # NULL
            BY <1>5, <2>1
        <3>3. th'[p].pc \in SetUpLocations => th[p].pc \in SetUpLocations
            BY <1>1, <3>2 DEF Lands, SetUpLocations
        <3>4. th'[p].pc \in Checked =>
                 \/ th[p].pc \in Checked \ {"connectAdd"}
                 \/ /\ th[p].pc = "connect" /\ "CONNECTING" \notin sock[th[p].s].state
                    /\ sock[th[p].s].remote = NULL
            BY <1>1, <3>2 DEF Lands, Checked
        <3> QED BY <1>3, <3>1, <3>3, <3>4 DEF Steers
    <2>2. CASE th'[p].s = NULL /\ th'[p].new = NULL
        BY <2>2, HomeSteers
    <2> QED BY <1>4, <2>1, <2>2
<1>7. "CONNECTING" \in sock[x].state => "CONNECTING" \in sock'[x].state \/ Late(th'[p], x)
    BY <1>1 DEF Marks, Late, LatePoints
<1>9. x = th[p].s /\ th[p].pc = "connectStore" => "CONNECTING" \in sock'[x].state
    BY <1>1 DEF Marks
<1>8. ASSUME Late(th[p], x)
      PROVE  Late(th'[p], x) \/ "CONNECTING" \in sock'[x].state \/ sock[x].remote # NULL
    <2>1. th[p].s = x /\ th[p].pc \in LatePoints
        BY <1>8 DEF Late
    <2>2. CASE th'[p].s = NULL
        <3>1. th'[p].pc \in {"user", "finish"}
            BY <1>4, <1>5, <2>2
        <3>2. th[p].pc = "connectStore" \/ sock[x].remote # NULL
            BY <1>1, <2>1, <3>1 DEF Lands, LatePoints
        <3> QED BY <2>1, <3>2, <1>9
    <2>3. CASE th'[p].s # NULL
        <3>1. th'[p].s = x
            BY <1>4, <2>1, <2>3 DEF GoesOn, SameRefs
        <3>2. th[p].pc # "connectStore" => th'[p].pc \in LatePoints
            BY <1>1, <2>1, <2>3 DEF Lands, LatePoints
        <3> QED BY <2>1, <3>1, <3>2, <1>9 DEF Late
    <2> QED BY <2>2, <2>3
<1> QED BY <1>2, <1>3, <1>6, <1>7, <1>8 DEF Treats

\* A step that is not late in a connect() and leaves the lists, the flags and the peers of
\* what is in the tree.
LEMMA StepTreats ==
    ASSUME TypeOK, TypeOK', Accounts, NEW p \in Threads, Others(p), NEW x \in Socks,
           \A y \in Socks : sock'[y].connecting = sock[y].connecting,
           Handling(th[p], x) = Handling(th[p], x)', th[p].pc \notin LatePoints,
           IsLive(x) => \/ sock'[x].remote = sock[x].remote
                        \/ x = th[p].new,
           IsLive(x) => sock'[x].state = sock[x].state,
           Steers(p, x)
    PROVE  Treats(p, x) /\ Passes(p, x)
<1>1. Limbo(x)' = Limbo(x) /\ Limbo(x) \in Nat
    BY UnhandledLimbo, LimboType
<1>2. ~IsLive(x) => Limbo(x)' = 0
    BY <1>1, NotLiveLimbo
<1>3. ~Late(th[p], x)
    BY DEF Late
<1> QED BY <1>1, <1>2, <1>3 DEF Treats, Passes

\* Dropping and opening are no detaching.
LEMMA PutTask ==
    ASSUME NEW op \in {"put", "open"}, NEW y PROVE Task(op, y).op # "detach"
BY DEF Task

\* No socket is treated badly by unix_socket.
LEMMA SocketTreats ==
    ASSUME TypeOK, ShapeInv, TypeOK', Accounts, NEW p \in Threads, unix_socket(p), NEW x \in Socks
    PROVE  Treats(p, x) /\ Passes(p, x)
<1>1. PICK f \in Socks, i \in Ids :
         /\ Allocates(f, i) /\ RemotesSame(f)
         /\ Leaves(p, <<Task("put", f), Task("open", f)>>)
    BY SocketIs
<1>2. At(p, "user") /\ Others(p)
    BY SocketIs
<1>3. ~IsLive(f) /\ sock[f].connecting = <<>>
    BY <1>1 DEF Allocates, IsLive, Accounts, EmptyInv
<1> DEFINE b == <<Task("put", f), Task("open", f)>>
<1>4. b \in Seq(Tasks) /\ \A j \in DOMAIN b : b[j].op # "detach"
    BY TaskType, PutTask
<1>5. Handling(th[p], x)' = 0
    <2> HIDE DEF b
    <2>1. Leaves(p, b)
        BY <1>1 DEF b
    <2> QED BY <1>4, <2>1, LeavesHandling
<1>6. Handling(th[p], x) = 0
    BY <1>2, CallHandling DEF At, ShapeInv, Shape
<1>7. th[p].pc \notin LatePoints
    BY <1>2 DEF At, LatePoints
<1>8. Steers(p, x)
    BY <1>1, LeavesSteers
<1>9. \A y \in Socks : sock'[y].connecting = sock[y].connecting
    BY <1>1, <1>3 DEF Allocates
<1>10. IsLive(x) => sock'[x].remote = sock[x].remote /\ sock'[x].state = sock[x].state
    BY <1>1, <1>3 DEF Allocates, RemotesSame
<1> QED BY <1>2, <1>5, <1>6, <1>7, <1>8, <1>9, <1>10, StepTreats

\* No socket is treated badly by the first half of unix_socketpair.
LEMMA SocketpairTreats ==
    ASSUME TypeOK, ShapeInv, TypeOK', Accounts, NEW p \in Threads, unix_socketpair(p), NEW x \in Socks
    PROVE  Treats(p, x) /\ Passes(p, x)
<1>1. PICK f \in Socks, i \in Ids :
         Allocates(f, i) /\ RemotesSame(f) /\ Becomes(p, "pair", NULL, NULL, f)
    BY SocketpairIs
<1>2. At(p, "user") /\ Others(p)
    BY SocketpairIs
<1>3. ~IsLive(f) /\ sock[f].connecting = <<>>
    BY <1>1 DEF Allocates, IsLive, Accounts, EmptyInv
<1>5. Handling(th[p], x)' = 0
    BY <1>1, CallHandlingNext DEF Becomes
<1>6. Handling(th[p], x) = 0 /\ th[p].s = NULL
    BY <1>2, CallHandling DEF At, ShapeInv, Shape, OnSocket, AcceptLocations, SetUpLocations
<1>7. th[p].pc \notin LatePoints
    BY <1>2 DEF At, LatePoints
<1>8. Steers(p, x)
    BY <1>1, <1>3, <1>6, SocksType DEF Becomes, Steers, RemotesSame
<1>9. \A y \in Socks : sock'[y].connecting = sock[y].connecting
    BY <1>1, <1>3 DEF Allocates
<1>10. IsLive(x) => sock'[x].remote = sock[x].remote /\ sock'[x].state = sock[x].state
    BY <1>1, <1>3 DEF Allocates, RemotesSame
<1> QED BY <1>2, <1>5, <1>6, <1>7, <1>8, <1>9, <1>10, StepTreats

\* No socket is treated badly by unix_socketpair out of memory.
LEMMA PairFailsTreats ==
    ASSUME TypeOK, ShapeInv, TypeOK', Accounts, NEW p \in Threads, PairFails(p), NEW x \in Socks
    PROVE  Treats(p, x) /\ Passes(p, x)
<1>1. /\ At(p, "pair") /\ sock' = sock /\ Others(p)
      /\ Leaves(p, <<Task("put", th[p].new), Task("put", th[p].new)>>)
    BY PairFailsIs
<1>2. th[p].new \in Socks
    BY <1>1, SocksType DEF TypeOK, Calls, ShapeInv, Shape, OnNew, At
<1> DEFINE b == <<Task("put", th[p].new), Task("put", th[p].new)>>
<1>4. b \in Seq(Tasks) /\ \A j \in DOMAIN b : b[j].op # "detach"
    BY <1>2, TaskType, PutTask
<1>5. Handling(th[p], x)' = 0
    <2> HIDE DEF b
    <2>1. Leaves(p, b)
        BY <1>1 DEF b
    <2> QED BY <1>4, <2>1, LeavesHandling
<1>6. Handling(th[p], x) = 0
    BY <1>1, CallHandling DEF At, ShapeInv, Shape
<1>7. th[p].pc \notin LatePoints
    BY <1>1 DEF At, LatePoints
<1>8. Steers(p, x)
    BY <1>1, LeavesSteers
<1> QED BY <1>1, <1>5, <1>6, <1>7, <1>8, StepTreats

\* No socket is treated badly by the second half of unix_socketpair.
LEMMA PairSecondTreats ==
    ASSUME TypeOK, ShapeInv, TypeOK', Accounts, NEW p \in Threads, PairSecond(p), NEW x \in Socks
    PROVE  Treats(p, x) /\ Passes(p, x)
<1>1. At(p, "pair") /\ Others(p)
    BY PairSecondIs
<1>2. th[p].new \in Socks
    BY <1>1, SocksType DEF TypeOK, Calls, ShapeInv, Shape, OnNew, At
<1>3. IsLive(th[p].new)
    BY <1>2, PointedIsLive, ThreadsAssumption DEF Accounts
<1>4. PICK f \in Socks, i \in Ids :
         /\ Allocates(f, i)
         /\ \/ /\ \A y \in Socks : sock'[y].remote = IF y = th[p].new THEN f
                                   ELSE IF y = f THEN th[p].new ELSE sock[y].remote
               /\ Leaves(p, <<Task("put", f), Task("put", th[p].new),
                              Task("open", th[p].new), Task("open", f)>>)
               /\ th[p].new # f
            \/ /\ RemotesSame(f)
               /\ Leaves(p, <<Task("put", f), Task("put", f),
                              Task("put", th[p].new), Task("put", th[p].new)>>)
    BY <1>3, PairSecondIs
<1>5. ~IsLive(f) /\ sock[f].connecting = <<>>
    BY <1>4 DEF Allocates, IsLive, Accounts, EmptyInv
<1> DEFINE b1 == <<Task("put", f), Task("put", th[p].new), Task("open", th[p].new), Task("open", f)>>
           b2 == <<Task("put", f), Task("put", f), Task("put", th[p].new), Task("put", th[p].new)>>
<1>6. /\ b1 \in Seq(Tasks) /\ \A j \in DOMAIN b1 : b1[j].op # "detach"
      /\ b2 \in Seq(Tasks) /\ \A j \in DOMAIN b2 : b2[j].op # "detach"
    BY <1>2, TaskType, PutTask
<1>7. Handling(th[p], x)' = 0 /\ Steers(p, x)
    <2>1. Leaves(p, b1) \/ Leaves(p, b2)
        BY <1>4
    <2> HIDE DEF b1, b2
    <2> QED BY <1>6, <2>1, LeavesHandling, LeavesSteers, ZenonT(60)
<1>8. Handling(th[p], x) = 0
    BY <1>1, CallHandling DEF At, ShapeInv, Shape
<1>9. th[p].pc \notin LatePoints
    BY <1>1 DEF At, LatePoints
<1>10. \A y \in Socks : sock'[y].connecting = sock[y].connecting
    BY <1>4, <1>5 DEF Allocates
<1>11. IsLive(x) => /\ sock'[x].remote = sock[x].remote \/ x = th[p].new
                    /\ sock'[x].state = sock[x].state
    BY <1>4, <1>5 DEF Allocates, RemotesSame
<1> QED BY <1>1, <1>7, <1>8, <1>9, <1>10, <1>11, StepTreats

\* No socket is treated badly by unix_accept's allocation.
LEMMA AcceptAllocTreats ==
    ASSUME TypeOK, ShapeInv, TypeOK', Accounts, NEW p \in Threads, AcceptAlloc(p), NEW x \in Socks
    PROVE  Treats(p, x) /\ Passes(p, x)
<1>1. At(p, "acceptAlloc") /\ Others(p) /\ th[p].s \in Socks
    BY AcceptAllocIs
<1>2. PICK f \in Socks, i \in Ids :
         /\ Allocates(f, i) /\ RemotesSame(f)
         /\ \/ Becomes(p, "acceptLoop", th[p].s, NULL, f)
            \/ Leaves(p, <<Task("put", f), Task("put", f), Task("put", th[p].s)>>)
    BY AcceptAllocIs
<1>3. ~IsLive(f) /\ sock[f].connecting = <<>>
    BY <1>2 DEF Allocates, IsLive, Accounts, EmptyInv
<1> DEFINE b == <<Task("put", f), Task("put", f), Task("put", th[p].s)>>
<1>4. b \in Seq(Tasks) /\ \A j \in DOMAIN b : b[j].op # "detach"
    BY <1>1, TaskType, PutTask
<1>5. Handling(th[p], x)' = 0
    <2>1. CASE Becomes(p, "acceptLoop", th[p].s, NULL, f)
        BY <2>1, CallHandlingNext DEF Becomes
    <2>2. CASE Leaves(p, b)
        <3> HIDE DEF b
        <3> QED BY <1>4, <2>2, LeavesHandling
    <2> QED BY <1>2, <2>1, <2>2
<1>6. Handling(th[p], x) = 0
    BY <1>1, CallHandling DEF At, ShapeInv, Shape
<1>7. th[p].pc \notin LatePoints
    BY <1>1 DEF At, LatePoints
<1>8. Steers(p, x)
    <2>1. CASE Becomes(p, "acceptLoop", th[p].s, NULL, f)
        BY <1>2, <1>3, <2>1 DEF Becomes, Steers, RemotesSame, Checked, SetUpLocations
    <2>2. CASE Leaves(p, b)
        BY <2>2, LeavesSteers
    <2> QED BY <1>2, <2>1, <2>2
<1>9. \A y \in Socks : sock'[y].connecting = sock[y].connecting
    BY <1>2, <1>3 DEF Allocates
<1>10. IsLive(x) => sock'[x].remote = sock[x].remote /\ sock'[x].state = sock[x].state
    BY <1>2, <1>3 DEF Allocates, RemotesSame
<1> QED BY <1>1, <1>5, <1>6, <1>7, <1>8, <1>9, <1>10, StepTreats

\* No socket is treated badly by a call that enters with its reference.
LEMMA EnterTreats ==
    ASSUME TypeOK, ShapeInv, TypeOK', Accounts, NEW p \in Threads,
           NEW f \in open, NEW l \in {"bind", "accept", "listen", "connect"}, Enter(p, f, l),
           l \in {"listen", "connect"} => Undisturbed(f),
           NEW x \in Socks
    PROVE  Treats(p, x) /\ Passes(p, x)
<1>1. At(p, "user") /\ Others(p)
    BY EnterIs
<1>2. PICK s \in Found(sock[f].id) : Counts(s, sock[s].refs + 1) /\ Becomes(p, l, s, NULL, NULL)
    BY EnterIs
<1>3. s = f /\ f \in open
    BY FileFound, ThreadsAssumption
<1>4. Handling(th[p], x)' = 0
    BY <1>2, CallHandlingNext DEF Becomes
<1>5. Handling(th[p], x) = 0 /\ th[p].s = NULL
    BY <1>1, CallHandling DEF At, ShapeInv, Shape, OnSocket, AcceptLocations, SetUpLocations
<1>6. th[p].pc \notin LatePoints
    BY <1>1 DEF At, LatePoints
<1>7. th'[p].pc = l /\ th'[p].s = f /\ th'[p].new = NULL /\ l \notin Checked
    BY <1>2, <1>3 DEF Becomes, Checked
<1>8. l \in SetUpLocations => \A q \in Threads : th[q].s = f => th[q].pc \notin SetUpLocations
    BY DEF Undisturbed, SetUpLocations
<1>9. Steers(p, x)
    BY <1>3, <1>7, <1>8, SocksType DEF Steers
<1>10. /\ \A y \in Socks : sock'[y].connecting = sock[y].connecting
       /\ sock'[x].remote = sock[x].remote /\ sock'[x].state = sock[x].state
    BY <1>2 DEF Counts
<1> QED BY <1>1, <1>4, <1>5, <1>6, <1>9, <1>10, StepTreats

\* No socket is treated badly by unix_close.
LEMMA CloseTreats ==
    ASSUME TypeOK, ShapeInv, TypeOK', Accounts, NEW p \in Threads, NEW f \in open,
           unix_close(p, f), NEW x \in Socks
    PROVE  Treats(p, x) /\ Passes(p, x)
<1>1. At(p, "user") /\ DropTwice(p, f)
    BY DEF unix_close
<1>2. PICK s \in Found(sock[f].id) :
         /\ Others(p) /\ Counts(s, sock[s].refs + 1)
         /\ Leaves(p, <<Task("put", s), Task("put", s)>>)
    BY <1>1, DropTwiceIs, FileFound, ThreadsAssumption
<1>3. s \in Socks
    BY FoundType
<1> DEFINE b == <<Task("put", s), Task("put", s)>>
<1>4. b \in Seq(Tasks) /\ \A j \in DOMAIN b : b[j].op # "detach"
    BY <1>3, TaskType, PutTask
<1>5. Handling(th[p], x)' = 0
    <2> HIDE DEF b
    <2>1. Leaves(p, b)
        BY <1>2 DEF b
    <2> QED BY <1>4, <2>1, LeavesHandling
<1>6. Handling(th[p], x) = 0
    BY <1>1, CallHandling DEF At, ShapeInv, Shape
<1>7. th[p].pc \notin LatePoints
    BY <1>1 DEF At, LatePoints
<1>8. Steers(p, x)
    BY <1>2, LeavesSteers
<1>9. /\ \A y \in Socks : sock'[y].connecting = sock[y].connecting
      /\ sock'[x].remote = sock[x].remote /\ sock'[x].state = sock[x].state
    BY <1>2 DEF Counts
<1> QED BY <1>2, <1>5, <1>6, <1>7, <1>8, <1>9, StepTreats

\* No socket is treated badly by unix_connect's lookup of the path.
LEMMA ConnectLookupTreats ==
    ASSUME TypeOK, ShapeInv, TypeOK', Accounts, NEW p \in Threads, ConnectLookup(p), NEW x \in Socks
    PROVE  Treats(p, x) /\ Passes(p, x)
<1>1. th[p].pc = "connectLookup" /\ th[p].todo = <<>> /\ th[p].pc \notin LatePoints
    BY DEF ConnectLookup, At, LatePoints, ShapeInv, Shape
<1>2. CASE Quiet(p) /\ GoesHome(p) /\ UNCHANGED sock
    <2>1. Limbo(x)' = Limbo(x) /\ Limbo(x) \in Nat /\ Passes(p, x)
        BY <1>2, QuietLimbo, LimboType
    <2>2. Steers(p, x)
        BY <1>2, LeavesSteers DEF GoesHome
    <2> QED BY <1>1, <1>2, <2>1, <2>2 DEF Treats, Late
<1>3. CASE /\ Others(p) /\ th[p].s \in Socks
           /\ \E r \in Found(path) :
                Counts(r, sock[r].refs + 1) /\ Becomes(p, "connectRemote", th[p].s, r, NULL)
    <2>1. PICK r \in Found(path) :
             Counts(r, sock[r].refs + 1) /\ Becomes(p, "connectRemote", th[p].s, r, NULL)
        BY <1>3
    <2>2. Handling(th[p], x)' = 0
        BY <2>1, CallHandlingNext DEF Becomes
    <2>3. Handling(th[p], x) = 0
        BY <1>1, CallHandling
    <2>4. /\ \A y \in Socks : sock'[y].connecting = sock[y].connecting
          /\ sock'[x].remote = sock[x].remote /\ sock'[x].state = sock[x].state
        BY <2>1 DEF Counts
    <2>5. Steers(p, x)
        BY <1>1, <2>1, <2>4, SocksType DEF Becomes, Steers, Checked, SetUpLocations
    <2> QED BY <1>1, <1>3, <2>2, <2>3, <2>4, <2>5, StepTreats
<1> QED BY <1>2, <1>3, ConnectLookupIs

\* No socket is treated badly by unix_connect's second reference.
LEMMA ConnectRefTreats ==
    ASSUME TypeOK, ShapeInv, TypeOK', Accounts, NEW p \in Threads, ConnectRef(p), NEW x \in Socks
    PROVE  Treats(p, x) /\ Passes(p, x)
<1>1. /\ At(p, "connectRef") /\ Others(p) /\ SameRefs(th[p], th'[p]) /\ th'[p].pc = "connectAdd"
      /\ Counts(th[p].s, sock[th[p].s].refs + 1)
    BY ConnectRefIs
<1>2. th[p].todo = <<>> /\ th'[p].todo = <<>> /\ th[p].new = NULL
    BY <1>1 DEF At, ShapeInv, Shape, SameRefs, OnNew
<1>3. Handling(th[p], x) = 0 /\ Handling(th[p], x)' = 0
    BY <1>1, <1>2, CallHandling, CallHandlingNext DEF At
<1>4. /\ \A y \in Socks : sock'[y].connecting = sock[y].connecting
      /\ sock'[x].remote = sock[x].remote /\ sock'[x].state = sock[x].state
    BY <1>1 DEF Counts
<1>5. Steers(p, x)
    BY <1>1, <1>2, <1>4, SocksType DEF At, SameRefs, Steers, Checked, SetUpLocations
<1>6. th[p].pc \notin LatePoints
    BY <1>1 DEF At, LatePoints
<1> QED BY <1>1, <1>3, <1>4, <1>5, <1>6, StepTreats

-----------------------------------------------------------------------------
(* The steps that queue, take or detach *)

LEMMA LimboByLists ==
    ASSUME TypeOK, TypeOK', NEW p \in Threads, Others(p), NEW r \in Socks, NEW x,
           \A y \in Socks \ {r} : sock'[y].connecting = sock[y].connecting
    PROVE  /\ Limbo(x)' + Handling(th[p], x) + N(sock[r].connecting, {x})
                = Limbo(x) + Handling(th[p], x)' + N(sock'[r].connecting, {x})
           /\ Limbo(x) \in Nat /\ Limbo(x)' \in Nat
           /\ Handling(th[p], x) \in Nat /\ Handling(th[p], x)' \in Nat
           /\ N(sock[r].connecting, {x}) \in Nat /\ N(sock'[r].connecting, {x}) \in Nat
<1> DEFINE a == Limbo(x)
           a1 == Limbo(x)'
           h == Handling(th[p], x)
           h1 == Handling(th[p], x)'
           l == Linked(x)
           l1 == Linked(x)'
           n == N(sock[r].connecting, {x})
           n1 == N(sock'[r].connecting, {x})
<1>1. /\ a1 + h + l = a + h1 + l1
      /\ a \in Nat /\ a1 \in Nat /\ l \in Nat /\ l1 \in Nat /\ h \in Nat /\ h1 \in Nat
    BY LimboChange
<1>2. l1 + n = l + n1 /\ n \in Nat /\ n1 \in Nat
    BY LinkedChange
<1> HIDE DEF a, a1, h, h1, l, l1, n, n1
<1>3. a1 + h + n = a + h1 + n1
    BY ONLY <1>1, <1>2
<1> QED BY <1>1, <1>2, <1>3 DEF a, a1, h, h1, l, l1, n, n1

\* No socket is treated badly by unix_connect's queueing of its socket.
LEMMA ConnectAddTreats ==
    ASSUME TypeOK, ShapeInv, TypeOK', Accounts, NEW p \in Threads, ConnectAdd(p), NEW x \in Socks
    PROVE  Treats(p, x)
<1> DEFINE s == th[p].s
           r == th[p].r
           q == sock[r].connecting
<1>1. /\ th[p].pc = "connectAdd" /\ Others(p) /\ s \in Socks /\ r \in Socks
      /\ Lists(r, Append(q, s)) /\ SameRefs(th[p], th'[p]) /\ th'[p].pc = "connectMark"
    BY ConnectAddIs DEF At
<1>2. th[p].todo = <<>> /\ th'[p].todo = <<>> /\ th[p].new = NULL
    BY <1>1 DEF ShapeInv, Shape, SameRefs, OnNew
<1>3. Handling(th[p], x) = 0 /\ Handling(th[p], x)' = 0
    BY <1>1, <1>2, CallHandling, CallHandlingNext
<1>4. /\ sock'[r].connecting = Append(q, s)
      /\ \A y \in Socks \ {r} : sock'[y].connecting = sock[y].connecting
      /\ sock'[x].remote = sock[x].remote /\ sock'[x].state = sock[x].state
    BY <1>1, ZenonT(60) DEF Lists
<1>5. N(Append(q, s), {x}) = N(q, {x}) + (IF s \in {x} THEN 1 ELSE 0)
    <2>1. q \in Seq(Socks) /\ s \in Socks
        BY <1>1, ListType
    <2> QED BY <2>1, WhereAppend
<1>6. /\ Limbo(x)' + Handling(th[p], x) + N(q, {x}) = Limbo(x) + Handling(th[p], x)' + N(sock'[r].connecting, {x})
      /\ Limbo(x) \in Nat /\ Limbo(x)' \in Nat /\ N(q, {x}) \in Nat
    BY <1>1, <1>4, LimboByLists, ZenonT(60)
<1>7. Limbo(x)' = Limbo(x) + IF s = x THEN 1 ELSE 0
    <2> DEFINE n == N(q, {x})
               n1 == N(sock'[r].connecting, {x})
               a == Limbo(x)
               a1 == Limbo(x)'
               h == Handling(th[p], x)
               h1 == Handling(th[p], x)'
               e == IF s = x THEN 1 ELSE 0
    <2>1. n1 = n + e /\ e \in Nat
        BY <1>4, <1>5, SMTT(60)
    <2>2. a1 + h + n = a + h1 + n1 /\ a \in Nat /\ a1 \in Nat /\ n \in Nat /\ h = 0 /\ h1 = 0
        BY <1>3, <1>6
    <2> HIDE DEF n, n1, a, a1, h, h1, e
    <2>3. a1 = a + e
        BY ONLY <2>1, <2>2
    <2> QED BY <2>3 DEF a, a1, e
<1>8. Limbo(x)' <= Limbo(x) \/ Queues(p, x)
    <2>1. th'[p].s = th[p].s
        BY <1>1 DEF SameRefs
    <2> QED BY <1>1, <1>6, <1>7, <2>1 DEF Queues
<1>9. Steers(p, x)
    BY <1>1, <1>2, <1>4, SocksType, SMTT(60) DEF SameRefs, Steers, Checked, SetUpLocations
<1>10. ~Late(th[p], x)
    BY <1>1 DEF Late, LatePoints
<1> QED BY <1>4, <1>8, <1>9, <1>10 DEF Treats

\* unix_connect that finds itself gone from the list waits on for accept() to finish.
LEMMA UnlinkMoves ==
    ASSUME TypeOK, ShapeInv, NEW p \in Threads, ConnectUnlink(p), GoesOn(p)
    PROVE  th'[p].pc = "lateLoop"
<1>1. th[p].pc = "connectUnlink" /\ th[p].pc \in OnSocket
    BY DEF ConnectUnlink, At, OnSocket, SetUpLocations
<1>2. th[p].s \in Socks /\ th[p].r \in Socks
    BY <1>1, SocksType DEF TypeOK, Calls, ShapeInv, Shape, OnRemote
<1> DEFINE t == <<Task("put", th[p].s), Task("put", th[p].r), Task("put", th[p].s)>>
<1>3. t \in Seq(Tasks)
    BY <1>2, TaskType
<1>4. th' = Leave(p, t) \/ th' = Goto(p, "lateLoop")
    BY DEF ConnectUnlink
<1>5. th' # Leave(p, t)
    <2>1. th'[p].s # NULL
        BY <1>2, SocksType DEF GoesOn, SameRefs
    <2> HIDE DEF t
    <2> QED BY <1>3, <2>1, LeaveIs DEF Leaves, TypeOK
<1>6. "lateLoop" \in Locations /\ th \in [Threads -> Calls]
    BY DEF Locations, SetUpLocations, TypeOK
<1> QED BY <1>4, <1>5, <1>6, GotoIs

\* No socket is treated badly by unix_connect's unlinking after a timeout.
LEMMA ConnectUnlinkTreats ==
    ASSUME TypeOK, ShapeInv, TypeOK', Accounts, Peers, NEW p \in Threads, ConnectUnlink(p),
           NEW x \in Socks
    PROVE  Treats(p, x)
<1> DEFINE s == th[p].s
           r == th[p].r
           q == sock[r].connecting
           t == <<Task("put", s), Task("put", r), Task("put", s)>>
<1>0. th[p].pc = "connectUnlink"
    BY DEF ConnectUnlink, At
<1>1. CASE Quiet(p) /\ GoesOn(p) /\ UNCHANGED sock
    <2>1. th'[p].pc = "lateLoop" /\ th'[p].s = th[p].s /\ th'[p].new = th[p].new
        BY <1>1, UnlinkMoves DEF GoesOn, SameRefs
    <2>2. th[p].new = NULL
        BY <1>0 DEF ShapeInv, Shape, OnNew
    <2>3. Limbo(x)' = Limbo(x) /\ Limbo(x) \in Nat
        BY <1>1, QuietLimbo, LimboType
    <2>4. Steers(p, x)
        BY <1>0, <2>1, <2>2, SocksType DEF Steers, Checked, SetUpLocations
    <2> QED BY <1>1, <2>1, <2>3, <2>4 DEF Treats, Late, LatePoints
<1>2. ASSUME Others(p), s \in Socks, r \in Socks, Leaves(p, t),
             NEW i \in DOMAIN q, q[i] = s, Lists(r, RemoveAt(q, i))
      PROVE  Treats(p, x)
    <2> DEFINE z == RemoveAt(q, i)
    <2>1. th[p].todo = <<>>
        BY <1>0 DEF ShapeInv, Shape
    <2>2. Handling(th[p], x) = 0
        BY <1>0, <2>1, CallHandling
    <2>3. Handling(th[p], x)' = 0 /\ Steers(p, x)
        <3>1. t \in Seq(Tasks) /\ \A j \in DOMAIN t : t[j].op # "detach"
            BY <1>2, TaskType, PutTask
        <3> HIDE DEF t
        <3> QED BY <1>2, <3>1, LeavesHandling, LeavesSteers, ZenonT(60)
    <2>4. N(q, {x}) = N(z, {x}) + (IF s = x THEN 1 ELSE 0)
        <3>1. q \in Seq(Socks)
            BY <1>2, ListType
        <3>2. N(q, {x}) = N(z, {x}) + (IF q[i] \in {x} THEN 1 ELSE 0)
            BY <3>1, WhereRemoveAt
        <3> QED BY <1>2, <3>2
    <2>5. /\ sock'[r].connecting = z
          /\ \A y \in Socks \ {r} : sock'[y].connecting = sock[y].connecting
          /\ sock'[x].remote = sock[x].remote /\ sock'[x].state = sock[x].state
        BY <1>2 DEF Lists
    <2>6. /\ Limbo(x)' + Handling(th[p], x) + N(q, {x}) = Limbo(x) + Handling(th[p], x)' + N(sock'[r].connecting, {x})
          /\ Limbo(x) \in Nat /\ Limbo(x)' \in Nat /\ N(q, {x}) \in Nat /\ N(sock'[r].connecting, {x}) \in Nat
        BY <1>2, <2>5, LimboByLists
    <2>7. Limbo(x)' + (IF s = x THEN 1 ELSE 0) = Limbo(x)
        <3> DEFINE n == N(q, {x})
                   n1 == N(sock'[r].connecting, {x})
                   a == Limbo(x)
                   a1 == Limbo(x)'
                   h == Handling(th[p], x)
                   h1 == Handling(th[p], x)'
                   e == IF s = x THEN 1 ELSE 0
        <3>1. n = n1 + e /\ e \in Nat
            <4>1. n1 = N(z, {x})
                BY <2>5
            <4> HIDE DEF n1, z
            <4> QED BY <2>4, <4>1
        <3>2. a1 + h + n = a + h1 + n1 /\ a \in Nat /\ a1 \in Nat /\ n1 \in Nat /\ h = 0 /\ h1 = 0
            BY <2>2, <2>3, <2>6
        <3> HIDE DEF n, n1, a, a1, h, h1, e
        <3>3. a1 + e = a
            BY ONLY <3>1, <3>2
        <3> QED BY <3>3 DEF a, a1, e
    <2>8. Limbo(x) <= 1
        BY DEF Peers, LimboInv
    <2>9. s = x => Limbo(x)' = 0
        BY <2>6, <2>7, <2>8
    <2>10. Limbo(x)' <= Limbo(x)
        BY <2>6, <2>7
    <2> QED BY <2>3, <2>5, <2>9, <2>10 DEF Treats, Late
<1> QED BY <1>1, <1>2, ConnectUnlinkIs

\* No socket is treated badly by unix_accept's taking of the head.
LEMMA AcceptTakeTreats ==
    ASSUME TypeOK, ShapeInv, TypeOK', Accounts, NEW p \in Threads, AcceptTake(p), NEW x \in Socks
    PROVE  Treats(p, x)
<1> DEFINE s == th[p].s
           q == sock[s].connecting
<1>1. /\ th[p].pc = "acceptLoop" /\ Others(p) /\ s \in Socks
      /\ q # <<>> /\ Head(q) \in Socks /\ Lists(s, Tail(q))
      /\ Becomes(p, "acceptPair", s, Head(q), th[p].new)
    BY AcceptTakeIs DEF At
<1>2. th[p].todo = <<>>
    BY <1>1 DEF ShapeInv, Shape
<1>3. Handling(th[p], x) = 0
    BY <1>1, <1>2, CallHandling
<1>4. Handling(th[p], x)' = IF Head(q) = x THEN 1 ELSE 0
    BY <1>1, CallHandlingNext DEF Becomes
<1>5. N(q, {x}) = (IF Head(q) = x THEN 1 ELSE 0) + N(Tail(q), {x})
    <2>1. q \in Seq(Socks)
        BY <1>1, ListType
    <2>2. N(q, {x}) = (IF Head(q) \in {x} THEN 1 ELSE 0) + N(Tail(q), {x})
        BY <1>1, <2>1, WhereTail
    <2> QED BY <2>2
<1>6. /\ sock'[s].connecting = Tail(q)
      /\ \A y \in Socks \ {s} : sock'[y].connecting = sock[y].connecting
      /\ sock'[x].remote = sock[x].remote /\ sock'[x].state = sock[x].state
    BY <1>1 DEF Lists
<1>7. /\ Limbo(x)' + Handling(th[p], x) + N(q, {x}) = Limbo(x) + Handling(th[p], x)' + N(sock'[s].connecting, {x})
      /\ Limbo(x) \in Nat /\ Limbo(x)' \in Nat /\ N(q, {x}) \in Nat /\ N(sock'[s].connecting, {x}) \in Nat
    BY <1>1, <1>6, LimboByLists, ZenonT(60)
<1>8. Limbo(x)' <= Limbo(x)
    <2> DEFINE n == N(q, {x})
               n1 == N(sock'[s].connecting, {x})
               a == Limbo(x)
               a1 == Limbo(x)'
               h == Handling(th[p], x)
               h1 == Handling(th[p], x)'
               e == IF Head(q) = x THEN 1 ELSE 0
    <2>1. n = e + n1 /\ e \in Nat
        BY <1>5, <1>6
    <2>2. a1 + h + n = a + h1 + n1 /\ a \in Nat /\ a1 \in Nat /\ n1 \in Nat /\ h = 0 /\ h1 = e
        BY <1>3, <1>4, <1>7
    <2> HIDE DEF n, n1, a, a1, h, h1, e
    <2>3. a1 <= a
        BY ONLY <2>1, <2>2
    <2> QED BY <2>3 DEF a, a1
<1>9. Steers(p, x)
    BY <1>1, <1>6 DEF Becomes, Steers, Checked, SetUpLocations
<1> QED BY <1>1, <1>6, <1>8, <1>9 DEF Treats, Late, LatePoints

\* No socket is treated badly by unix_accept's pairing.
LEMMA AcceptPairTreats ==
    ASSUME TypeOK, ShapeInv, TypeOK', Accounts, Peers, NEW p \in Threads, AcceptPair(p),
           NEW x \in Socks
    PROVE  Treats(p, x)
<1> DEFINE b == <<Task("put", th[p].new), Task("put", th[p].r), Task("put", th[p].s),
                  Task("open", th[p].new)>>
<1>1. /\ th[p].pc = "acceptPair" /\ Others(p) /\ Leaves(p, b)
      /\ th[p].s \in Socks /\ th[p].r \in Socks /\ th[p].new \in Socks
      /\ \A y \in Socks :
           /\ sock'[y].connecting = sock[y].connecting
           /\ sock'[y].state = IF y = th[p].r THEN sock[y].state \ {"PEER_CLOSED", "CONNECTING"}
                               ELSE sock[y].state
           /\ sock'[y].remote = IF y = th[p].new THEN th[p].r
                                ELSE IF y = th[p].r THEN th[p].new ELSE sock[y].remote
    BY AcceptPairIs, ZenonT(60) DEF At
<1>2. th[p].todo = <<>>
    BY <1>1 DEF ShapeInv, Shape
<1>3. Handling(th[p], x) = IF th[p].r = x THEN 1 ELSE 0
    BY <1>1, <1>2, CallHandling
<1>4. Handling(th[p], x)' = 0 /\ Steers(p, x)
    <2>1. b \in Seq(Tasks) /\ \A j \in DOMAIN b : b[j].op # "detach"
        BY <1>1, TaskType, PutTask
    <2> HIDE DEF b
    <2> QED BY <1>1, <2>1, LeavesHandling, LeavesSteers, ZenonT(60)
<1>5. Linked(x)' = Linked(x)
    BY <1>1, LinkedSame
<1>6. /\ Limbo(x)' + Handling(th[p], x) + Linked(x) = Limbo(x) + Handling(th[p], x)' + Linked(x)'
      /\ Limbo(x) \in Nat /\ Limbo(x)' \in Nat /\ Linked(x) \in Nat
    BY <1>1, LimboChange
<1>7. Limbo(x)' + (IF th[p].r = x THEN 1 ELSE 0) = Limbo(x)
    BY ONLY <1>3, <1>4, <1>5, <1>6
<1>8. Limbo(x) <= 1
    BY DEF Peers, LimboInv
<1>9. th[p].r = x => Limbo(x) >= 1 /\ Limbo(x)' = 0
    BY <1>6, <1>7, <1>8
<1>10. Limbo(x)' <= Limbo(x)
    BY <1>6, <1>7
<1>11. ~Late(th[p], x)
    BY <1>1 DEF Late, LatePoints
<1> QED BY <1>1, <1>4, <1>9, <1>10, <1>11 DEF Treats

\* What a call that finishes handles.
LEMMA FinishHandling ==
    ASSUME TypeOK, ShapeInv, NEW p \in Threads, At(p, "finish"), NEW x \in Socks
    PROVE  /\ Handling(th[p], x)
                = (IF Head(th[p].todo).op = "detach" /\ Head(th[p].todo).s = x THEN 1 ELSE 0)
                  + N(Tail(th[p].todo), {Task("detach", x)})
           /\ N(Tail(th[p].todo), {Task("detach", x)}) \in Nat
           /\ th[p].pc \notin LatePoints
<1>1. /\ th[p].todo \in Seq(Tasks) /\ th[p].todo # <<>> /\ Head(th[p].todo) \in Tasks
      /\ Tail(th[p].todo) \in Seq(Tasks)
    BY FinishType
<1> DEFINE q == th[p].todo
           D == {Task("detach", x)}
<1>2. N(q, D) = (IF Head(q) \in D THEN 1 ELSE 0) + N(Tail(q), D) /\ N(Tail(q), D) \in Nat
    <2> HIDE DEF q, D
    <2>1. q \in Seq(Tasks) /\ q # <<>> /\ Tail(q) \in Seq(Tasks)
        BY <1>1 DEF q
    <2> QED BY <2>1, WhereTail, WhereFinite
<1>3. Head(q) \in D <=> Head(q).op = "detach" /\ Head(q).s = x
    BY <1>1 DEF Tasks, Task
<1>4. Bit(th[p].pc = "acceptPair" /\ th[p].r = x) = 0
    BY DEF At, Bit
<1>5. Handling(th[p], x) = 0 + N(q, D)
    BY <1>4 DEF Handling
<1>6. th[p].pc \notin LatePoints
    BY DEF At, LatePoints
<1> QED BY <1>2, <1>3, <1>5, <1>6

\* No socket is treated badly by unixsock_put with other owners left.
LEMMA PutTreats ==
    ASSUME TypeOK, ShapeInv, TypeOK', Accounts, NEW p \in Threads, Puts(p),
           sock[Head(th[p].todo).s].refs > 1, NEW x \in Socks
    PROVE  Treats(p, x) /\ Passes(p, x)
<1>1. /\ At(p, "finish") /\ Head(th[p].todo).op = "put"
      /\ Others(p) /\ Leaves(p, Tail(th[p].todo))
      /\ Counts(Head(th[p].todo).s, sock[Head(th[p].todo).s].refs - 1)
    BY PutIs DEF Puts
<1> DEFINE z == Tail(th[p].todo)
<1>2. z \in Seq(Tasks)
    BY <1>1, FinishType
<1>3. Handling(th[p], x)' = N(z, {Task("detach", x)}) /\ Steers(p, x)
    <2>1. Leaves(p, z)
        BY <1>1
    <2> HIDE DEF z
    <2> QED BY <1>2, <2>1, LeavesHandling, LeavesSteers
<1>4. Handling(th[p], x) = N(z, {Task("detach", x)}) /\ th[p].pc \notin LatePoints
    <2> DEFINE n == N(z, {Task("detach", x)})
    <2>1. /\ Handling(th[p], x)
               = (IF Head(th[p].todo).op = "detach" /\ Head(th[p].todo).s = x THEN 1 ELSE 0) + n
          /\ n \in Nat /\ th[p].pc \notin LatePoints
        BY <1>1, FinishHandling, Zenon
    <2>2. Head(th[p].todo).op # "detach"
        BY <1>1
    <2> HIDE DEF z, n
    <2>3. Handling(th[p], x) = 0 + n
        BY ONLY <2>1, <2>2
    <2> QED BY ONLY <2>1, <2>3 DEF n
<1>5. /\ \A y \in Socks : sock'[y].connecting = sock[y].connecting
      /\ sock'[x].remote = sock[x].remote /\ sock'[x].state = sock[x].state
    BY <1>1 DEF Counts
<1> HIDE DEF z
<1> QED BY <1>1, <1>3, <1>4, <1>5, StepTreats

\* A teardown detaches each socket on the list as often as it is there.
LEMMA TeardownDetaches ==
    ASSUME TypeOK, NEW s \in Socks, NEW z \in Seq(Tasks), NEW x \in Socks
    PROVE  N(Teardown(s) \o z, {Task("detach", x)})
             = N(sock[s].connecting, {x}) + N(z, {Task("detach", x)})
<1> DEFINE w == sock[s].connecting
           d == [i \in DOMAIN w |-> Task("detach", w[i])]
           f == <<Task("free", s)>>
           D == {Task("detach", x)}
<1>1. w \in Seq(Socks)
    BY ListType
<1>2. d \in Seq(Tasks) /\ Teardown(s) = d \o f /\ Teardown(s) \in Seq(Tasks)
    BY TeardownType DEF Teardown
<1>3. f \in Seq(Tasks)
    <2>1. Task("free", s) \in Tasks
        BY TaskType
    <2> QED BY <2>1
<1>4. N(f, D) = 0
    <2>1. Task("free", s) \notin D
        BY DEF Task
    <2> HIDE DEF D
    <2> QED BY <2>1, WhereOne
<1>5. N(d, D) = N(w, {x})
    <2>1. Len(w) \in Nat /\ DOMAIN w = 1..Len(w) /\ DOMAIN d = DOMAIN w
          /\ \A i \in DOMAIN w : d[i] = Task("detach", w[i])
        BY <1>1
    <2>2. \A y \in Socks : Task("detach", y) \in D <=> y \in {x}
        BY DEF Task
    <2>3. \A i \in DOMAIN w : w[i] \in Socks
        BY <1>1
    <2> HIDE DEF d, w, D
    <2>4. Where(d, D) = Where(w, {x})
        BY <2>1, <2>2, <2>3 DEF Where
    <2> QED BY <2>4 DEF N
<1> HIDE DEF d, f, w, D
<1>6. N(d \o f, D) = N(w, {x}) + 0
    BY <1>2, <1>3, <1>4, <1>5, WhereConcat
<1>7. N(w, {x}) \in Nat /\ N(z, D) \in Nat
    BY <1>1, WhereFinite
<1>8. N(Teardown(s) \o z, D) = N(Teardown(s), D) + N(z, D)
    <2> DEFINE T == Teardown(s)
    <2>1. T \in Seq(Tasks)
        BY <1>2
    <2> HIDE DEF T
    <2>2. N(T \o z, D) = N(T, D) + N(z, D)
        BY <2>1, WhereConcat
    <2> QED BY <2>2 DEF T
<1>9. N(Teardown(s) \o z, D) = N(w, {x}) + N(z, D)
    BY <1>2, <1>6, <1>7, <1>8
<1> QED BY <1>9 DEF w, D

\* No socket is treated badly by unixsock_put of the last reference.
LEMMA PutLastTreats ==
    ASSUME TypeOK, ShapeInv, TypeOK', Accounts, NEW p \in Threads, Puts(p),
           ~(sock[Head(th[p].todo).s].refs > 1), NEW x \in Socks
    PROVE  /\ Treats(p, x)
           /\ Handling(th[p], x)'
                = N(sock[Head(th[p].todo).s].connecting, {x}) + Handling(th[p], x)
<1> DEFINE s == Head(th[p].todo).s
           z == Tail(th[p].todo)
           T == Teardown(s) \o z
<1>1. /\ At(p, "finish") /\ Head(th[p].todo).op = "put"
      /\ Others(p) /\ Leaves(p, T) /\ Orphans(s)
    BY PutLastIs DEF Puts
<1>2. z \in Seq(Tasks) /\ s \in Socks
    BY <1>1, FinishType
<1>3. T \in Seq(Tasks)
    <2>1. Teardown(s) \in Seq(Tasks)
        BY <1>2, TeardownType
    <2> QED BY <1>2, <2>1
<1>4. Handling(th[p], x)' = N(T, {Task("detach", x)}) /\ Steers(p, x)
    <2> HIDE DEF T
    <2> QED BY <1>1, <1>3, LeavesHandling, LeavesSteers
<1>5. Handling(th[p], x) = 0 + N(z, {Task("detach", x)}) /\ th[p].pc \notin LatePoints
      /\ N(z, {Task("detach", x)}) \in Nat
    BY <1>1, FinishHandling, ZenonT(60)
<1>6. N(T, {Task("detach", x)}) = N(sock[s].connecting, {x}) + N(z, {Task("detach", x)})
    <2> HIDE DEF s, z
    <2> QED BY <1>2, TeardownDetaches
<1>7. /\ \A y \in Socks \ {s} : sock'[y].connecting = sock[y].connecting
      /\ sock'[s].connecting = <<>>
      /\ sock'[x].remote \in {sock[x].remote, NULL}
      /\ sock[x].state \subseteq sock'[x].state
    BY <1>1, ZenonT(60) DEF Orphans
<1>8. N(sock'[s].connecting, {x}) = 0
    <2> HIDE DEF s
    <2> QED BY <1>7, WhereEmpty
<1>9. /\ Limbo(x)' + Handling(th[p], x) + N(sock[s].connecting, {x})
           = Limbo(x) + Handling(th[p], x)' + N(sock'[s].connecting, {x})
      /\ Limbo(x) \in Nat /\ Limbo(x)' \in Nat /\ N(sock[s].connecting, {x}) \in Nat
    <2> HIDE DEF s
    <2> QED BY <1>1, <1>2, <1>7, LimboByLists, ZenonT(60)
<1>10. Limbo(x)' <= Limbo(x)
    <2> DEFINE n == N(sock[s].connecting, {x})
               n1 == N(sock'[s].connecting, {x})
               a == Limbo(x)
               a1 == Limbo(x)'
               h == Handling(th[p], x)
               h1 == Handling(th[p], x)'
               k == N(z, {Task("detach", x)})
    <2>1. /\ a1 + h + n = a + h1 + n1 /\ n1 = 0 /\ h1 = n + k /\ h = 0 + k
          /\ a \in Nat /\ a1 \in Nat /\ n \in Nat /\ k \in Nat
        BY <1>4, <1>5, <1>6, <1>8, <1>9, SMTT(60)
    <2> HIDE DEF n, n1, a, a1, h, h1, k
    <2>2. a1 <= a
        BY ONLY <2>1
    <2> QED BY <2>2 DEF a, a1
<1>11. Treats(p, x)
    BY <1>4, <1>5, <1>7, <1>10 DEF Treats, Late
<1>12. Handling(th[p], x)' = N(sock[s].connecting, {x}) + Handling(th[p], x)
    BY <1>4, <1>5, <1>6
<1> QED BY <1>11, <1>12

\* No socket is treated badly by the detaching of one connecting socket.
LEMMA DetachTreats ==
    ASSUME TypeOK, ShapeInv, TypeOK', Accounts, Peers, NEW p \in Threads, DetachesOne(p),
           NEW x \in Socks
    PROVE  /\ Treats(p, x)
           /\ Handling(th[p], x)
                = (IF x = Head(th[p].todo).s THEN 1 ELSE 0) + Handling(th[p], x)'
<1> DEFINE q == Head(th[p].todo).s
           z == Tail(th[p].todo)
           T == <<Task("put", q)>> \o z
<1>1. /\ At(p, "finish") /\ Head(th[p].todo).op = "detach"
      /\ Others(p) /\ Leaves(p, T) /\ SameSocks
      /\ \A y \in Socks :
           sock'[y].state = IF y = q THEN (sock[y].state \cup {"PEER_CLOSED"}) \ {"CONNECTING"}
                            ELSE sock[y].state
    BY DetachIs, ZenonT(60) DEF DetachesOne
<1>2. z \in Seq(Tasks) /\ q \in Socks
    BY <1>1, FinishType
<1>3. <<Task("put", q)>> \in Seq(Tasks) /\ T \in Seq(Tasks)
    <2>1. Task("put", q) \in Tasks
        BY <1>2, TaskType
    <2> QED BY <1>2, <2>1
<1>4. Handling(th[p], x)' = N(T, {Task("detach", x)}) /\ Steers(p, x)
    <2> HIDE DEF T
    <2> QED BY <1>1, <1>3, LeavesHandling, LeavesSteers
<1>5. /\ Handling(th[p], x) = (IF q = x THEN 1 ELSE 0) + N(z, {Task("detach", x)})
      /\ N(z, {Task("detach", x)}) \in Nat /\ th[p].pc \notin LatePoints
    BY <1>1, FinishHandling
<1>6. N(T, {Task("detach", x)}) = 0 + N(z, {Task("detach", x)})
    <2> DEFINE D == {Task("detach", x)}
    <2>1. Task("put", q) \notin D
        BY DEF Task
    <2> HIDE DEF q, z, D
    <2>2. N(<<Task("put", q)>>, D) = 0
        BY <2>1, WhereOne
    <2>3. N(<<Task("put", q)>> \o z, D) = N(<<Task("put", q)>>, D) + N(z, D)
        BY <1>2, <1>3, WhereConcat, ZenonT(60)
    <2>4. N(T, D) = 0 + N(z, D)
        BY <2>2, <2>3
    <2> QED BY <2>4 DEF D
<1>7. Linked(x)' = Linked(x) /\ sock'[x].remote = sock[x].remote
    BY <1>1, LinkedSame DEF SameSocks
<1>8. /\ Limbo(x)' + Handling(th[p], x) + Linked(x) = Limbo(x) + Handling(th[p], x)' + Linked(x)'
      /\ Limbo(x) \in Nat /\ Limbo(x)' \in Nat /\ Linked(x) \in Nat
    BY <1>1, LimboChange
<1>9. Limbo(x)' + (IF q = x THEN 1 ELSE 0) = Limbo(x)
    <2> DEFINE l == Linked(x)
               l1 == Linked(x)'
               a == Limbo(x)
               a1 == Limbo(x)'
               h == Handling(th[p], x)
               h1 == Handling(th[p], x)'
               k == N(z, {Task("detach", x)})
               e == IF q = x THEN 1 ELSE 0
    <2>1. /\ a1 + h + l = a + h1 + l1 /\ l1 = l /\ h1 = 0 + k /\ h = e + k
          /\ a \in Nat /\ a1 \in Nat /\ l \in Nat /\ k \in Nat /\ e \in Nat
        BY <1>4, <1>5, <1>6, <1>7, <1>8
    <2> HIDE DEF l, l1, a, a1, h, h1, k, e
    <2>2. a1 + e = a
        BY ONLY <2>1
    <2> QED BY <2>2 DEF a, a1, e
<1>10. Limbo(x) <= 1
    BY DEF Peers, LimboInv
<1>11. q = x => Limbo(x)' = 0
    BY <1>8, <1>9, <1>10
<1>12. Limbo(x)' <= Limbo(x)
    BY <1>8, <1>9
<1>13. Treats(p, x)
    BY <1>1, <1>4, <1>5, <1>7, <1>11, <1>12 DEF Treats, Late
<1>14. Handling(th[p], x) = (IF x = q THEN 1 ELSE 0) + Handling(th[p], x)'
    BY <1>4, <1>5, <1>6
<1> QED BY <1>13, <1>14

\* No socket is treated badly by the freeing of a structure.
LEMMA FreeTreats ==
    ASSUME TypeOK, ShapeInv, TypeOK', Accounts, NEW p \in Threads, Frees(p), NEW x \in Socks
    PROVE  Treats(p, x) /\ Passes(p, x)
<1> DEFINE s == Head(th[p].todo).s
           z == Tail(th[p].todo)
<1>1. /\ At(p, "finish") /\ Head(th[p].todo).op = "free"
      /\ Others(p) /\ Leaves(p, z) /\ sock'[s].connecting = <<>>
      /\ \A y \in Socks \ {s} : sock'[y] = sock[y]
    BY FreeIs DEF Frees
<1>2. /\ z \in Seq(Tasks) /\ s \in Socks /\ th[p].todo \in Seq(Tasks) /\ th[p].todo # <<>>
    BY <1>1, FinishType
<1>3. Handling(th[p], x)' = N(z, {Task("detach", x)}) /\ Steers(p, x)
    <2> HIDE DEF z
    <2> QED BY <1>1, <1>2, LeavesHandling, LeavesSteers
<1>4. Handling(th[p], x) = N(z, {Task("detach", x)}) /\ th[p].pc \notin LatePoints
    <2>1. /\ Handling(th[p], x) = (IF Head(th[p].todo).op = "detach" /\ Head(th[p].todo).s = x
                                   THEN 1 ELSE 0) + N(z, {Task("detach", x)})
          /\ N(z, {Task("detach", x)}) \in Nat /\ th[p].pc \notin LatePoints
        BY <1>1, FinishHandling
    <2>2. Head(th[p].todo).op # "detach"
        BY <1>1
    <2> HIDE DEF z
    <2> QED BY ONLY <2>1, <2>2
<1>5. ~IsLive(s) /\ sock[s].connecting = <<>>
    <2>1. 1 \in DOMAIN th[p].todo /\ th[p].todo[1] = Head(th[p].todo)
        BY <1>2
    <2>2. Gone(s)
        BY <1>1, <2>1 DEF Accounts, FreeInv, FreeOnly
    <2>3. ~IsLive(s)
        BY <2>2 DEF Gone, IsLive
    <2> QED BY <1>2, <2>3 DEF Accounts, EmptyInv
<1>6. \A y \in Socks : sock'[y].connecting = sock[y].connecting
    BY <1>1, <1>5
<1>7. IsLive(x) => sock'[x].remote = sock[x].remote /\ sock'[x].state = sock[x].state
    BY <1>1, <1>5
<1> HIDE DEF z
<1> QED BY <1>1, <1>3, <1>4, <1>6, <1>7, StepTreats

\* No socket is treated badly by the opening of a file.
LEMMA OpensTreats ==
    ASSUME TypeOK, ShapeInv, TypeOK', Accounts, NEW p \in Threads, Opens(p), NEW x \in Socks
    PROVE  Treats(p, x) /\ Passes(p, x)
<1> DEFINE z == Tail(th[p].todo)
<1>1. At(p, "finish") /\ Head(th[p].todo).op = "open" /\ Others(p) /\ Leaves(p, z) /\ sock' = sock
    BY FileOpenIs DEF Opens
<1>2. z \in Seq(Tasks)
    BY <1>1, FinishType
<1>3. Handling(th[p], x)' = N(z, {Task("detach", x)}) /\ Steers(p, x)
    <2> HIDE DEF z
    <2> QED BY <1>1, <1>2, LeavesHandling, LeavesSteers
<1>4. Handling(th[p], x) = N(z, {Task("detach", x)}) /\ th[p].pc \notin LatePoints
    <2>1. /\ Handling(th[p], x) = (IF Head(th[p].todo).op = "detach" /\ Head(th[p].todo).s = x
                                   THEN 1 ELSE 0) + N(z, {Task("detach", x)})
          /\ N(z, {Task("detach", x)}) \in Nat /\ th[p].pc \notin LatePoints
        BY <1>1, FinishHandling
    <2>2. Head(th[p].todo).op # "detach"
        BY <1>1
    <2> HIDE DEF z
    <2> QED BY ONLY <2>1, <2>2
<1> HIDE DEF z
<1> QED BY <1>1, <1>3, <1>4, StepTreats

-----------------------------------------------------------------------------
(* The peers point at each other *)

LEMMA DoesTreats ==
    ASSUME "shutdown" \notin Ops, ~SharedConnect, TypeOK, ShapeInv, TypeOK', Accounts, Peers,
           NEW p \in Threads, Does(p)
    PROVE  \A x \in Socks : Treats(p, x)
<1> SUFFICES ASSUME NEW x \in Socks PROVE Treats(p, x)
    OBVIOUS
<1>1. CASE Looks(p)
    BY <1>1, LooksTreats
<1>2. CASE unix_socket(p)
    BY <1>2, SocketTreats
<1>3. CASE unix_socketpair(p)
    BY <1>3, SocketpairTreats
<1>4. CASE PairFails(p)
    BY <1>4, PairFailsTreats
<1>5. CASE PairSecond(p)
    BY <1>5, PairSecondTreats
<1>6. CASE AcceptAlloc(p)
    BY <1>6, AcceptAllocTreats
<1>7. ASSUME NEW f \in open, NEW l \in {"bind", "accept", "listen", "connect"}, Enter(p, f, l),
             l \in {"listen", "connect"} => SharedConnect \/ Undisturbed(f)
      PROVE  Treats(p, x)
    BY <1>7, EnterTreats
<1>8. CASE \E f \in open : unix_close(p, f)
    BY <1>8, CloseTreats
<1>9. CASE ConnectLookup(p)
    BY <1>9, ConnectLookupTreats
<1>10. CASE ConnectRef(p)
    BY <1>10, ConnectRefTreats
<1>11. CASE ConnectAdd(p)
    BY <1>11, ConnectAddTreats
<1>12. CASE ConnectUnlink(p)
    BY <1>12, ConnectUnlinkTreats
<1>13. CASE AcceptTake(p)
    BY <1>13, AcceptTakeTreats
<1>14. CASE AcceptPair(p)
    BY <1>14, AcceptPairTreats
<1>15. CASE Puts(p)
    BY <1>15, PutTreats, PutLastTreats, ZenonT(60)
<1>16. CASE DetachesOne(p)
    BY <1>16, DetachTreats
<1>17. CASE Frees(p)
    BY <1>17, FreeTreats
<1>18. CASE Opens(p)
    BY <1>18, OpensTreats
<1> QED BY <1>1, <1>2, <1>3, <1>4, <1>5, <1>6, <1>7, <1>8, <1>9, <1>10, <1>11, <1>12, <1>13,
           <1>14, <1>15, <1>16, <1>17, <1>18 DEF Does

\* The step of a thread leaves the calls of the others alone, but for waking them up.
LEMMA DoesOthers ==
    ASSUME TypeOK, ShapeInv, Accounts, "shutdown" \notin Ops, NEW p \in Threads, Does(p)
    PROVE  Others(p)
<1>1. CASE Looks(p)
    BY <1>1, LooksQuiet DEF Quiet
<1>2. CASE \E f \in open, l \in {"bind", "accept", "listen", "connect"} : Enter(p, f, l)
    BY <1>2, EnterIs
<1>3. ASSUME NEW f \in open, unix_close(p, f) PROVE Others(p)
    <2>1. At(p, "user") /\ DropTwice(p, f) /\ Found(sock[f].id) = {f}
        BY <1>3, FileFound, ThreadsAssumption DEF unix_close
    <2> QED BY <2>1, DropTwiceIs
<1>4. CASE ConnectLookup(p)
    BY <1>4, ConnectLookupIs DEF Quiet
<1>5. CASE ConnectUnlink(p)
    BY <1>5, ConnectUnlinkIs DEF Quiet
<1>6. CASE Puts(p)
    BY <1>6, PutIs, PutLastIs DEF Puts
<1>7. CASE DetachesOne(p)
    BY <1>7, DetachIs DEF DetachesOne
<1>8. CASE Frees(p)
    BY <1>8, FreeIs DEF Frees
<1>9. CASE Opens(p)
    BY <1>9, FileOpenIs DEF Opens
<1> QED BY <1>1, <1>2, <1>3, <1>4, <1>5, <1>6, <1>7, <1>8, <1>9, SocketIs, SocketpairIs, PairFailsIs,
           PairSecondIs, AcceptAllocIs, ConnectRefIs, ConnectAddIs, AcceptTakeIs, AcceptPairIs,
           ZenonT(60) DEF Does

\* The step of a thread keeps the four invariants of the sockets in limbo.
LEMMA PeersStep ==
    ASSUME "shutdown" \notin Ops, ~SharedConnect, TypeOK, ShapeInv, TypeOK', Accounts, Peers,
           NEW p \in Threads, Does(p)
    PROVE  Peers'
BY DoesTreats, DoesOthers, LimboKeeps, NewKeeps, ConnectKeeps, SetUpKeeps DEF Peers

\* A step that changes neither structures nor calls keeps them.
LEMMA PeersSame ==
    ASSUME Peers, sock' = sock, th' = th PROVE Peers'
<1>1. ASSUME NEW x PROVE Limbo(x)' = Limbo(x)
    <2>1. Linked(x)' = Linked(x)
        BY DEF Linked, Links
    <2>2. Handlings(x)' = Handlings(x)
        BY DEF Handlings, HandlingsOf
    <2> QED BY <2>1, <2>2 DEF Limbo
<1>2. LimboInv'
    BY <1>1 DEF Peers, LimboInv, Late
<1>3. NewInv' /\ ConnectInv'
    BY <1>1 DEF Peers, NewInv, ConnectInv
<1>4. SetUpInv'
    BY DEF Peers, SetUpInv
<1> QED BY <1>2, <1>3, <1>4 DEF Peers

\* They hold at start.
LEMMA PeersInit == ASSUME Init PROVE Peers
<1> USE ThreadsAssumption
<1>1. /\ TypeOK /\ Accounts
      /\ \A s \in Socks : sock[s] = Blank
      /\ \A p \in Threads : th[p] = User
    <2>1. TypeOK
        BY InitType
    <2> QED BY <2>1, AccountsInit DEF Init
<1>2. ASSUME NEW x \in Socks PROVE Limbo(x) = 0 /\ sock[x].remote = NULL
    <2>1. ~IsLive(x)
        BY <1>1 DEF IsLive, Blank
    <2> QED BY <1>1, <2>1, NotLiveLimbo DEF Blank
<1>3. LimboInv
    BY <1>2 DEF LimboInv
<1>4. \A p \in Threads : th[p].new = NULL /\ th[p].s = NULL
    BY <1>1 DEF User
<1>5. NewInv /\ ConnectInv /\ SetUpInv
    BY <1>4, SocksType DEF NewInv, ConnectInv, SetUpInv
<1> QED BY <1>3, <1>5 DEF Peers

\* No socket gains or loses its peer, but one whose peer leaves the tree.
LEMMA SameMutual ==
    ASSUME TypeOK, RemoteIsMutual,
           \A x \in Socks :
              /\ IsLive(x)' => sock'[x].remote = NULL \/ (IsLive(x) /\ sock'[x].remote = sock[x].remote)
              /\ IsLive(x) => IsLive(x)' /\ sock'[x].remote = sock[x].remote
    PROVE  RemoteIsMutual'
<1> SUFFICES ASSUME NEW x \in Socks, IsLive(x)', sock'[x].remote # NULL
      PROVE  /\ sock'[x].remote \in Socks /\ sock'[sock'[x].remote].mem = "live"
             /\ sock'[sock'[x].remote].remote = x
    BY DEF RemoteIsMutual, Live, IsLive
<1>1. IsLive(x) /\ sock'[x].remote = sock[x].remote
    OBVIOUS
<1>2. sock[x].remote \in Socks /\ IsLive(sock[x].remote) /\ sock[sock[x].remote].remote = x
    BY <1>1 DEF RemoteIsMutual, Live, IsLive
<1> DEFINE y == sock[x].remote
<1>3. sock'[y].mem = "live" /\ sock'[y].remote = sock[y].remote
    BY <1>2 DEF IsLive
<1> QED BY <1>1, <1>2, <1>3

\* Two sockets without a peer become each other's.
LEMMA PairMutual ==
    ASSUME TypeOK, RemoteIsMutual, NEW a \in Socks, NEW b \in Socks, a # b,
           sock'[a].mem = "live", sock'[b].mem = "live",
           sock'[a].remote = b, sock'[b].remote = a,
           \A x \in {a, b} : IsLive(x) => sock[x].remote = NULL,
           \A x \in Socks \ {a, b} : sock'[x].mem = sock[x].mem /\ sock'[x].remote = sock[x].remote
    PROVE  RemoteIsMutual'
<1> SUFFICES ASSUME NEW x \in Socks, sock'[x].mem = "live", sock'[x].remote # NULL
      PROVE  /\ sock'[x].remote \in Socks /\ sock'[sock'[x].remote].mem = "live"
             /\ sock'[sock'[x].remote].remote = x
    BY DEF RemoteIsMutual, Live
<1>1. CASE x \in {a, b}
    BY <1>1
<1>2. CASE x \notin {a, b}
    <2>1. IsLive(x) /\ sock'[x].remote = sock[x].remote
        BY <1>2 DEF IsLive
    <2>2. sock[x].remote \in Socks /\ IsLive(sock[x].remote) /\ sock[sock[x].remote].remote = x
        BY <2>1 DEF RemoteIsMutual, Live, IsLive
    <2> DEFINE y == sock[x].remote
    <2>3. y \notin {a, b}
        BY <1>2, <2>2, SocksType
    <2>4. sock'[y].mem = "live" /\ sock'[y].remote = sock[y].remote
        BY <2>2, <2>3 DEF IsLive
    <2> QED BY <2>1, <2>2, <2>4
<1> QED BY <1>1, <1>2

\* A socket leaves the tree, and its peer is told.
LEMMA LastMutual ==
    ASSUME TypeOK, RemoteIsMutual, NEW s \in Socks, Orphans(s), IsLive(s)
    PROVE  RemoteIsMutual'
<1> SUFFICES ASSUME NEW x \in Socks, sock'[x].mem = "live", sock'[x].remote # NULL
      PROVE  /\ sock'[x].remote \in Socks /\ sock'[sock'[x].remote].mem = "live"
             /\ sock'[sock'[x].remote].remote = x
    BY DEF RemoteIsMutual, Live
<1>1. x # s
    BY DEF Orphans
<1>2. IsLive(x) /\ sock'[x].remote = sock[x].remote /\ x # sock[s].remote
    BY <1>1, ZenonT(60) DEF Orphans, IsLive
<1>3. sock[x].remote \in Socks /\ IsLive(sock[x].remote) /\ sock[sock[x].remote].remote = x
    BY <1>2 DEF RemoteIsMutual, Live, IsLive
<1> DEFINE y == sock[x].remote
<1>4. y # s
    BY <1>2, <1>3
<1>5. y # sock[s].remote
    <2>1. sock[s].remote # NULL => sock[sock[s].remote].remote = s
        BY DEF RemoteIsMutual, Live, IsLive
    <2> QED BY <1>1, <1>3, <2>1, SocksType
<1>6. sock'[y].mem = "live" /\ sock'[y].remote = sock[y].remote
    BY <1>3, <1>4, <1>5, ZenonT(60) DEF Orphans, IsLive
<1> QED BY <1>2, <1>3, <1>6

\* Every step of a thread keeps peers mutual: unix_accept and unix_socketpair set both
\* pointers, unixsock_put clears the other one.
LEMMA MutualStep ==
    ASSUME "shutdown" \notin Ops, TypeOK, ShapeInv, Accounts, Peers, RemoteIsMutual,
           NEW p \in Threads, Does(p)
    PROVE  RemoteIsMutual'
<1>1. ASSUME \A x \in Socks : sock'[x].mem = sock[x].mem /\ sock'[x].remote = sock[x].remote
      PROVE  RemoteIsMutual'
    BY <1>1, SameMutual DEF IsLive
<1>2. ASSUME NEW f, NEW i, Allocates(f, i), RemotesSame(f) PROVE RemoteIsMutual'
    BY <1>2, SameMutual DEF IsLive, Allocates, RemotesSame
<1>3. ASSUME NEW s, NEW n, Counts(s, n) PROVE RemoteIsMutual'
    BY <1>1, <1>3 DEF Counts
<1>4. ASSUME NEW r, NEW q, Lists(r, q) PROVE RemoteIsMutual'
    BY <1>1, <1>4 DEF Lists
<1>5. ASSUME SameSocks PROVE RemoteIsMutual'
    BY <1>1, <1>5 DEF SameSocks
<1>6. ASSUME UNCHANGED sock PROVE RemoteIsMutual'
    BY <1>1, <1>6
<1>7. CASE Looks(p)
    BY <1>5, <1>7, LooksQuiet DEF Quiet
<1>8. CASE unix_socket(p) \/ unix_socketpair(p) \/ AcceptAlloc(p)
    BY <1>2, <1>8, SocketIs, SocketpairIs, AcceptAllocIs
<1>9. CASE PairFails(p) \/ Opens(p)
    BY <1>6, <1>9, PairFailsIs DEF Opens
<1>10. CASE PairSecond(p)
    <2>1. th[p].new \in Socks
        BY <1>10, PairHolds
    <2>2. IsLive(th[p].new) /\ sock[th[p].new].remote = NULL
        BY <2>1, PointedIsLive, ThreadsAssumption DEF Accounts, Peers, NewInv
    <2>3. PICK f \in Socks, i \in Ids :
             /\ Allocates(f, i)
             /\ \/ /\ \A x \in Socks : sock'[x].remote = IF x = th[p].new THEN f
                                        ELSE IF x = f THEN th[p].new ELSE sock[x].remote
                   /\ th[p].new # f
                \/ RemotesSame(f)
        BY <1>10, <2>2, PairSecondIs, ZenonT(60)
    <2>4. CASE RemotesSame(f)
        BY <1>2, <2>3, <2>4
    <2>5. CASE /\ \A x \in Socks : sock'[x].remote = IF x = th[p].new THEN f
                                    ELSE IF x = f THEN th[p].new ELSE sock[x].remote
               /\ th[p].new # f
        <3> DEFINE a == th[p].new
        <3>1. sock'[a].remote = f /\ sock'[f].remote = a
            BY <2>1, <2>5
        <3>2. sock'[a].mem = "live" /\ sock'[f].mem = "live" /\ ~IsLive(f)
            BY <2>1, <2>2, <2>3, <2>5 DEF Allocates, IsLive
        <3>3. \A x \in Socks \ {a, f} : sock'[x].mem = sock[x].mem /\ sock'[x].remote = sock[x].remote
            BY <2>3, <2>5 DEF Allocates
        <3>4. a # f /\ a \in Socks /\ sock[a].remote = NULL
            BY <2>1, <2>2, <2>5
        <3> HIDE DEF a
        <3> QED BY <3>1, <3>2, <3>3, <3>4, PairMutual
    <2> QED BY <2>3, <2>4, <2>5
<1>11. CASE \E f \in open, l \in {"bind", "accept", "listen", "connect"} : Enter(p, f, l)
    BY <1>3, <1>11, EnterIs
<1>12. ASSUME NEW f \in open, unix_close(p, f) PROVE RemoteIsMutual'
    <2>1. At(p, "user") /\ DropTwice(p, f)
        BY <1>12 DEF unix_close
    <2> QED BY <1>3, <1>6, <2>1, DropTwiceIs
<1>13. CASE ConnectLookup(p)
    BY <1>3, <1>6, <1>13, ConnectLookupIs
<1>14. CASE ConnectRef(p)
    BY <1>3, <1>14, ConnectRefIs
<1>15. CASE ConnectAdd(p)
    BY <1>4, <1>15, ConnectAddIs
<1>16. CASE ConnectUnlink(p)
    BY <1>4, <1>6, <1>16, ConnectUnlinkIs
<1>17. CASE AcceptTake(p)
    BY <1>4, <1>17, AcceptTakeIs
<1>18. CASE AcceptPair(p)
    <2> DEFINE a == th[p].new
               b == th[p].r
    <2>1. /\ th[p].pc = "acceptPair" /\ a \in Socks /\ b \in Socks
          /\ \A x \in Socks :
               /\ sock'[x].mem = sock[x].mem
               /\ sock'[x].remote = IF x = a THEN b ELSE IF x = b THEN a ELSE sock[x].remote
        BY <1>18, AcceptPairIs, ZenonT(60) DEF At
    <2>2. IsLive(a) /\ IsLive(b)
        BY <2>1, PointedIsLive, ThreadsAssumption DEF Accounts
    <2>3. Limbo(b) >= 1
        <3>1. Handling(th[p], b) <= Limbo(b) /\ Limbo(b) \in Nat
            BY LimboType
        <3>2. th[p].todo = <<>>
            BY <2>1 DEF ShapeInv, Shape
        <3>3. Handling(th[p], b) = 1
            BY <2>1, <3>2, CallHandling
        <3> QED BY <3>1, <3>3
    <2>4. Limbo(a) = 0 /\ sock[a].remote = NULL /\ sock[b].remote = NULL
        BY <2>1, <2>3 DEF Peers, NewInv, LimboInv
    <2>5. a # b
        BY <2>3, <2>4
    <2>6. sock'[a].remote = b /\ sock'[b].remote = a /\ sock'[a].mem = "live" /\ sock'[b].mem = "live"
        BY <2>1, <2>2, <2>5 DEF IsLive
    <2>7. \A x \in Socks \ {a, b} : sock'[x].mem = sock[x].mem /\ sock'[x].remote = sock[x].remote
        BY <2>1
    <2>8. a \in Socks /\ b \in Socks
        BY <2>1
    <2> HIDE DEF a, b
    <2> QED BY <2>4, <2>5, <2>6, <2>7, <2>8, PairMutual
<1>19. CASE Puts(p)
    <2> DEFINE s == Head(th[p].todo).s
    <2>1. CASE sock[s].refs > 1
        BY <1>3, <1>19, <2>1, PutIs DEF Puts
    <2>2. CASE ~(sock[s].refs > 1)
        <3>1. Orphans(s) /\ At(p, "finish") /\ Head(th[p].todo).op = "put"
            BY <1>19, <2>2, PutLastIs DEF Puts
        <3>2. s \in Socks
            BY <3>1, FinishType
        <3>3. Owns(th[p], s) > 0
            <4> DEFINE n == N(Tail(th[p].todo), Drop(s))
            <4>1. Owns(th[p], s) = Bit(Head(th[p].todo).s = s /\ Head(th[p].todo).op # "free") + n
                  /\ n \in Nat
                BY <3>1, <3>2, TaskOwns, ZenonT(60)
            <4>2. Bit(Head(th[p].todo).s = s /\ Head(th[p].todo).op # "free") = 1
                BY <3>1 DEF Bit
            <4> HIDE DEF s, n
            <4> QED BY <4>1, <4>2
        <3>4. IsLive(s)
            <4> HIDE DEF s
            <4> QED BY <3>2, <3>3, OwnedIsLive, ThreadsAssumption DEF Accounts
        <3> HIDE DEF s
        <3> QED BY <3>1, <3>2, <3>4, LastMutual
    <2> QED BY <2>1, <2>2
<1>20. CASE DetachesOne(p)
    BY <1>5, <1>20, DetachIs, ZenonT(60) DEF DetachesOne
<1>21. CASE Frees(p)
    <2> DEFINE s == Head(th[p].todo).s
    <2>1. /\ At(p, "finish") /\ Head(th[p].todo).op = "free" /\ sock'[s].mem = "freed"
          /\ \A x \in Socks \ {s} : sock'[x] = sock[x]
        BY <1>21, FreeIs DEF Frees
    <2>2. s \in Socks /\ ~IsLive(s)
        <3>1. th[p].todo \in Seq(Tasks) /\ th[p].todo # <<>> /\ s \in Socks
            BY <2>1, FinishType
        <3>2. 1 \in DOMAIN th[p].todo /\ th[p].todo[1] = Head(th[p].todo)
            BY <3>1
        <3>3. Gone(s)
            BY <2>1, <3>2 DEF Accounts, FreeInv, FreeOnly
        <3> QED BY <3>1, <3>3 DEF Gone, IsLive
    <2> HIDE DEF s
    <2> QED BY <2>1, <2>2, SameMutual DEF IsLive
<1> QED BY <1>7, <1>8, <1>9, <1>10, <1>11, <1>12, <1>13, <1>14, <1>15, <1>16, <1>17, <1>18, <1>19,
           <1>20, <1>21 DEF Does

\* Peers point at each other, whatever the clients do but shutdown(), and connect() or listen()
\* twice at a time on one socket: no accept, timeout or close leaves a weak pointer behind.
THEOREM RemotesAreMutual ==
    ASSUME "shutdown" \notin Ops, ~SharedConnect PROVE Spec => []RemoteIsMutual
<1> USE ThreadsAssumption
<1>1. Init => Peers /\ RemoteIsMutual
    <2>1. Init => RemoteIsMutual
        BY DEF Init, RemoteIsMutual, Live, Blank
    <2> QED BY <2>1, PeersInit
<1>2. TypeOK /\ ShapeInv /\ TypeOK' /\ Accounts /\ Peers /\ RemoteIsMutual /\ [Next]_vars
        => Peers' /\ RemoteIsMutual'
    <2> SUFFICES ASSUME TypeOK, ShapeInv, TypeOK', Accounts, Peers, RemoteIsMutual, [Next]_vars
                 PROVE  Peers' /\ RemoteIsMutual'
        OBVIOUS
    <2>1. CASE UNCHANGED vars \/ Unlink
        <3>1. sock' = sock /\ th' = th
            BY <2>1 DEF vars, Unlink
        <3>2. Peers'
            BY <3>1, PeersSame
        <3>3. RemoteIsMutual'
            BY <3>1 DEF RemoteIsMutual, Live
        <3> QED BY <3>2, <3>3
    <2>2. ASSUME NEW p \in Threads, Does(p) PROVE Peers' /\ RemoteIsMutual'
        BY <2>2, PeersStep, MutualStep
    <2> QED BY <2>1, <2>2, NextDoes
<1>3. Spec => [](TypeOK /\ ShapeInv)
    BY TypeCorrect
<1>4. Spec => []Accounts
    BY AccountsHold
<1> QED BY <1>1, <1>2, <1>3, <1>4, PTL DEF Spec

=============================================================================
