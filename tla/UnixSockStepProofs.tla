------------------------- MODULE UnixSockStepProofs -------------------------
(***************************************************************************)
(* The life of AF_UNIX sockets: proofs for any number of threads and       *)
(* sockets.                                                                *)
(*                                                                         *)
(* This module counts what is in sets and lists, says once what each step  *)
(* of a call does to the sockets and to the call, proves the types, says   *)
(* what a call owns of a socket at each of its places, and begins the      *)
(* account of references that UnixSockCountProofs finishes.                *)
(* UnixSockCountProofs and UnixSockProofs build on it.                     *)
(***************************************************************************)
EXTENDS UnixSock, FiniteSetTheorems, FunctionTheorems, SequenceTheorems, TLAPS

\* A bijection keeps the number of elements.
LEMMA SameSize ==
    ASSUME NEW S, NEW T, NEW f \in [S -> T], IsFiniteSet(S),
           \A x, y \in S : f[x] = f[y] => x = y,
           \A y \in T : \E x \in S : f[x] = y
    PROVE  IsFiniteSet(T) /\ Cardinality(T) = Cardinality(S)
<1>1. f \in Bijection(S, T)
    BY Fun_IsBij
<1> QED BY <1>1, FS_Bijection DEF ExistsBijection

\* Two sets without a common element.
LEMMA DisjointSize ==
    ASSUME NEW S, NEW T, IsFiniteSet(S), IsFiniteSet(T), S \cap T = {}
    PROVE  IsFiniteSet(S \cup T) /\ Cardinality(S \cup T) = Cardinality(S) + Cardinality(T)
<1>1. Cardinality(S) \in Nat /\ Cardinality(T) \in Nat /\ Cardinality(S \cap T) = 0
    BY FS_CardinalityType, FS_EmptySet
<1>2. /\ IsFiniteSet(S \cup T)
      /\ Cardinality(S \cup T) = Cardinality(S) + Cardinality(T) - Cardinality(S \cap T)
    BY FS_Union
<1> QED BY <1>1, <1>2

\* What the members of A have, one set for each.
Pairs(A, F) == UNION {{a} \X F[a] : a \in A}

\* Pairing a set with one thing keeps its size.
LEMMA PairsOfOne ==
    ASSUME NEW a, NEW X, IsFiniteSet(X)
    PROVE  IsFiniteSet({a} \X X) /\ Cardinality({a} \X X) = Cardinality(X)
<1> DEFINE f == [x \in X |-> <<a, x>>]
<1>1. f \in [X -> {a} \X X]
    OBVIOUS
<1>2. \A x, y \in X : f[x] = f[y] => x = y
    OBVIOUS
<1>3. \A z \in {a} \X X : \E x \in X : f[x] = z
    OBVIOUS
<1> HIDE DEF f
<1> QED BY <1>1, <1>2, <1>3, SameSize

\* Finitely many finite sets, one for each thread or socket, make a finite set.
LEMMA PairsFinite ==
    ASSUME NEW A, IsFiniteSet(A), NEW F, \A a \in A : IsFiniteSet(F[a])
    PROVE  IsFiniteSet(Pairs(A, F)) /\ Cardinality(Pairs(A, F)) \in Nat
<1> DEFINE f == [a \in A |-> {a} \X F[a]]
           T == {{a} \X F[a] : a \in A}
<1>1. IsFiniteSet(T)
    <2>1. f \in Surjection(A, T)
        BY DEF Surjection
    <2> QED BY <2>1, FS_Surjection
<1>2. ASSUME NEW X \in T PROVE IsFiniteSet(X)
    <2>1. PICK a \in A : X = {a} \X F[a]
        OBVIOUS
    <2>2. IsFiniteSet(F[a])
        OBVIOUS
    <2>3. IsFiniteSet({a} \X F[a])
        BY <2>2, PairsOfOne
    <2> QED BY <2>1, <2>3
<1>3. IsFiniteSet(UNION T)
    BY <1>1, <1>2, FS_UNION
<1> QED BY <1>3, FS_CardinalityType DEF Pairs

\* The pairs of one member, apart from the others'.
LEMMA PairsSplit ==
    ASSUME NEW A, IsFiniteSet(A), NEW F, \A a \in A : IsFiniteSet(F[a]), NEW p \in A
    PROVE  /\ Cardinality(Pairs(A, F)) = Cardinality(F[p]) + Cardinality(Pairs(A \ {p}, F))
           /\ Cardinality(Pairs(A, F)) \in Nat /\ Cardinality(F[p]) \in Nat
           /\ Cardinality(Pairs(A \ {p}, F)) \in Nat
<1>1. IsFiniteSet(A \ {p})
    BY FS_RemoveElement
<1>2. IsFiniteSet(Pairs(A \ {p}, F)) /\ Cardinality(Pairs(A \ {p}, F)) \in Nat
    BY <1>1, PairsFinite
<1>3. IsFiniteSet({p} \X F[p]) /\ Cardinality({p} \X F[p]) = Cardinality(F[p])
    BY PairsOfOne
<1>4. Pairs(A, F) = ({p} \X F[p]) \cup Pairs(A \ {p}, F)
    BY DEF Pairs
<1>5. ({p} \X F[p]) \cap Pairs(A \ {p}, F) = {}
    BY DEF Pairs
<1>6. Cardinality(F[p]) \in Nat
    BY FS_CardinalityType
<1>7. Cardinality(Pairs(A, F)) \in Nat
    BY PairsFinite
<1> QED BY <1>2, <1>3, <1>4, <1>5, <1>6, <1>7, DisjointSize, ZenonT(60)

\* One member's set changes.
LEMMA PairsChange ==
    ASSUME NEW A, IsFiniteSet(A), NEW F, NEW G,
           \A a \in A : IsFiniteSet(F[a]) /\ IsFiniteSet(G[a]),
           NEW p \in A, \A a \in A \ {p} : F[a] = G[a]
    PROVE  Cardinality(Pairs(A, G)) + Cardinality(F[p])
             = Cardinality(Pairs(A, F)) + Cardinality(G[p])
<1>1. Pairs(A \ {p}, F) = Pairs(A \ {p}, G)
    BY DEF Pairs
<1> QED BY <1>1, PairsSplit

\* No member has anything, or some member has at least one.
LEMMA PairsZero ==
    ASSUME NEW A, IsFiniteSet(A), NEW F, \A a \in A : IsFiniteSet(F[a])
    PROVE  Cardinality(Pairs(A, F)) = 0 <=> \A a \in A : F[a] = {}
<1>1. Cardinality(Pairs(A, F)) = 0 <=> Pairs(A, F) = {}
    BY PairsFinite, FS_EmptySet
<1>2. ASSUME Pairs(A, F) = {}, NEW a \in A PROVE F[a] = {}
    <2>1. ASSUME NEW x \in F[a] PROVE <<a, x>> \in Pairs(A, F)
        BY DEF Pairs
    <2> QED BY <1>2, <2>1
<1>3. (\A a \in A : F[a] = {}) => Pairs(A, F) = {}
    BY DEF Pairs
<1> QED BY <1>1, <1>2, <1>3

\* When all there is belongs to p, the others have nothing.
LEMMA PairsOnly ==
    ASSUME NEW A, IsFiniteSet(A), NEW F, \A a \in A : IsFiniteSet(F[a]),
           NEW p \in A, NEW q \in A \ {p},
           Cardinality(Pairs(A, F)) <= Cardinality(F[p])
    PROVE  F[q] = {}
<1>1. Cardinality(Pairs(A \ {p}, F)) = 0
    BY PairsSplit
<1>2. IsFiniteSet(A \ {p})
    BY FS_RemoveElement
<1> QED BY <1>1, <1>2, PairsZero

-----------------------------------------------------------------------------
(* Counting in sequences *)

\* The places of q that hold an element of S, and their number.
Where(q, S) == {i \in DOMAIN q : q[i] \in S}
N(q, S) == Cardinality(Where(q, S))

\* The places of a sequence are finitely many.
LEMMA WhereFinite ==
    ASSUME NEW E, NEW q \in Seq(E), NEW S
    PROVE  IsFiniteSet(Where(q, S)) /\ N(q, S) \in Nat
<1>1. IsFiniteSet(1..Len(q))
    BY FS_Interval
<1>2. Where(q, S) \in SUBSET (1..Len(q))
    BY DEF Where
<1> QED BY <1>1, <1>2, FS_Subset, FS_CardinalityType DEF N

\* No place holds an element of S: the count is zero.
LEMMA WhereNone ==
    ASSUME NEW E, NEW q \in Seq(E), NEW S
    PROVE  N(q, S) = 0 <=> \A i \in DOMAIN q : q[i] \notin S
<1>1. N(q, S) = 0 <=> Where(q, S) = {}
    BY WhereFinite, FS_EmptySet DEF N
<1>2. Where(q, S) = {} <=> \A i \in DOMAIN q : q[i] \notin S
    BY DEF Where
<1> QED BY <1>1, <1>2

\* The empty sequence has nothing in it.
LEMMA WhereEmpty ==
    ASSUME NEW S PROVE N(<<>>, S) = 0
<1>1. Where(<<>>, S) = {}
    BY DEF Where
<1> QED BY <1>1, FS_EmptySet DEF N

\* What a sequence of one element has in it.
LEMMA WhereOne ==
    ASSUME NEW x, NEW S PROVE N(<<x>>, S) = IF x \in S THEN 1 ELSE 0
<1>1. Where(<<x>>, S) = IF x \in S THEN {1} ELSE {}
    BY DEF Where
<1> QED BY <1>1, FS_EmptySet, FS_Singleton DEF N

\* The places of a \o b are those of a, and those of b moved by the length of a.
LEMMA WhereConcat ==
    ASSUME NEW E, NEW a \in Seq(E), NEW b \in Seq(E), NEW S
    PROVE  N(a \o b, S) = N(a, S) + N(b, S)
<1> DEFINE k == Len(a)
           T == {i \in DOMAIN (a \o b) : i > k /\ (a \o b)[i] \in S}
           f == [j \in Where(b, S) |-> j + k]
<1>1. /\ k \in Nat /\ Len(a \o b) = k + Len(b) /\ a \o b \in Seq(E)
      /\ \A i \in DOMAIN a : i \in DOMAIN (a \o b) /\ (a \o b)[i] = a[i] /\ i <= k
      /\ \A j \in DOMAIN b : j + k \in DOMAIN (a \o b) /\ (a \o b)[j + k] = b[j] /\ j + k > k
      /\ \A i \in DOMAIN (a \o b) : IF i <= k THEN i \in DOMAIN a
                                    ELSE i - k \in DOMAIN b /\ (i - k) + k = i
    OBVIOUS
<1>2. IsFiniteSet(Where(a, S)) /\ IsFiniteSet(Where(b, S))
    BY WhereFinite
<1>3. IsFiniteSet(T) /\ Cardinality(T) = Cardinality(Where(b, S))
    <2>1. f \in [Where(b, S) -> T]
        BY <1>1 DEF Where
    <2>2. \A x, y \in Where(b, S) : f[x] = f[y] => x = y
        BY <1>1 DEF Where
    <2>3. ASSUME NEW i \in T PROVE \E j \in Where(b, S) : f[j] = i
        <3>1. i - k \in Where(b, S) /\ f[i - k] = i
            BY <1>1 DEF Where
        <3> QED BY <3>1
    <2> HIDE DEF f, T
    <2> QED BY <1>2, <2>1, <2>2, <2>3, SameSize
<1>4. Where(a \o b, S) = Where(a, S) \cup T
    BY <1>1 DEF Where
<1>5. Where(a, S) \cap T = {}
    BY <1>1 DEF Where
<1> HIDE DEF T
<1> QED BY <1>2, <1>3, <1>4, <1>5, DisjointSize, ZenonT(60) DEF N

\* Taking the head of a list takes it from the count.
LEMMA WhereTail ==
    ASSUME NEW E, NEW q \in Seq(E), q # <<>>, NEW S
    PROVE  N(q, S) = (IF Head(q) \in S THEN 1 ELSE 0) + N(Tail(q), S)
<1>1. q = <<Head(q)>> \o Tail(q) /\ <<Head(q)>> \in Seq(E) /\ Tail(q) \in Seq(E)
    OBVIOUS
<1>2. N(<<Head(q)>> \o Tail(q), S) = N(<<Head(q)>>, S) + N(Tail(q), S)
    BY <1>1, WhereConcat, ZenonT(60)
<1>3. N(<<Head(q)>>, S) = IF Head(q) \in S THEN 1 ELSE 0
    BY WhereOne
<1> QED BY ONLY <1>1, <1>2, <1>3

\* Appending to a list adds to the count.
LEMMA WhereAppend ==
    ASSUME NEW E, NEW q \in Seq(E), NEW x \in E, NEW S
    PROVE  N(Append(q, x), S) = N(q, S) + IF x \in S THEN 1 ELSE 0
<1>1. Append(q, x) = q \o <<x>> /\ <<x>> \in Seq(E)
    OBVIOUS
<1>2. N(q \o <<x>>, S) = N(q, S) + N(<<x>>, S)
    BY <1>1, WhereConcat, ZenonT(60)
<1>3. N(<<x>>, S) = IF x \in S THEN 1 ELSE 0
    BY WhereOne
<1> QED BY ONLY <1>1, <1>2, <1>3

\* What is left when one element is taken out is a sequence over the same set.
LEMMA RemoveAtType ==
    ASSUME NEW E, NEW q \in Seq(E), NEW i \in DOMAIN q
    PROVE  RemoveAt(q, i) \in Seq(E)
<1>1. Len(q) \in Nat /\ i \in 1..Len(q) /\ \A j \in 1..Len(q) : q[j] \in E
    OBVIOUS
<1> DEFINE n == Len(q)
<1> HIDE DEF n
<1>2. /\ n \in Nat /\ i \in 1..n /\ \A j \in 1..n : q[j] \in E
    BY ONLY <1>1 DEF n
<1>3. /\ 1 \in Int /\ i - 1 \in Int /\ i + 1 \in Int /\ n \in Int
      /\ 1..(i - 1) \subseteq 1..n /\ (i + 1)..n \subseteq 1..n
    BY ONLY <1>2
<1>4. /\ \A j \in 1..(i - 1) : q[j] \in E
      /\ \A j \in (i + 1)..n : q[j] \in E
    BY ONLY <1>2, <1>3, Zenon
<1> DEFINE a == SubSeq(q, 1, i - 1)
           b == SubSeq(q, i + 1, n)
<1>5. a \in Seq(E) /\ b \in Seq(E)
    BY ONLY <1>3, <1>4, SubSeqProperties, Zenon
<1>6. RemoveAt(q, i) = a \o b
    BY DEF RemoveAt, n
<1> HIDE DEF a, b
<1> QED BY ONLY <1>5, <1>6, ConcatProperties, Zenon

\* One element is taken out.
LEMMA WhereRemoveAt ==
    ASSUME NEW E, NEW q \in Seq(E), NEW i \in DOMAIN q, NEW S
    PROVE  N(q, S) = N(RemoveAt(q, i), S) + IF q[i] \in S THEN 1 ELSE 0
<1> DEFINE a == SubSeq(q, 1, i - 1)
           b == SubSeq(q, i + 1, Len(q))
<1>1. a \in Seq(E) /\ b \in Seq(E) /\ <<q[i]>> \in Seq(E) /\ a \o <<q[i]>> \in Seq(E)
    OBVIOUS
<1>2. q = (a \o <<q[i]>>) \o b
    <2>1. /\ Len(a) = i - 1 /\ Len(b) = Len(q) - i /\ i \in 1..Len(q)
          /\ \A j \in 1..(i - 1) : a[j] = q[j]
          /\ \A j \in 1..(Len(q) - i) : b[j] = q[i + j]
        OBVIOUS
    <2> DEFINE c == a \o <<q[i]>>
    <2>2. c \in Seq(E) /\ Len(c) = i /\ \A j \in 1..i : c[j] = q[j]
        <3> DEFINE e == <<q[i]>>
        <3>1. e \in Seq(E) /\ Len(e) = 1 /\ e[1] = q[i]
            BY <1>1
        <3> HIDE DEF e, a
        <3>2. /\ a \o e \in Seq(E) /\ Len(a \o e) = Len(a) + Len(e)
              /\ \A j \in 1..(Len(a) + Len(e)) : (a \o e)[j] = IF j <= Len(a) THEN a[j] ELSE e[j - Len(a)]
            BY ONLY <1>1, <3>1, ConcatProperties, ZenonT(60)
        <3>3. i \in Nat /\ i >= 1 /\ Len(a) = i - 1
            BY <2>1
        <3>4. Len(a) + Len(e) = i
            BY ONLY <3>1, <3>3
        <3>5. ASSUME NEW j \in 1..i PROVE (a \o e)[j] = q[j]
            <4>1. CASE j <= Len(a)
                <5>1. j \in 1..(i - 1)
                    BY ONLY <3>3, <3>5, <4>1
                <5> QED BY ONLY <2>1, <3>2, <3>4, <3>5, <4>1, <5>1, Zenon
            <4>2. CASE ~(j <= Len(a))
                <5>1. j = i /\ j - Len(a) = 1
                    BY ONLY <3>3, <3>5, <4>2
                <5> QED BY ONLY <3>1, <3>2, <3>4, <3>5, <4>2, <5>1, Zenon
            <4> QED BY ONLY <4>1, <4>2, Zenon
        <3> QED BY ONLY <3>2, <3>4, <3>5, Zenon DEF e
    <2> HIDE DEF a, b, c
    <2>3. c \o b \in Seq(E) /\ Len(c \o b) = Len(q)
        BY <1>1, <2>1, <2>2
    <2>4. ASSUME NEW j \in 1..Len(q) PROVE (c \o b)[j] = q[j]
        <3>1. CASE j <= i
            <4>1. j \in 1..i /\ j \in 1..(Len(c) + Len(b))
                BY <1>1, <2>1, <2>2, <3>1
            <4>2. (c \o b)[j] = c[j]
                BY <1>1, <2>2, <4>1, ConcatProperties
            <4> QED BY <2>2, <4>1, <4>2
        <3>2. CASE ~(j <= i)
            <4> DEFINE n == Len(q)
            <4>3. n \in Nat /\ i \in 1..n /\ j \in 1..n /\ Len(c) = i /\ Len(b) = n - i
                BY <1>1, <2>1, <2>2
            <4> HIDE DEF n
            <4>4. j - i \in 1..(n - i) /\ i + (j - i) = j /\ j \in 1..(i + (n - i))
                BY <3>2, <4>3
            <4>1. j - i \in 1..(Len(q) - i) /\ i + (j - i) = j /\ j \in 1..(Len(c) + Len(b))
                BY <4>3, <4>4 DEF n
            <4>2. (c \o b)[j] = b[j - i]
                BY <1>1, <2>2, <3>2, <4>1, ConcatProperties, ZenonT(60)
            <4> QED BY <2>1, <4>1, <4>2
        <3> QED BY <3>1, <3>2
    <2>5. c \o b = q
        BY <2>3, <2>4, SeqEqual
    <2> QED BY <2>5 DEF c
<1>3. RemoveAt(q, i) = a \o b
    BY DEF RemoveAt
<1>4. N(a, S) \in Nat /\ N(b, S) \in Nat
    BY <1>1, WhereFinite
<1> HIDE DEF a, b
<1>5. /\ N((a \o <<q[i]>>) \o b, S) = N(a \o <<q[i]>>, S) + N(b, S)
      /\ N(a \o <<q[i]>>, S) = N(a, S) + N(<<q[i]>>, S)
    BY <1>1, WhereConcat, ZenonT(60)
<1>6. N(a \o b, S) = N(a, S) + N(b, S)
    BY <1>1, WhereConcat
<1>7. N(<<q[i]>>, S) = IF q[i] \in S THEN 1 ELSE 0
    BY WhereOne
<1>8. N(q, S) = N(a \o <<q[i]>>, S) + N(b, S)
    BY <1>2, <1>5, Zenon
<1>9. N(RemoveAt(q, i), S) = N(a, S) + N(b, S)
    BY <1>3, <1>6, Zenon
<1> QED BY ONLY <1>4, <1>5, <1>7, <1>8, <1>9

-----------------------------------------------------------------------------
(* The invariant *)

\* A call points at a socket from the step that finds it to the step that turns the
\* reference into a drop; only a call that is leaving has drops to do.
OnSocket == {"bind", "bindCreate"} \cup AcceptLocations \cup SetUpLocations
OnRemote == {"acceptPair", "connectRemote", "connectRef", "connectAdd", "connectMark",
             "connectStore", "connectLoop", "connectSleep", "connectUnlink",
             "lateLoop", "lateSleep"}
OnNew == {"pair", "acceptLoop", "acceptSleep", "acceptPair"}

Shape(c) ==
    /\ c.s # NULL <=> c.pc \in OnSocket
    /\ c.r # NULL <=> c.pc \in OnRemote
    /\ c.new # NULL <=> c.pc \in OnNew
    /\ c.todo # <<>> <=> c.pc = "finish"

ShapeInv == \A p \in Threads : Shape(th[p])

\* What is in the tree.
IsLive(s) == sock[s].mem = "live"

\* An id names one socket.
IdsInv == \A s, t \in Live : sock[s].id = sock[t].id => s = t


-----------------------------------------------------------------------------
(* What a step does to the calls *)

\* The same references, whatever the place.
SameRefs(c, d) ==
    c.s = d.s /\ c.r = d.r /\ c.new = d.new /\ c.todo = d.todo

\* From one place to the same one, or from a sleep to where it wakes up.
Wakes(l, m) ==
    \/ m = l
    \/ l = "acceptSleep" /\ m = "acceptLoop"
    \/ l = "connectSleep" /\ m = "connectLoop"
    \/ l = "lateSleep" /\ m = "lateLoop"

Others(p) ==
    \A q \in Threads \ {p} :
       SameRefs(th[q], th'[q]) /\ th'[q].seen = th[q].seen /\ Wakes(th[q].pc, th'[q].pc)

\* Where the call of p is after the step, and what it points at.
Becomes(p, l, s, r, new) ==
    /\ th'[p].pc = l /\ th'[p].s = s /\ th'[p].r = r /\ th'[p].new = new
    /\ th'[p].todo = <<>>

Leaves(p, tasks) ==
    /\ th'[p].s = NULL /\ th'[p].r = NULL /\ th'[p].new = NULL
    /\ th'[p].pc = (IF tasks = <<>> THEN "user" ELSE "finish")
    /\ th'[p].todo = tasks

\* The drops of a call that returns.
Dues(c) ==
    IF c.r = NULL THEN <<Task("put", c.s)>> ELSE <<Task("put", c.r), Task("put", c.s)>>

\* A deferred drop is a record of its kind and its socket.
LEMMA TaskType ==
    ASSUME NEW op \in {"put", "detach", "free", "open"}, NEW s \in Socks
    PROVE  Task(op, s) \in Tasks /\ Task(op, s).op = op /\ Task(op, s).s = s
BY DEF Task, Tasks

\* The null pointer is no structure.
LEMMA SocksType == NULL \notin Socks /\ Socks \subseteq Nat
BY MaxSocksAssumption DEF Socks, NULL

\* A thread outside the library is a call at rest.
LEMMA UserType == User \in Calls
<1>1. <<>> \in Seq(Tasks)
    OBVIOUS
<1> QED BY <1>1 DEF User, Calls, Locations

\* p leaves its call with the tasks.
LEMMA LeaveIs ==
    ASSUME th \in [Threads -> Calls], NEW p \in Threads, NEW tasks \in Seq(Tasks),
           th' = Leave(p, tasks)
    PROVE  th' \in [Threads -> Calls] /\ Leaves(p, tasks) /\ \A q \in Threads \ {p} : th'[q] = th[q]
<1> DEFINE d == IF tasks = <<>> THEN User ELSE [User EXCEPT !.pc = "finish", !.todo = tasks]
<1>1. d \in Calls
    BY UserType DEF Calls, Locations
<1>2. /\ d.s = NULL /\ d.r = NULL /\ d.new = NULL /\ d.todo = tasks
      /\ d.pc = IF tasks = <<>> THEN "user" ELSE "finish"
    BY DEF User
<1>3. th' = [th EXCEPT ![p] = d]
    BY DEF Leave
<1> HIDE DEF d
<1>4. th' \in [Threads -> Calls] /\ th'[p] = d /\ \A q \in Threads \ {p} : th'[q] = th[q]
    BY <1>1, <1>3
<1> QED BY <1>2, <1>4 DEF Leaves

\* Nothing happens to another call.
LEMMA OthersStay ==
    ASSUME NEW p \in Threads, \A q \in Threads \ {p} : th'[q] = th[q]
    PROVE  Others(p)
BY DEF Others, SameRefs, Wakes

\* The tasks of a call that returns.
LEMMA DuesType ==
    ASSUME TypeOK, ShapeInv, NEW p \in Threads, th[p].pc \in OnSocket
    PROVE  Dues(th[p]) \in Seq(Tasks) /\ Dues(th[p]) # <<>> /\ th[p].s \in Socks
           /\ th[p].r \in Socks \cup {NULL}
<1>1. th[p] \in Calls /\ Shape(th[p])
    BY DEF TypeOK, ShapeInv
<1>2. th[p].s \in Socks /\ th[p].r \in Socks \cup {NULL}
    BY <1>1 DEF Calls, Shape
<1>3. Task("put", th[p].s) \in Tasks
    BY <1>2, TaskType
<1>4. th[p].r # NULL => Task("put", th[p].r) \in Tasks
    BY <1>2, TaskType
<1> QED BY <1>2, <1>3, <1>4 DEF Dues

\* A call that returns drops its references (unixsock_put of the peer, then of the socket)
\* and forgets its pointers.
LEMMA ReturnIs ==
    ASSUME TypeOK, ShapeInv, NEW p \in Threads, th[p].pc \in OnSocket, th' = Return(p)
    PROVE  th' \in [Threads -> Calls] /\ Leaves(p, Dues(th[p])) /\ Others(p)
<1>1. th' = Leave(p, Dues(th[p]))
    BY DEF Return, Dues
<1>2. th \in [Threads -> Calls]
    BY DEF TypeOK
<1> QED BY <1>1, <1>2, DuesType, LeaveIs, OthersStay

\* A call goes on.
LEMMA GotoIs ==
    ASSUME th \in [Threads -> Calls], NEW p \in Threads, NEW l \in Locations, th' = Goto(p, l)
    PROVE  th' \in [Threads -> Calls] /\ SameRefs(th[p], th'[p]) /\ th'[p].pc = l /\ Others(p)
<1>1. th'[p] = [th[p] EXCEPT !.pc = l] /\ th' \in [Threads -> Calls]
    BY ZenonT(60) DEF Goto, Calls
<1>2. \A q \in Threads \ {p} : th'[q] = th[q]
    BY DEF Goto
<1> QED BY <1>1, <1>2, OthersStay DEF SameRefs, Calls

\* After a wakeup on the queue of s, from calls t and structures sk.
LEMMA WakeupIs ==
    ASSUME NEW s \in Socks, NEW t \in [Threads -> Calls], NEW sk \in [Socks -> Sockets],
           proc_threadWakeup(s, sk, t),
           \A q \in Threads : Asleep(q, s) => t[q] = th[q]
    PROVE  /\ th' \in [Threads -> Calls] /\ sock' \in [Socks -> Sockets]
           /\ \A q \in Threads : /\ SameRefs(t[q], th'[q]) /\ th'[q].seen = t[q].seen
                                 /\ Wakes(t[q].pc, th'[q].pc)
           /\ \A q \in Threads : ~Asleep(q, s) => th'[q] = t[q]
           /\ \A x \in Socks :
                /\ sock'[x].mem = sk[x].mem /\ sock'[x].id = sk[x].id
                /\ sock'[x].refs = sk[x].refs /\ sock'[x].connecting = sk[x].connecting
                /\ sock'[x].remote = sk[x].remote /\ sock'[x].state = sk[x].state
           /\ \/ \E q \in Threads : Asleep(q, s) /\ th'[q].pc = Awake(th[q].pc)
              \/ ~\E q \in Threads : Asleep(q, s)
<1>1. CASE \E q \in Threads :
             Asleep(q, s) /\ th' = [t EXCEPT ![q].pc = Awake(@)] /\ sock' = sk
    <2>1. PICK q \in Threads :
             Asleep(q, s) /\ th' = [t EXCEPT ![q].pc = Awake(@)] /\ sock' = sk
        BY <1>1
    <2>2. t[q] = th[q] /\ t[q].pc \in {"acceptSleep", "connectSleep", "lateSleep"}
        BY <2>1 DEF Asleep
    <2>3. Wakes(t[q].pc, Awake(t[q].pc)) /\ Awake(t[q].pc) \in Locations
        BY <2>2 DEF Wakes, Awake, Locations, AcceptLocations, SetUpLocations
    <2>4. th'[q] = [t[q] EXCEPT !.pc = Awake(t[q].pc)] /\ \A x \in Threads \ {q} : th'[x] = t[x]
        BY <2>1
    <2>5. [t[q] EXCEPT !.pc = Awake(t[q].pc)] \in Calls
        BY <2>3, ZenonT(60) DEF Calls
    <2>6. th' \in [Threads -> Calls]
        BY <2>1, <2>5
    <2>7. th'[q].pc = Awake(t[q].pc) /\ SameRefs(t[q], th'[q]) /\ th'[q].seen = t[q].seen
        BY <2>4 DEF SameRefs, Calls
    <2> QED BY <2>1, <2>2, <2>3, <2>4, <2>6, <2>7 DEF SameRefs, Wakes
<1>2. CASE /\ ~\E q \in Threads : Asleep(q, s)
           /\ th' = t
           /\ sock' = [sk EXCEPT ![s].wakeup = TRUE]
    <2>1. sock' \in [Socks -> Sockets]
        BY <1>2, ZenonT(60) DEF Sockets
    <2>2. \A x \in Socks : sock'[x] = IF x = s THEN [sk[x] EXCEPT !.wakeup = TRUE] ELSE sk[x]
        BY <1>2
    <2>3. ASSUME NEW x \in Socks
          PROVE  /\ sock'[x].mem = sk[x].mem /\ sock'[x].id = sk[x].id
                 /\ sock'[x].refs = sk[x].refs /\ sock'[x].connecting = sk[x].connecting
                 /\ sock'[x].remote = sk[x].remote /\ sock'[x].state = sk[x].state
        <3> DEFINE k == sk[x]
        <3>1. k \in Sockets /\ (sock'[x] = k \/ sock'[x] = [k EXCEPT !.wakeup = TRUE])
            BY <2>2
        <3> HIDE DEF k
        <3>2. /\ sock'[x].mem = k.mem /\ sock'[x].id = k.id
              /\ sock'[x].refs = k.refs /\ sock'[x].connecting = k.connecting
              /\ sock'[x].remote = k.remote /\ sock'[x].state = k.state
            BY <3>1 DEF Sockets
        <3> QED BY <3>2 DEF k
    <2>4. \A q \in Threads : /\ SameRefs(t[q], th'[q]) /\ th'[q].seen = t[q].seen
                             /\ Wakes(t[q].pc, th'[q].pc) /\ th'[q] = t[q]
        BY <1>2 DEF SameRefs, Wakes
    <2> QED BY <1>2, <2>1, <2>3, <2>4
<1> QED BY <1>1, <1>2 DEF proc_threadWakeup

-----------------------------------------------------------------------------
(* Steps that leave the references as they are *)

\* No structure changes but for its flags and its sentinel.
SameSocks ==
    \A x \in Socks :
       /\ sock'[x].mem = sock[x].mem /\ sock'[x].id = sock[x].id
       /\ sock'[x].refs = sock[x].refs /\ sock'[x].connecting = sock[x].connecting
       /\ sock'[x].remote = sock[x].remote

\* Places between which a call moves with what it has.
SameKind(l, m) ==
    /\ l \in OnSocket /\ m \in OnSocket
    /\ l \in OnRemote <=> m \in OnRemote
    /\ l \in OnNew <=> m \in OnNew
    /\ {l, m} \cap {"connectAdd", "acceptPair"} = {}

GoesOn(p) == SameRefs(th[p], th'[p]) /\ SameKind(th[p].pc, th'[p].pc)

GoesHome(p) ==
    /\ th[p].pc \in OnSocket \ (OnNew \cup {"connectAdd"})
    /\ Leaves(p, Dues(th[p]))

Quiet(p) ==
    /\ th' \in [Threads -> Calls] /\ sock' \in [Socks -> Sockets]
    /\ open' = open /\ path' \in Ids \cup {NoId}
    /\ Others(p) /\ SameSocks
    /\ GoesOn(p) \/ GoesHome(p)

\* With no structure changed, none is changed but for flags.
LEMMA SameSockets == UNCHANGED sock => SameSocks
BY DEF SameSocks

\* A flag changes.
LEMMA FlagsChange ==
    ASSUME TypeOK, NEW s \in Socks, NEW f \in SUBSET Flags,
           sock' = [sock EXCEPT ![s].state = f]
    PROVE  sock' \in [Socks -> Sockets] /\ SameSocks
           /\ \A x \in Socks : sock'[x].state = IF x = s THEN f ELSE sock[x].state
BY DEF TypeOK, Sockets, SameSocks

\* The sentinel is taken.
LEMMA WaitIs ==
    ASSUME TypeOK, ShapeInv, NEW p \in Threads, th[p].pc \in OnSocket,
           NEW l \in {"acceptSleep", "connectSleep", "lateSleep"}, proc_threadWait(p, l)
    PROVE  /\ th' \in [Threads -> Calls] /\ sock' \in [Socks -> Sockets] /\ SameSocks
           /\ Others(p) /\ SameRefs(th[p], th'[p]) /\ th'[p].pc \in {th[p].pc, l}
           /\ th'[p].seen = th[p].seen
           /\ \A x \in Socks : sock'[x].state = sock[x].state
<1>1. th[p].s \in Socks
    BY DuesType
<1>2. l \in Locations
    BY DEF Locations, AcceptLocations, SetUpLocations
<1>3. CASE th' = Goto(p, l) /\ UNCHANGED sock
    <2>1. th \in [Threads -> Calls]
        BY DEF TypeOK
    <2>2. th'[p].seen = th[p].seen
        BY <1>3, <2>1 DEF Goto, Calls
    <2> QED BY <1>2, <1>3, <2>1, <2>2, GotoIs, SameSockets DEF TypeOK
<1>4. CASE sock' = [sock EXCEPT ![th[p].s].wakeup = FALSE] /\ UNCHANGED th
    <2>1. th' \in [Threads -> Calls] /\ Others(p) /\ SameRefs(th[p], th'[p]) /\ th'[p] = th[p]
        BY <1>4 DEF TypeOK, Others, SameRefs, Wakes
    <2>2. sock' \in [Socks -> Sockets]
        BY <1>1, <1>4, ZenonT(60) DEF TypeOK, Sockets
    <2>3. SameSocks /\ \A x \in Socks : sock'[x].state = sock[x].state
        BY <1>1, <1>4 DEF TypeOK, Sockets, SameSocks
    <2> QED BY <2>1, <2>2, <2>3
<1> QED BY <1>3, <1>4 DEF proc_threadWait

\* The steps of bind(), listen() and accept() that only look or wait.
LEMMA BindCheckQuiet ==
    ASSUME TypeOK, ShapeInv, NEW p \in Threads, BindCheck(p) PROVE Quiet(p)
<1> USE DEF BindCheck, At
<1>1. th[p].pc \in OnSocket \ (OnNew \cup {"connectAdd"})
    BY DEF OnSocket, OnNew
<1>2. CASE th' = Return(p)
    BY <1>1, <1>2, ReturnIs, SameSockets DEF Quiet, GoesHome, TypeOK
<1>3. CASE th' = Goto(p, "bindCreate")
    <2>1. SameKind("bind", "bindCreate")
        BY DEF SameKind, OnSocket, OnRemote, OnNew
    <2> QED BY <1>3, <2>1, GotoIs, SameSockets DEF Quiet, GoesOn, TypeOK, Locations
<1> QED BY <1>2, <1>3

\* unix_bind sets BOUND: no reference and no list changes.
LEMMA BindCreateQuiet ==
    ASSUME TypeOK, ShapeInv, NEW p \in Threads, BindCreate(p) PROVE Quiet(p)
<1> USE DEF BindCreate, At
<1>1. th[p].pc \in OnSocket \ (OnNew \cup {"connectAdd"})
    BY DEF OnSocket, OnNew
<1>2. th' \in [Threads -> Calls] /\ GoesHome(p) /\ Others(p)
    BY <1>1, ReturnIs DEF GoesHome
<1>3. th[p].s \in Socks /\ sock[th[p].s].id \in Ids /\ sock[th[p].s].state \subseteq Flags
    BY <1>1, DuesType DEF TypeOK, Sockets
<1>4. sock' \in [Socks -> Sockets] /\ SameSocks /\ path' \in Ids \cup {NoId}
    <2>1. CASE path = NoId
        <3> DEFINE f == sock[th[p].s].state \cup {"BOUND"}
        <3>1. f \in SUBSET Flags
            BY <1>3 DEF Flags
        <3>2. sock' = [sock EXCEPT ![th[p].s].state = f] /\ path' = sock[th[p].s].id
            BY <2>1
        <3> HIDE DEF f
        <3> QED BY <1>3, <3>1, <3>2, FlagsChange, ZenonT(60)
    <2>2. CASE path # NoId
        BY <2>2, SameSockets DEF TypeOK
    <2> QED BY <2>1, <2>2
<1> QED BY <1>2, <1>4 DEF Quiet

\* unix_listen sets LISTENING: no reference and no list changes.
LEMMA ListenQuiet ==
    ASSUME TypeOK, ShapeInv, NEW p \in Threads, unix_listen(p) PROVE Quiet(p)
<1> USE DEF unix_listen, At
<1>1. th[p].pc \in OnSocket \ (OnNew \cup {"connectAdd"})
    BY DEF OnSocket, OnNew, SetUpLocations
<1>2. th' \in [Threads -> Calls] /\ GoesHome(p) /\ Others(p)
    BY <1>1, ReturnIs DEF GoesHome
<1>3. th[p].s \in Socks /\ sock[th[p].s].state \subseteq Flags
    BY <1>1, DuesType DEF TypeOK, Sockets
<1>4. sock' \in [Socks -> Sockets] /\ SameSocks
    BY <1>3, FlagsChange, ZenonT(60) DEF Flags
<1> QED BY <1>2, <1>4 DEF Quiet, TypeOK

\* unix_accept checks its socket: no reference and no list changes.
LEMMA AcceptCheckQuiet ==
    ASSUME TypeOK, ShapeInv, NEW p \in Threads, AcceptCheck(p) PROVE Quiet(p)
<1> USE DEF AcceptCheck, At
<1>1. th[p].pc \in OnSocket \ (OnNew \cup {"connectAdd"})
    BY DEF OnSocket, OnNew, AcceptLocations
<1>2. CASE th' = Return(p)
    BY <1>1, <1>2, ReturnIs, SameSockets DEF Quiet, GoesHome, TypeOK
<1>3. CASE th' = Goto(p, "acceptAlloc")
    <2>1. SameKind("accept", "acceptAlloc")
        BY DEF SameKind, OnSocket, OnRemote, OnNew, AcceptLocations
    <2> QED BY <1>3, <2>1, GotoIs, SameSockets DEF Quiet, GoesOn, TypeOK, Locations, AcceptLocations
<1> QED BY <1>2, <1>3

\* unix_accept returns without memory: no reference and no list changes.
LEMMA AcceptNoMemoryQuiet ==
    ASSUME TypeOK, ShapeInv, NEW p \in Threads, AcceptNoMemory(p) PROVE Quiet(p)
<1> USE DEF AcceptNoMemory, At
<1>1. th[p].pc \in OnSocket \ (OnNew \cup {"connectAdd"})
    BY DEF OnSocket, OnNew, AcceptLocations
<1> QED BY <1>1, ReturnIs, SameSockets DEF Quiet, GoesHome, TypeOK

\* unix_accept goes to sleep on its queue: no reference and no list changes.
LEMMA AcceptWaitQuiet ==
    ASSUME TypeOK, ShapeInv, NEW p \in Threads, AcceptWait(p) PROVE Quiet(p)
<1> USE DEF AcceptWait, At
<1>1. th[p].pc \in OnSocket
    BY DEF OnSocket, AcceptLocations
<1>2. SameKind("acceptLoop", "acceptSleep") /\ SameKind("acceptLoop", "acceptLoop")
    BY DEF SameKind, OnSocket, OnRemote, OnNew, AcceptLocations
<1> QED BY <1>1, <1>2, WaitIs DEF Quiet, GoesOn, TypeOK

\* The steps of connect() that only look, mark or wait.
LEMMA ConnectCheckQuiet ==
    ASSUME TypeOK, ShapeInv, NEW p \in Threads, ConnectCheck(p) PROVE Quiet(p)
<1> USE DEF ConnectCheck, At
<1>1. th[p].pc \in OnSocket \ (OnNew \cup {"connectAdd"})
    BY DEF OnSocket, OnNew, SetUpLocations
<1>2. CASE th' = Return(p)
    BY <1>1, <1>2, ReturnIs, SameSockets DEF Quiet, GoesHome, TypeOK
<1>3. CASE th' = Goto(p, "connectLookup")
    <2>1. SameKind("connect", "connectLookup")
        BY DEF SameKind, OnSocket, OnRemote, OnNew, SetUpLocations
    <2> QED BY <1>3, <2>1, GotoIs, SameSockets DEF Quiet, GoesOn, TypeOK, Locations, SetUpLocations
<1> QED BY <1>2, <1>3

\* unix_connect checks the socket it connects to: no reference and no list changes.
LEMMA ConnectRemoteQuiet ==
    ASSUME TypeOK, ShapeInv, NEW p \in Threads, ConnectRemote(p) PROVE Quiet(p)
<1> USE DEF ConnectRemote, At
<1>1. th[p].pc \in OnSocket \ (OnNew \cup {"connectAdd"})
    BY DEF OnSocket, OnNew, SetUpLocations
<1>2. CASE th' = Return(p)
    BY <1>1, <1>2, ReturnIs, SameSockets DEF Quiet, GoesHome, TypeOK
<1>3. CASE th' = Goto(p, "connectRef")
    <2>1. SameKind("connectRemote", "connectRef")
        BY DEF SameKind, OnSocket, OnRemote, OnNew, SetUpLocations
    <2> QED BY <1>3, <2>1, GotoIs, SameSockets DEF Quiet, GoesOn, TypeOK, Locations, SetUpLocations
<1> QED BY <1>2, <1>3

\* unix_connect reads its flags, to set CONNECTING in the next step: no reference and no
\* list changes.
LEMMA ConnectMarkQuiet ==
    ASSUME TypeOK, ShapeInv, NEW p \in Threads, ConnectMark(p)
    PROVE  Quiet(p) /\ GoesOn(p) /\ th'[p].pc = "connectStore"
           /\ th'[p].seen = sock[th[p].s].state
<1> USE DEF ConnectMark, At
<1>1. th[p].pc \in OnSocket
    BY DEF OnSocket, SetUpLocations
<1>2. th[p].s \in Socks /\ sock[th[p].s].state \subseteq Flags
    BY <1>1, DuesType DEF TypeOK, Sockets
<1>3. SameKind("connectMark", "connectStore")
    BY DEF SameKind, OnSocket, OnRemote, OnNew, SetUpLocations
<1> DEFINE d == [th[p] EXCEPT !.seen = sock[th[p].s].state, !.pc = "connectStore"]
<1>4. th' \in [Threads -> Calls] /\ \A q \in Threads \ {p} : th'[q] = th[q]
    <2>1. d \in Calls
        BY <1>2 DEF TypeOK, Calls, Locations, SetUpLocations
    <2>2. th' = [th EXCEPT ![p] = d]
        OBVIOUS
    <2> HIDE DEF d
    <2> QED BY <2>1, <2>2, ZenonT(60) DEF TypeOK
<1>5. /\ SameRefs(th[p], th'[p]) /\ th'[p].pc = "connectStore"
      /\ th'[p].seen = sock[th[p].s].state
    BY DEF TypeOK, Calls, SameRefs
<1>6. Others(p)
    BY <1>4, OthersStay
<1> QED BY <1>3, <1>4, <1>5, <1>6, SameSockets DEF Quiet, GoesOn, TypeOK

\* unix_connect stores the flags that it has read, with CONNECTING, and returns or goes on
\* to wait: no reference and no list changes.
LEMMA ConnectStoreQuiet ==
    ASSUME TypeOK, ShapeInv, NEW p \in Threads, ConnectStore(p)
    PROVE  /\ Quiet(p)
           /\ GoesOn(p) => th'[p].pc = "connectLoop"
           /\ \A x \in Socks : sock'[x].state = IF x = th[p].s THEN th[p].seen \cup {"CONNECTING"}
                                               ELSE sock[x].state
<1> USE DEF ConnectStore, At
<1>1. th[p].pc \in OnSocket \ (OnNew \cup {"connectAdd"})
    BY DEF OnSocket, OnNew, SetUpLocations
<1>2. th[p].s \in Socks /\ th[p].seen \subseteq Flags
    BY <1>1, DuesType DEF TypeOK, Calls
<1> DEFINE f == th[p].seen \cup {"CONNECTING"}
<1>3. f \in SUBSET Flags
    BY <1>2 DEF Flags
<1>4. sock' = [sock EXCEPT ![th[p].s].state = f]
    OBVIOUS
<1> HIDE DEF f
<1>5. /\ sock' \in [Socks -> Sockets] /\ SameSocks
      /\ \A x \in Socks : sock'[x].state = IF x = th[p].s THEN f ELSE sock[x].state
    BY ONLY TypeOK, <1>2, <1>3, <1>4, FlagsChange, ZenonT(60)
<1>6. CASE th' = Return(p)
    <2>1. Others(p) /\ Leaves(p, Dues(th[p])) /\ th' \in [Threads -> Calls]
        BY <1>1, <1>6, ReturnIs, ZenonT(60)
    <2>2. ~GoesOn(p)
        <3>1. th'[p].s = NULL /\ th[p].s # NULL
            BY <1>2, <2>1, SocksType DEF Leaves
        <3> QED BY <3>1 DEF GoesOn, SameRefs
    <2> QED BY <1>1, <1>5, <2>1, <2>2 DEF Quiet, GoesHome, TypeOK, f
<1>7. CASE th' = [th EXCEPT ![p].seen = {}, ![p].pc = "connectLoop"]
    <2>1. SameKind("connectStore", "connectLoop")
        BY DEF SameKind, OnSocket, OnRemote, OnNew, SetUpLocations
    <2>2. th' \in [Threads -> Calls]
        <3> DEFINE d == [th[p] EXCEPT !.seen = {}, !.pc = "connectLoop"]
        <3>1. th \in [Threads -> Calls] /\ th[p] \in Calls /\ "connectLoop" \in Locations
            BY DEF TypeOK, Locations, SetUpLocations
        <3>2. d \in Calls
            BY ONLY <3>1, ZenonT(60) DEF Calls
        <3>3. th' = [th EXCEPT ![p] = d]
            BY ONLY <1>7, <3>1
        <3> HIDE DEF d
        <3> QED BY ONLY <3>1, <3>2, <3>3
    <2>3. SameRefs(th[p], th'[p]) /\ th'[p].pc = "connectLoop"
        BY <1>7 DEF TypeOK, Calls, SameRefs
    <2>4. Others(p)
        <3>1. \A q \in Threads \ {p} : th'[q] = th[q]
            BY <1>7 DEF TypeOK
        <3> QED BY <3>1, OthersStay
    <2> QED BY <1>5, <2>1, <2>2, <2>3, <2>4 DEF Quiet, GoesOn, TypeOK, f
<1> QED BY <1>6, <1>7, ZenonT(60)

\* unix_connect looks at its peer and waits: no reference and no list changes.
LEMMA ConnectLoopQuiet ==
    ASSUME TypeOK, ShapeInv, NEW p \in Threads, ConnectLoop(p) PROVE Quiet(p)
<1> USE DEF ConnectLoop, At
<1>1. th[p].pc \in OnSocket \ (OnNew \cup {"connectAdd"})
    BY DEF OnSocket, OnNew, SetUpLocations
<1>2. CASE th' = Return(p) /\ UNCHANGED sock
    BY <1>1, <1>2, ReturnIs, SameSockets DEF Quiet, GoesHome, TypeOK
<1>3. CASE proc_threadWait(p, "connectSleep")
    <2>1. SameKind("connectLoop", "connectSleep") /\ SameKind("connectLoop", "connectLoop")
        BY DEF SameKind, OnSocket, OnRemote, OnNew, SetUpLocations
    <2> QED BY <1>1, <1>3, <2>1, WaitIs DEF Quiet, GoesOn, TypeOK
<1> QED BY <1>2, <1>3

\* unix_connect that timed out too late looks at its peer and waits: no reference and no
\* list changes.
LEMMA LateLoopQuiet ==
    ASSUME TypeOK, ShapeInv, NEW p \in Threads, LateLoop(p) PROVE Quiet(p)
<1> USE DEF LateLoop, At
<1>1. th[p].pc \in OnSocket \ (OnNew \cup {"connectAdd"})
    BY DEF OnSocket, OnNew, SetUpLocations
<1>2. CASE th' = Return(p) /\ UNCHANGED sock
    BY <1>1, <1>2, ReturnIs, SameSockets DEF Quiet, GoesHome, TypeOK
<1>3. CASE proc_threadWait(p, "lateSleep")
    <2>1. SameKind("lateLoop", "lateSleep") /\ SameKind("lateLoop", "lateLoop")
        BY DEF SameKind, OnSocket, OnRemote, OnNew, SetUpLocations
    <2> QED BY <1>1, <1>3, <2>1, WaitIs DEF Quiet, GoesOn, TypeOK
<1> QED BY <1>2, <1>3

\* unix_connect that wakes up by the timeout clears CONNECTING, or returns when it was
\* accepted after all: no reference and no list changes.
LEMMA ConnectTimeoutQuiet ==
    ASSUME TypeOK, ShapeInv, NEW p \in Threads, ConnectTimeout(p)
    PROVE  /\ Quiet(p)
           /\ \/ GoesHome(p) /\ UNCHANGED sock /\ sock[th[p].s].remote # NULL
              \/ /\ GoesOn(p) /\ th'[p].pc = "connectUnlink"
                 /\ \A x \in Socks : sock'[x].state = IF x = th[p].s
                                       THEN sock[x].state \ {"CONNECTING"} ELSE sock[x].state
<1> USE DEF ConnectTimeout, At
<1>1. th[p].pc \in OnSocket \ (OnNew \cup {"connectAdd"})
    BY DEF OnSocket, OnNew, SetUpLocations
<1>2. CASE th' = Return(p) /\ UNCHANGED sock /\ sock[th[p].s].remote # NULL
    BY <1>1, <1>2, ReturnIs, SameSockets DEF Quiet, GoesHome, TypeOK
<1>3. CASE /\ sock' = [sock EXCEPT ![th[p].s].state = @ \ {"CONNECTING"}]
           /\ th' = Goto(p, "connectUnlink")
    <2>1. SameKind("connectSleep", "connectUnlink")
        BY DEF SameKind, OnSocket, OnRemote, OnNew, SetUpLocations
    <2>2. th' \in [Threads -> Calls] /\ GoesOn(p) /\ Others(p) /\ th'[p].pc = "connectUnlink"
        BY <1>3, <2>1, GotoIs DEF TypeOK, GoesOn, Locations, SetUpLocations
    <2> DEFINE f == sock[th[p].s].state \ {"CONNECTING"}
    <2>3. th[p].s \in Socks /\ f \in SUBSET Flags
        BY <1>1, DuesType DEF TypeOK, Sockets
    <2>4. sock' = [sock EXCEPT ![th[p].s].state = f]
        BY <1>3
    <2> HIDE DEF f
    <2>5. /\ sock' \in [Socks -> Sockets] /\ SameSocks
          /\ \A x \in Socks : sock'[x].state = IF x = th[p].s THEN f ELSE sock[x].state
        BY ONLY TypeOK, <2>3, <2>4, FlagsChange, ZenonT(60)
    <2> QED BY <2>2, <2>5, ZenonT(60) DEF Quiet, TypeOK, f
<1> QED BY <1>2, <1>3

\* The socket of a connect() whose time is over has been taken from the list.
LEMMA LateQuiet ==
    ASSUME TypeOK, ShapeInv, NEW p \in Threads, At(p, "connectUnlink"),
           th' = Goto(p, "lateLoop"), UNCHANGED <<sock, open, path>>
    PROVE  Quiet(p) /\ GoesOn(p)
<1>1. SameKind("connectUnlink", "lateLoop")
    BY DEF SameKind, OnSocket, OnRemote, OnNew, SetUpLocations
<1>2. th' \in [Threads -> Calls] /\ GoesOn(p) /\ Others(p)
    BY <1>1, GotoIs DEF TypeOK, GoesOn, Locations, SetUpLocations, At
<1> QED BY <1>2, SameSockets DEF Quiet, TypeOK

-----------------------------------------------------------------------------
(* Steps that allocate *)

\* f is a new structure with the id i.
Allocates(f, i) ==
    /\ sock' \in [Socks -> Sockets]
    /\ sock[f].mem = "unused" /\ FreeId(i)
    /\ sock'[f].mem = "live" /\ sock'[f].id = i /\ sock'[f].refs = 2
    /\ sock'[f].connecting = <<>> /\ sock'[f].state = {}
    /\ \A x \in Socks \ {f} :
         /\ sock'[x].mem = sock[x].mem /\ sock'[x].id = sock[x].id
         /\ sock'[x].refs = sock[x].refs /\ sock'[x].connecting = sock[x].connecting
         /\ sock'[x].state = sock[x].state

RemotesSame(f) ==
    sock'[f].remote = NULL /\ \A x \in Socks \ {f} : sock'[x].remote = sock[x].remote

\* vm_kmalloc hands out a structure that was never used.
LEMMA FreshType == CanAlloc => Fresh \in Socks /\ sock[Fresh].mem = "unused"
BY DEF CanAlloc, Fresh

\* What unixsock_alloc initialises: two references (the tree's and the caller's), no peer,
\* no flags, an empty list.
LEMMA NewSockType ==
    ASSUME NEW i \in Ids, NEW b \in BOOLEAN
    PROVE  /\ NewSock(i, b) \in Sockets
           /\ NewSock(i, b).mem = "live" /\ NewSock(i, b).id = i /\ NewSock(i, b).refs = 2
           /\ NewSock(i, b).connecting = <<>> /\ NewSock(i, b).state = {}
           /\ NewSock(i, b).remote = NULL
<1>1. <<>> \in Seq(Socks) /\ {} \subseteq Flags /\ FALSE \in BOOLEAN
    OBVIOUS
<1> QED BY <1>1, ZenonT(60) DEF NewSock, Blank, Sockets

\* unixsock_alloc puts a new structure in the tree and changes no other.
LEMMA AllocIs ==
    ASSUME TypeOK, CanAlloc, NEW i \in Ids, NEW b \in BOOLEAN, FreeId(i)
    PROVE  /\ unixsock_alloc(i, b) \in [Socks -> Sockets]
           /\ unixsock_alloc(i, b)[Fresh] = NewSock(i, b)
           /\ \A x \in Socks \ {Fresh} : unixsock_alloc(i, b)[x] = sock[x]
           /\ sock' = unixsock_alloc(i, b) => Allocates(Fresh, i) /\ RemotesSame(Fresh)
<1>1. Fresh \in Socks /\ sock[Fresh].mem = "unused"
    BY FreshType
<1> DEFINE f == Fresh
           d == NewSock(i, b)
<1>2. unixsock_alloc(i, b) = [sock EXCEPT ![f] = d]
    BY DEF unixsock_alloc
<1>3. /\ d \in Sockets /\ d.mem = "live" /\ d.id = i /\ d.refs = 2 /\ d.connecting = <<>>
      /\ d.state = {} /\ d.remote = NULL
    BY NewSockType
<1>4. f \in Socks /\ sock \in [Socks -> Sockets]
    BY <1>1 DEF TypeOK
<1> HIDE DEF f, d
<1>5. /\ unixsock_alloc(i, b) \in [Socks -> Sockets] /\ unixsock_alloc(i, b)[f] = d
      /\ \A x \in Socks \ {f} : unixsock_alloc(i, b)[x] = sock[x]
    BY <1>2, <1>3, <1>4
<1>6. sock' = unixsock_alloc(i, b) => Allocates(f, i) /\ RemotesSame(f)
    BY <1>1, <1>3, <1>5 DEF Allocates, RemotesSame, f
<1> QED BY <1>5, <1>6 DEF f, d

\* unix_socket allocates, drops the caller's reference and opens the file.
LEMMA SocketIs ==
    ASSUME TypeOK, ShapeInv, NEW p \in Threads, unix_socket(p)
    PROVE  /\ At(p, "user") /\ open' = open /\ path' = path
           /\ th' \in [Threads -> Calls] /\ Others(p)
           /\ \E f \in Socks, i \in Ids :
                /\ Allocates(f, i) /\ RemotesSame(f)
                /\ Leaves(p, <<Task("put", f), Task("open", f)>>)
<1> USE DEF unix_socket
<1>1. Fresh \in Socks
    BY FreshType
<1>2. PICK i \in Ids, b \in Nonblocking : FreeId(i) /\ sock' = unixsock_alloc(i, b)
    OBVIOUS
<1>3. Allocates(Fresh, i) /\ RemotesSame(Fresh)
    BY <1>2, AllocIs, NonblockingAssumption
<1>4. <<Task("put", Fresh), Task("open", Fresh)>> \in Seq(Tasks)
    BY <1>1, TaskType
<1>5. /\ th' \in [Threads -> Calls] /\ Others(p)
      /\ Leaves(p, <<Task("put", Fresh), Task("open", Fresh)>>)
    BY <1>4, LeaveIs, OthersStay DEF TypeOK
<1> QED BY <1>1, <1>3, <1>5

\* unix_socketpair allocates the first of its two sockets and keeps a pointer at it.
LEMMA SocketpairIs ==
    ASSUME TypeOK, ShapeInv, NEW p \in Threads, unix_socketpair(p)
    PROVE  /\ At(p, "user") /\ open' = open /\ path' = path
           /\ th' \in [Threads -> Calls] /\ Others(p)
           /\ \E f \in Socks, i \in Ids :
                Allocates(f, i) /\ RemotesSame(f) /\ Becomes(p, "pair", NULL, NULL, f)
<1> USE DEF unix_socketpair
<1>1. Fresh \in Socks
    BY FreshType
<1>2. PICK i \in Ids, b \in Nonblocking : FreeId(i) /\ sock' = unixsock_alloc(i, b)
    OBVIOUS
<1>3. Allocates(Fresh, i) /\ RemotesSame(Fresh)
    BY <1>2, AllocIs, NonblockingAssumption
<1> DEFINE d == [th[p] EXCEPT !.pc = "pair", !.new = Fresh]
<1>4. th[p] \in Calls /\ Shape(th[p]) /\ th[p].pc = "user"
    BY DEF TypeOK, ShapeInv, At
<1>5. /\ d \in Calls /\ d.pc = "pair" /\ d.new = Fresh /\ d.s = NULL /\ d.r = NULL
      /\ d.todo = <<>>
    BY <1>1, <1>4, ZenonT(60) DEF Calls, Locations, Shape, OnSocket, OnRemote, AcceptLocations,
       SetUpLocations
<1>6. th' = [th EXCEPT ![p] = d]
    OBVIOUS
<1> HIDE DEF d
<1>7. th' \in [Threads -> Calls] /\ Others(p) /\ Becomes(p, "pair", NULL, NULL, Fresh)
    BY <1>5, <1>6, OthersStay, ZenonT(60) DEF TypeOK, Becomes
<1> QED BY <1>1, <1>3, <1>7

\* unix_socketpair that cannot allocate the second socket drops the first one twice.
LEMMA PairFailsIs ==
    ASSUME TypeOK, ShapeInv, NEW p \in Threads, PairFails(p)
    PROVE  /\ At(p, "pair") /\ UNCHANGED <<sock, open, path>>
           /\ th' \in [Threads -> Calls] /\ Others(p)
           /\ Leaves(p, <<Task("put", th[p].new), Task("put", th[p].new)>>)
<1> USE DEF PairFails
<1>1. th[p] \in Calls /\ Shape(th[p]) /\ th[p].pc = "pair"
    BY DEF TypeOK, ShapeInv, At
<1>2. th[p].new \in Socks
    BY <1>1 DEF Calls, Shape, OnNew
<1>3. <<Task("put", th[p].new), Task("put", th[p].new)>> \in Seq(Tasks)
    BY <1>2, TaskType
<1> QED BY <1>3, LeaveIs, OthersStay DEF TypeOK

\* Four drops make a list of drops.
LEMMA FourTasks ==
    ASSUME NEW a \in Tasks, NEW b \in Tasks, NEW c \in Tasks, NEW d \in Tasks
    PROVE  <<a, b, c, d>> \in Seq(Tasks)
OBVIOUS

\* A call that leaves is in order.
LEMMA LeavesShape ==
    ASSUME NEW p \in Threads, NEW tasks, Leaves(p, tasks) PROVE Shape(th'[p])
BY DEF Leaves, Shape, OnSocket, OnRemote, OnNew, AcceptLocations, SetUpLocations

\* unix_socketpair allocates the second socket and ties the two together, or drops both
\* twice when the buffers cannot be had.
LEMMA PairSecondIs ==
    ASSUME TypeOK, ShapeInv, NEW p \in Threads, PairSecond(p)
    PROVE  /\ At(p, "pair") /\ open' = open /\ path' = path
           /\ th' \in [Threads -> Calls] /\ Others(p) /\ sock' \in [Socks -> Sockets]
           /\ Shape(th'[p])
           /\ IsLive(th[p].new) => \E f \in Socks, i \in Ids :
                /\ Allocates(f, i)
                /\ \/ /\ \A x \in Socks : sock'[x].remote = IF x = th[p].new THEN f
                                           ELSE IF x = f THEN th[p].new ELSE sock[x].remote
                      /\ Leaves(p, <<Task("put", f), Task("put", th[p].new),
                                     Task("open", th[p].new), Task("open", f)>>)
                      /\ th[p].new # f
                   \/ /\ RemotesSame(f)
                      /\ Leaves(p, <<Task("put", f), Task("put", f),
                                     Task("put", th[p].new), Task("put", th[p].new)>>)
<1>0. At(p, "pair") /\ CanAlloc /\ open' = open /\ path' = path
    BY Zenon DEF PairSecond
<1>1. /\ th[p] \in Calls /\ Shape(th[p]) /\ th[p].pc = "pair"
      /\ At(p, "pair") /\ CanAlloc /\ open' = open /\ path' = path
    BY <1>0 DEF TypeOK, ShapeInv, At
<1> DEFINE s0 == th[p].new
           f == Fresh
           b == sock[s0].nonblock
<1>2. s0 \in Socks /\ f \in Socks /\ sock[f].mem = "unused"
    BY <1>1, FreshType DEF Calls, Shape, OnNew
<1>3. b \in BOOLEAN
    BY <1>2 DEF TypeOK, Sockets
<1>4. PICK i \in Ids :
        /\ FreeId(i)
        /\ \/ /\ sock' = [unixsock_alloc(i, b) EXCEPT ![s0].remote = f, ![f].remote = s0]
              /\ th' = Leave(p, <<Task("put", f), Task("put", s0), Task("open", s0), Task("open", f)>>)
           \/ /\ sock' = unixsock_alloc(i, b)
              /\ th' = Leave(p, <<Task("put", f), Task("put", f), Task("put", s0), Task("put", s0)>>)
    BY Zenon DEF PairSecond
<1>5. /\ Task("put", f) \in Tasks /\ Task("put", s0) \in Tasks
      /\ Task("open", f) \in Tasks /\ Task("open", s0) \in Tasks
    BY <1>2, TaskType
<1>6. CASE /\ sock' = unixsock_alloc(i, b)
           /\ th' = Leave(p, <<Task("put", f), Task("put", f), Task("put", s0), Task("put", s0)>>)
    <2>1. Allocates(f, i) /\ RemotesSame(f)
        BY <1>1, <1>3, <1>4, <1>6, AllocIs
    <2>2. <<Task("put", f), Task("put", f), Task("put", s0), Task("put", s0)>> \in Seq(Tasks)
        BY ONLY <1>5, FourTasks
    <2>3. /\ th' \in [Threads -> Calls] /\ Others(p)
          /\ Leaves(p, <<Task("put", f), Task("put", f), Task("put", s0), Task("put", s0)>>)
        BY <1>6, <2>2, LeaveIs, OthersStay, ZenonT(30) DEF TypeOK
    <2>4. sock' \in [Socks -> Sockets] /\ Shape(th'[p])
        BY <2>1, <2>3, LeavesShape DEF Allocates
    <2> QED BY <1>1, <1>2, <2>1, <2>3, <2>4
<1>7. CASE /\ sock' = [unixsock_alloc(i, b) EXCEPT ![s0].remote = f, ![f].remote = s0]
           /\ th' = Leave(p, <<Task("put", f), Task("put", s0), Task("open", s0), Task("open", f)>>)
    <2> DEFINE a == unixsock_alloc(i, b)
    <2>1. /\ a \in [Socks -> Sockets] /\ a[f] = NewSock(i, b)
          /\ \A x \in Socks \ {f} : a[x] = sock[x]
        BY <1>1, <1>3, <1>4, AllocIs, Zenon
    <2>2. /\ NewSock(i, b).mem = "live" /\ NewSock(i, b).id = i /\ NewSock(i, b).refs = 2
          /\ NewSock(i, b).connecting = <<>> /\ NewSock(i, b).state = {}
        BY <1>3, NewSockType
    <2>3. sock' = [a EXCEPT ![s0].remote = f, ![f].remote = s0]
        BY <1>7, SMTT(60)
    <2> DEFINE t == <<Task("put", f), Task("put", s0), Task("open", s0), Task("open", f)>>
    <2>4. th' \in [Threads -> Calls] /\ Others(p) /\ Leaves(p, t) /\ Shape(th'[p])
        <3>1. t \in Seq(Tasks)
            BY ONLY <1>5, FourTasks
        <3>2. th' = Leave(p, t)
            BY <1>7, SMTT(60)
        <3> HIDE DEF t
        <3> QED BY <3>1, <3>2, LeaveIs, OthersStay, LeavesShape DEF TypeOK
    <2> HIDE DEF a, t
    <2>5. sock' \in [Socks -> Sockets]
        <3>1. DOMAIN sock' = Socks
            BY <2>1, <2>3
        <3> DEFINE e == [a[s0] EXCEPT !.remote = f]
                   b1 == [a EXCEPT ![s0].remote = f]
        <3>2. e \in Sockets
            <4>1. a[s0] \in Sockets /\ f \in Socks
                BY <1>2, <2>1
            <4> DEFINE a0 == a[s0]
            <4> HIDE DEF f, a0
            <4>2. a0 \in Sockets => [a0 EXCEPT !.remote = f] \in Sockets
                BY <4>1 DEF Sockets
            <4> QED BY <4>1, <4>2 DEF a0
        <3>3. b1 \in [Socks -> Sockets]
            BY <1>2, <2>1, <3>2
        <3>4. sock' = [b1 EXCEPT ![f].remote = s0]
            BY <2>3
        <3> HIDE DEF b1
        <3>5. [b1[f] EXCEPT !.remote = s0] \in Sockets
            BY <1>2, <3>3 DEF Sockets
        <3> QED BY <1>2, <3>3, <3>4, <3>5
    <2>6. ASSUME s0 # f PROVE
              /\ Allocates(f, i)
              /\ \A x \in Socks : sock'[x].remote = IF x = s0 THEN f
                                                   ELSE IF x = f THEN s0 ELSE sock[x].remote
        <3>1. \A x \in Socks \ {s0, f} : sock'[x] = sock[x]
            BY <2>1, <2>3
        <3>2. sock'[s0] = [sock[s0] EXCEPT !.remote = f] /\ sock'[f] = [NewSock(i, b) EXCEPT !.remote = s0]
            BY <1>2, <2>1, <2>3, <2>6, ZenonT(60)
        <3>3. /\ sock'[f].mem = "live" /\ sock'[f].id = i /\ sock'[f].refs = 2
              /\ sock'[f].connecting = <<>> /\ sock'[f].state = {} /\ sock'[f].remote = s0
            <4>1. NewSock(i, b) \in Sockets
                BY <1>3, NewSockType
            <4> QED BY <2>2, <3>2, <4>1, SMTT(60) DEF Sockets
        <3>4. /\ sock'[s0].mem = sock[s0].mem /\ sock'[s0].id = sock[s0].id
              /\ sock'[s0].refs = sock[s0].refs /\ sock'[s0].connecting = sock[s0].connecting
              /\ sock'[s0].state = sock[s0].state /\ sock'[s0].remote = f
            BY <1>2, <3>2 DEF TypeOK, Sockets
        <3> QED BY <1>1, <1>2, <1>4, <2>5, <3>1, <3>3, <3>4, ZenonT(60) DEF Allocates
    <2>7. IsLive(s0) => s0 # f
        BY <1>2 DEF IsLive
    <2> QED BY <1>1, <1>2, <2>4, <2>5, <2>6, <2>7, Zenon DEF t
<1> QED BY <1>1, <1>4, <1>6, <1>7, Zenon

\* Between its two allocations socketpair holds the first socket.
LEMMA PairHolds ==
    ASSUME TypeOK, ShapeInv, NEW p \in Threads, PairSecond(p) PROVE th[p].new \in Socks
<1>1. th[p] \in Calls /\ Shape(th[p]) /\ th[p].pc = "pair"
    BY PairSecondIs DEF TypeOK, ShapeInv, At
<1>2. th[p].new # NULL
    BY <1>1 DEF Shape, OnNew
<1> QED BY <1>1, <1>2 DEF Calls

\* unix_accept allocates the socket it will return, or drops it twice and returns when it
\* has no buffer.
LEMMA AcceptAllocIs ==
    ASSUME TypeOK, ShapeInv, NEW p \in Threads, AcceptAlloc(p)
    PROVE  /\ At(p, "acceptAlloc") /\ open' = open /\ path' = path
           /\ th' \in [Threads -> Calls] /\ Others(p) /\ th[p].s \in Socks
           /\ \E f \in Socks, i \in Ids :
                /\ Allocates(f, i) /\ RemotesSame(f)
                /\ \/ Becomes(p, "acceptLoop", th[p].s, NULL, f)
                   \/ Leaves(p, <<Task("put", f), Task("put", f), Task("put", th[p].s)>>)
<1> USE DEF AcceptAlloc
<1>1. Fresh \in Socks
    BY FreshType
<1>2. PICK i \in Ids, b \in Nonblocking : FreeId(i) /\ sock' = unixsock_alloc(i, b)
    OBVIOUS
<1>3. Allocates(Fresh, i) /\ RemotesSame(Fresh)
    BY <1>2, AllocIs, NonblockingAssumption
<1>4. th[p] \in Calls /\ Shape(th[p]) /\ th[p].pc = "acceptAlloc"
    BY DEF TypeOK, ShapeInv, At
<1>5. th[p].s \in Socks /\ th[p].r = NULL /\ th[p].todo = <<>>
    BY <1>4 DEF Calls, Shape, OnSocket, OnRemote, AcceptLocations
<1>6. CASE th' = [th EXCEPT ![p].pc = "acceptLoop", ![p].new = Fresh]
    <2> DEFINE d == [th[p] EXCEPT !.pc = "acceptLoop", !.new = Fresh]
    <2>1. /\ d \in Calls /\ d.pc = "acceptLoop" /\ d.new = Fresh /\ d.s = th[p].s /\ d.r = NULL
          /\ d.todo = <<>>
        BY <1>1, <1>4, <1>5, ZenonT(60) DEF Calls, Locations, AcceptLocations
    <2>2. th' = [th EXCEPT ![p] = d]
        BY <1>6
    <2> HIDE DEF d
    <2>3. th' \in [Threads -> Calls] /\ Others(p) /\ Becomes(p, "acceptLoop", th[p].s, NULL, Fresh)
        BY <2>1, <2>2, OthersStay DEF TypeOK, Becomes
    <2> QED BY <1>1, <1>3, <1>4, <1>5, <2>3 DEF At
<1>7. CASE th' = Leave(p, <<Task("put", Fresh), Task("put", Fresh), Task("put", th[p].s)>>)
    <2>1. <<Task("put", Fresh), Task("put", Fresh), Task("put", th[p].s)>> \in Seq(Tasks)
        BY <1>1, <1>5, TaskType
    <2>2. /\ th' \in [Threads -> Calls] /\ Others(p)
          /\ Leaves(p, <<Task("put", Fresh), Task("put", Fresh), Task("put", th[p].s)>>)
        BY <1>7, <2>1, LeaveIs, OthersStay DEF TypeOK
    <2> QED BY <1>1, <1>3, <1>4, <1>5, <2>2 DEF At
<1> QED BY <1>6, <1>7

-----------------------------------------------------------------------------
(* Steps that count *)

\* The count of s becomes n, and nothing else changes in the structures.
Counts(s, n) ==
    /\ sock' \in [Socks -> Sockets]
    /\ \A x \in Socks :
         /\ sock'[x].mem = sock[x].mem /\ sock'[x].id = sock[x].id
         /\ sock'[x].connecting = sock[x].connecting /\ sock'[x].remote = sock[x].remote
         /\ sock'[x].state = sock[x].state
         /\ sock'[x].refs = IF x = s THEN n ELSE sock[x].refs

\* Setting the count of one structure is all that unixsock_get and unixsock_put do to the
\* structures.
LEMMA CountsIs ==
    ASSUME TypeOK, NEW s \in Socks, NEW n \in Nat, sock' = [sock EXCEPT ![s].refs = n]
    PROVE  Counts(s, n)
BY ZenonT(60) DEF TypeOK, Sockets, Counts

\* One more reference.
LEMMA CountsMore ==
    ASSUME TypeOK, NEW s \in Socks, sock' = [sock EXCEPT ![s].refs = @ + 1]
    PROVE  Counts(s, sock[s].refs + 1)
<1>1. sock[s].refs + 1 \in Nat
    BY DEF TypeOK, Sockets
<1> QED BY <1>1, CountsIs

\* unixsock_get finds a structure or none.
LEMMA FoundType == ASSUME NEW i PROVE Found(i) \subseteq Socks
BY DEF Found, Live

\* A call on a descriptor looks its socket up and takes a reference to it (unixsock_get).
LEMMA EnterIs ==
    ASSUME TypeOK, ShapeInv, NEW p \in Threads, NEW f \in open,
           NEW l \in {"bind", "accept", "listen", "connect"}, Enter(p, f, l)
    PROVE  /\ At(p, "user") /\ open' = open /\ path' = path
           /\ th' \in [Threads -> Calls] /\ Others(p)
           /\ \E s \in Found(sock[f].id) :
                Counts(s, sock[s].refs + 1) /\ Becomes(p, l, s, NULL, NULL)
<1> USE DEF Enter
<1>1. PICK s \in Found(sock[f].id) :
         sock' = [sock EXCEPT ![s].refs = @ + 1] /\ th' = [th EXCEPT ![p].s = s, ![p].pc = l]
    OBVIOUS
<1>2. s \in Socks
    BY FoundType
<1>3. Counts(s, sock[s].refs + 1)
    BY <1>1, <1>2, CountsMore
<1> DEFINE d == [th[p] EXCEPT !.s = s, !.pc = l]
<1>4. th[p] \in Calls /\ Shape(th[p]) /\ th[p].pc = "user"
    BY DEF TypeOK, ShapeInv, At
<1>5. /\ d \in Calls /\ d.pc = l /\ d.new = NULL /\ d.s = s /\ d.r = NULL
      /\ d.todo = <<>>
    BY <1>2, <1>4, ZenonT(60) DEF Calls, Locations, Shape, OnNew, OnRemote, AcceptLocations,
       SetUpLocations
<1>6. th' = [th EXCEPT ![p] = d]
    BY <1>1, ZenonT(60)
<1> HIDE DEF d
<1>7. th' \in [Threads -> Calls] /\ Others(p) /\ Becomes(p, l, s, NULL, NULL)
    BY <1>5, <1>6, OthersStay, ZenonT(60) DEF TypeOK, Becomes
<1> QED BY <1>3, <1>7

\* unix_close looks its socket up and drops the reference of the lookup and the tree's;
\* when the lookup fails it does nothing.
LEMMA DropTwiceIs ==
    ASSUME TypeOK, ShapeInv, NEW p \in Threads, At(p, "user"), NEW f \in open, DropTwice(p, f)
    PROVE  \/ Found(sock[f].id) = {} /\ UNCHANGED <<sock, th>>
           \/ \E s \in Found(sock[f].id) :
                /\ th' \in [Threads -> Calls] /\ Others(p)
                /\ Counts(s, sock[s].refs + 1)
                /\ Leaves(p, <<Task("put", s), Task("put", s)>>)
<1>1. ASSUME NEW s \in Found(sock[f].id), sock' = [sock EXCEPT ![s].refs = @ + 1],
             th' = Leave(p, <<Task("put", s), Task("put", s)>>)
      PROVE  /\ th' \in [Threads -> Calls] /\ Others(p)
             /\ Counts(s, sock[s].refs + 1)
             /\ Leaves(p, <<Task("put", s), Task("put", s)>>)
    <2>1. s \in Socks
        BY FoundType
    <2>2. <<Task("put", s), Task("put", s)>> \in Seq(Tasks)
        BY <2>1, TaskType
    <2> QED BY <1>1, <2>1, <2>2, CountsMore, LeaveIs, OthersStay DEF TypeOK
<1> QED BY <1>1 DEF DropTwice

\* unix_connect looks up the socket that the path names and takes a reference to it, or
\* returns.
LEMMA ConnectLookupIs ==
    ASSUME TypeOK, ShapeInv, NEW p \in Threads, ConnectLookup(p)
    PROVE  \/ Quiet(p) /\ GoesHome(p) /\ UNCHANGED sock
           \/ /\ open' = open /\ path' = path
              /\ th' \in [Threads -> Calls] /\ Others(p) /\ th[p].s \in Socks
              /\ \E r \in Found(path) :
                   Counts(r, sock[r].refs + 1) /\ Becomes(p, "connectRemote", th[p].s, r, NULL)
<1> USE DEF ConnectLookup, At
<1>1. th[p].pc \in OnSocket \ (OnNew \cup {"connectAdd"})
    BY DEF OnSocket, OnNew, SetUpLocations
<1>2. CASE th' = Return(p) /\ UNCHANGED sock
    BY <1>1, <1>2, ReturnIs, SameSockets DEF Quiet, GoesHome, TypeOK
<1>3. CASE \E r \in Found(path) :
              /\ sock' = [sock EXCEPT ![r].refs = @ + 1]
              /\ th' = [th EXCEPT ![p].r = r, ![p].pc = "connectRemote"]
    <2>1. PICK r \in Found(path) :
              /\ sock' = [sock EXCEPT ![r].refs = @ + 1]
              /\ th' = [th EXCEPT ![p].r = r, ![p].pc = "connectRemote"]
        BY <1>3
    <2>2. r \in Socks
        BY FoundType
    <2>3. Counts(r, sock[r].refs + 1)
        BY <2>1, <2>2, CountsMore
    <2> DEFINE d == [th[p] EXCEPT !.r = r, !.pc = "connectRemote"]
    <2>4. th[p] \in Calls /\ Shape(th[p]) /\ th[p].pc = "connectLookup"
        BY DEF TypeOK, ShapeInv
    <2>5. /\ d \in Calls /\ d.pc = "connectRemote" /\ d.new = NULL /\ d.s = th[p].s /\ d.r = r
          /\ d.todo = <<>> /\ th[p].s \in Socks
        BY <2>2, <2>4, ZenonT(60) DEF Calls, Locations, Shape, OnNew, OnSocket, AcceptLocations,
           SetUpLocations
    <2>6. th' = [th EXCEPT ![p] = d]
        BY <2>1, ZenonT(60)
    <2> HIDE DEF d
    <2>7. th' \in [Threads -> Calls] /\ Others(p) /\ Becomes(p, "connectRemote", th[p].s, r, NULL)
        BY <2>5, <2>6, OthersStay, Zenon DEF TypeOK, Becomes
    <2> QED BY <2>3, <2>5, <2>7
<1> QED BY <1>2, <1>3

\* unix_connect takes one more reference to its socket, for the list it will queue it on.
LEMMA ConnectRefIs ==
    ASSUME TypeOK, ShapeInv, NEW p \in Threads, ConnectRef(p)
    PROVE  /\ At(p, "connectRef") /\ open' = open /\ path' = path
           /\ th' \in [Threads -> Calls] /\ Others(p) /\ th[p].s \in Socks
           /\ SameRefs(th[p], th'[p]) /\ th'[p].pc = "connectAdd"
           /\ Counts(th[p].s, sock[th[p].s].refs + 1)
<1> USE DEF ConnectRef, At
<1>1. th[p].pc \in OnSocket
    BY DEF OnSocket, SetUpLocations
<1>2. th[p].s \in Socks
    BY <1>1, DuesType
<1>3. Counts(th[p].s, sock[th[p].s].refs + 1)
    BY <1>2, CountsMore, ZenonT(60)
<1> QED BY <1>2, <1>3, GotoIs DEF TypeOK, Locations, SetUpLocations

-----------------------------------------------------------------------------
(* Steps on a list of connecting sockets *)

\* The list of r becomes q, and nothing else changes in the structures but for a sentinel.
Lists(r, q) ==
    /\ sock' \in [Socks -> Sockets]
    /\ \A x \in Socks :
         /\ sock'[x].mem = sock[x].mem /\ sock'[x].id = sock[x].id
         /\ sock'[x].refs = sock[x].refs /\ sock'[x].remote = sock[x].remote
         /\ sock'[x].state = sock[x].state
         /\ sock'[x].connecting = IF x = r THEN q ELSE sock[x].connecting

Relist(r, q) == [sock EXCEPT ![r].connecting = q]

\* What changing the list of one socket changes.
LEMMA RelistIs ==
    ASSUME TypeOK, NEW r \in Socks, NEW q \in Seq(Socks)
    PROVE  /\ Relist(r, q) \in [Socks -> Sockets]
           /\ \A x \in Socks :
                /\ Relist(r, q)[x].mem = sock[x].mem /\ Relist(r, q)[x].id = sock[x].id
                /\ Relist(r, q)[x].refs = sock[x].refs
                /\ Relist(r, q)[x].remote = sock[x].remote
                /\ Relist(r, q)[x].state = sock[x].state
                /\ Relist(r, q)[x].connecting = IF x = r THEN q ELSE sock[x].connecting
<1>1. sock \in [Socks -> Sockets] /\ sock[r] \in Sockets
    BY DEF TypeOK
<1> DEFINE d == [sock[r] EXCEPT !.connecting = q]
<1>2. /\ d \in Sockets /\ d.mem = sock[r].mem /\ d.id = sock[r].id /\ d.refs = sock[r].refs
      /\ d.remote = sock[r].remote /\ d.state = sock[r].state /\ d.connecting = q
    BY <1>1 DEF Sockets
<1>3. Relist(r, q) = [sock EXCEPT ![r] = d]
    BY DEF Relist
<1> HIDE DEF d
<1> QED BY <1>1, <1>2, <1>3

\* Changing the list of one socket changes nothing else in the structures.
LEMMA ListsIs ==
    ASSUME TypeOK, NEW r \in Socks, NEW q \in Seq(Socks), sock' = Relist(r, q)
    PROVE  Lists(r, q)
BY RelistIs DEF Lists

\* A list of connecting sockets is a sequence of sockets.
LEMMA ListType ==
    ASSUME TypeOK, NEW r \in Socks PROVE sock[r].connecting \in Seq(Socks)
BY DEF TypeOK, Sockets

\* unix_accept takes the head of its listener's list, with the reference that the list
\* had.
LEMMA AcceptTakeIs ==
    ASSUME TypeOK, ShapeInv, NEW p \in Threads, AcceptTake(p)
    PROVE  /\ At(p, "acceptLoop") /\ open' = open /\ path' = path
           /\ th' \in [Threads -> Calls] /\ Others(p)
           /\ th[p].s \in Socks /\ th[p].new \in Socks
           /\ LET q == sock[th[p].s].connecting IN
                /\ q # <<>> /\ Head(q) \in Socks /\ Lists(th[p].s, Tail(q))
                /\ Becomes(p, "acceptPair", th[p].s, Head(q), th[p].new)
<1> USE DEF AcceptTake
<1> DEFINE q == sock[th[p].s].connecting
<1>1. th[p] \in Calls /\ Shape(th[p]) /\ th[p].pc = "acceptLoop"
    BY DEF TypeOK, ShapeInv, At
<1>2. th[p].s \in Socks /\ th[p].new \in Socks /\ th[p].todo = <<>>
    BY <1>1 DEF Calls, Shape, OnSocket, OnNew, AcceptLocations
<1>3. q \in Seq(Socks)
    BY <1>2, ListType
<1>4. q # <<>> /\ Head(q) \in Socks /\ Tail(q) \in Seq(Socks)
    BY <1>3
<1>5. sock' = Relist(th[p].s, Tail(q))
    BY DEF Relist
<1>6. Lists(th[p].s, Tail(q))
    BY ONLY TypeOK, <1>2, <1>4, <1>5, ListsIs
<1> DEFINE d == [th[p] EXCEPT !.r = Head(q), !.pc = "acceptPair"]
<1>7. /\ d \in Calls /\ d.pc = "acceptPair" /\ d.new = th[p].new /\ d.s = th[p].s
      /\ d.r = Head(q) /\ d.todo = <<>>
    BY <1>1, <1>2, <1>4, ZenonT(60) DEF Calls, Locations, AcceptLocations
<1>8. th' = [th EXCEPT ![p] = d]
    OBVIOUS
<1> HIDE DEF d
<1>9. th' \in [Threads -> Calls] /\ Others(p)
      /\ Becomes(p, "acceptPair", th[p].s, Head(q), th[p].new)
    BY <1>7, <1>8, OthersStay, ZenonT(60) DEF TypeOK, Becomes
<1> QED BY <1>2, <1>4, <1>6, <1>9, SMTT(60)

\* A thread has been woken if there was one.
Woken(s) ==
    \/ \E q \in Threads : Asleep(q, s) /\ th'[q].pc = Awake(th[q].pc)
    \/ ~\E q \in Threads : Asleep(q, s)

\* unix_connect appends its socket to the listener's list and wakes one thread of the
\* listener's queue.
LEMMA ConnectAddIs ==
    ASSUME TypeOK, ShapeInv, NEW p \in Threads, ConnectAdd(p)
    PROVE  /\ At(p, "connectAdd") /\ open' = open /\ path' = path
           /\ th' \in [Threads -> Calls] /\ Others(p)
           /\ th[p].s \in Socks /\ th[p].r \in Socks
           /\ Lists(th[p].r, Append(sock[th[p].r].connecting, th[p].s))
           /\ SameRefs(th[p], th'[p]) /\ th'[p].pc = "connectMark"
           /\ Woken(th[p].r)
<1> USE DEF ConnectAdd
<1> DEFINE r == th[p].r
           q == Append(sock[r].connecting, th[p].s)
           sk == Relist(r, q)
           t == Goto(p, "connectMark")
<1>1. th[p] \in Calls /\ Shape(th[p]) /\ th[p].pc = "connectAdd"
    BY DEF TypeOK, ShapeInv, At
<1>2. th[p].s \in Socks /\ r \in Socks
    BY <1>1 DEF Calls, Shape, OnSocket, OnRemote, SetUpLocations
<1>3. q \in Seq(Socks)
    BY <1>2, ListType
<1>4. proc_threadWakeup(r, sk, t)
    BY DEF Relist
<1>5. t \in [Threads -> Calls] /\ t[p] = [th[p] EXCEPT !.pc = "connectMark"]
      /\ \A x \in Threads \ {p} : t[x] = th[x]
    BY ZenonT(60) DEF TypeOK, Goto, Calls, Locations, SetUpLocations
<1>6. ~Asleep(p, r) /\ \A x \in Threads : Asleep(x, r) => t[x] = th[x]
    BY <1>1, <1>5 DEF Asleep
<1>7. SameRefs(th[p], t[p]) /\ t[p].pc = "connectMark"
    BY <1>1, <1>5 DEF SameRefs, Calls
<1>8. /\ sk \in [Socks -> Sockets]
      /\ \A x \in Socks :
                /\ sk[x].mem = sock[x].mem /\ sk[x].id = sock[x].id
                /\ sk[x].refs = sock[x].refs /\ sk[x].remote = sock[x].remote
                /\ sk[x].state = sock[x].state
                /\ sk[x].connecting = IF x = r THEN q ELSE sock[x].connecting
    <2> HIDE DEF q
    <2> QED BY ONLY TypeOK, <1>2, <1>3, RelistIs
<1>9. open' = open /\ path' = path
    OBVIOUS
<1> HIDE DEF sk, t, q, ConnectAdd
<1>10. /\ th' \in [Threads -> Calls] /\ sock' \in [Socks -> Sockets]
       /\ \A x \in Threads : /\ SameRefs(t[x], th'[x]) /\ th'[x].seen = t[x].seen
                             /\ Wakes(t[x].pc, th'[x].pc)
       /\ \A x \in Threads : ~Asleep(x, r) => th'[x] = t[x]
       /\ \A x \in Socks :
            /\ sock'[x].mem = sk[x].mem /\ sock'[x].id = sk[x].id
            /\ sock'[x].refs = sk[x].refs /\ sock'[x].connecting = sk[x].connecting
            /\ sock'[x].remote = sk[x].remote /\ sock'[x].state = sk[x].state
       /\ Woken(r)
    BY <1>2, <1>4, <1>5, <1>6, <1>8, WakeupIs DEF Woken
<1>11. Others(p)
    BY <1>5, <1>10 DEF Others
<1>12. Lists(r, q)
    BY <1>8, <1>10 DEF Lists
<1>13. th'[p] = t[p]
    BY <1>6, <1>10
<1> QED BY <1>1, <1>2, <1>7, <1>9, <1>10, <1>11, <1>12, <1>13 DEF At, q

\* unix_connect that timed out finds itself on the list, takes itself off and drops the
\* references, or finds itself gone and waits on.
LEMMA ConnectUnlinkIs ==
    ASSUME TypeOK, ShapeInv, NEW p \in Threads, ConnectUnlink(p)
    PROVE  \/ Quiet(p) /\ GoesOn(p) /\ UNCHANGED sock
           \/ /\ At(p, "connectUnlink") /\ open' = open /\ path' = path
              /\ th' \in [Threads -> Calls] /\ Others(p)
              /\ th[p].s \in Socks /\ th[p].r \in Socks
              /\ Leaves(p, <<Task("put", th[p].s), Task("put", th[p].r), Task("put", th[p].s)>>)
              /\ LET q == sock[th[p].r].connecting IN
                 \E i \in DOMAIN q : q[i] = th[p].s /\ Lists(th[p].r, RemoveAt(q, i))
<1> USE DEF ConnectUnlink
<1> DEFINE q == sock[th[p].r].connecting
<1>1. th[p] \in Calls /\ Shape(th[p]) /\ th[p].pc = "connectUnlink"
    BY DEF TypeOK, ShapeInv, At
<1>2. th[p].s \in Socks /\ th[p].r \in Socks
    BY <1>1 DEF Calls, Shape, OnSocket, OnRemote, SetUpLocations
<1>3. q \in Seq(Socks)
    BY <1>2, ListType
<1>4. CASE UNCHANGED sock /\ th' = Goto(p, "lateLoop")
    BY <1>4, LateQuiet
<1>5. CASE /\ \E i \in {i \in DOMAIN q : q[i] = th[p].s} :
                 sock' = [sock EXCEPT ![th[p].r].connecting = RemoveAt(@, i)]
           /\ th' = Leave(p, <<Task("put", th[p].s), Task("put", th[p].r), Task("put", th[p].s)>>)
    <2>1. PICK i \in DOMAIN q :
             q[i] = th[p].s /\ sock' = [sock EXCEPT ![th[p].r].connecting = RemoveAt(q, i)]
        BY <1>5, ZenonT(60)
    <2>2. RemoveAt(q, i) \in Seq(Socks)
        BY <1>3, <2>1, RemoveAtType, Zenon
    <2> DEFINE z == RemoveAt(q, i)
    <2>3. sock' = Relist(th[p].r, z) /\ z \in Seq(Socks)
        BY <2>1, <2>2 DEF Relist
    <2> HIDE DEF z
    <2>4. Lists(th[p].r, z)
        BY ONLY TypeOK, <1>2, <2>3, ListsIs
    <2>5. <<Task("put", th[p].s), Task("put", th[p].r), Task("put", th[p].s)>> \in Seq(Tasks)
        BY <1>2, TaskType
    <2>6. /\ th' \in [Threads -> Calls] /\ Others(p)
          /\ Leaves(p, <<Task("put", th[p].s), Task("put", th[p].r), Task("put", th[p].s)>>)
        BY <1>5, <2>5, LeaveIs, OthersStay, ZenonT(60) DEF TypeOK
    <2> QED BY <1>2, <2>1, <2>4, <2>6, SMTT(60) DEF z
<1> QED BY <1>4, <1>5

-----------------------------------------------------------------------------
(* The rendezvous *)

LEMMA AcceptPairIs ==
    ASSUME TypeOK, ShapeInv, NEW p \in Threads, AcceptPair(p)
    PROVE  /\ At(p, "acceptPair") /\ open' = open /\ path' = path
           /\ th' \in [Threads -> Calls] /\ Others(p) /\ sock' \in [Socks -> Sockets]
           /\ th[p].s \in Socks /\ th[p].r \in Socks /\ th[p].new \in Socks
           /\ Leaves(p, <<Task("put", th[p].new), Task("put", th[p].r), Task("put", th[p].s),
                          Task("open", th[p].new)>>)
           /\ SpinlockFree(th[p].r)
           /\ \A x \in Socks :
                /\ sock'[x].mem = sock[x].mem /\ sock'[x].id = sock[x].id
                /\ sock'[x].refs = sock[x].refs /\ sock'[x].connecting = sock[x].connecting
                /\ sock'[x].state = IF x = th[p].r THEN sock[x].state \ {"PEER_CLOSED", "CONNECTING"}
                                    ELSE sock[x].state
                /\ sock'[x].remote = IF x = th[p].new THEN th[p].r
                                     ELSE IF x = th[p].r THEN th[p].new ELSE sock[x].remote
           /\ Woken(th[p].r)
<1> DEFINE s == th[p].s
           r == th[p].r
           n == th[p].new
           g == sock[r].state \ {"PEER_CLOSED", "CONNECTING"}
           sk == [sock EXCEPT ![r].state = @ \ {"PEER_CLOSED", "CONNECTING"},
                              ![r].remote = n, ![n].remote = r]
           tasks == <<Task("put", n), Task("put", r), Task("put", s), Task("open", n)>>
           t == Leave(p, tasks)
<1>1. th[p] \in Calls /\ Shape(th[p]) /\ th[p].pc = "acceptPair"
    BY DEF TypeOK, ShapeInv, At, AcceptPair
<1>2. s \in Socks /\ r \in Socks /\ n \in Socks
    BY <1>1 DEF Calls, Shape, OnSocket, OnRemote, OnNew, AcceptLocations
<1>3. SpinlockFree(r) /\ proc_threadWakeup(r, sk, t) /\ open' = open /\ path' = path
    BY SMTT(60) DEF AcceptPair
<1>4. tasks \in Seq(Tasks)
    <2>1. /\ Task("put", n) \in Tasks /\ Task("put", r) \in Tasks
          /\ Task("open", n) \in Tasks /\ Task("put", s) \in Tasks
        BY <1>2, TaskType
    <2> QED BY ONLY <2>1, FourTasks
<1>5. /\ sk \in [Socks -> Sockets]
      /\ \A x \in Socks :
           /\ sk[x].mem = sock[x].mem /\ sk[x].id = sock[x].id
           /\ sk[x].refs = sock[x].refs /\ sk[x].connecting = sock[x].connecting
           /\ sk[x].state = IF x = r THEN g ELSE sock[x].state
           /\ sk[x].remote = IF x = n THEN r ELSE IF x = r THEN n ELSE sock[x].remote
    <2> DEFINE d == [sock[r] EXCEPT !.state = g, !.remote = n]
               a == [sock EXCEPT ![r] = d]
               e == [a[n] EXCEPT !.remote = r]
    <2>1. sock \in [Socks -> Sockets] /\ sock[r] \in Sockets /\ g \subseteq Flags
        BY <1>2 DEF TypeOK, Sockets
    <2>2. /\ d \in Sockets /\ d.mem = sock[r].mem /\ d.id = sock[r].id /\ d.refs = sock[r].refs
          /\ d.connecting = sock[r].connecting /\ d.state = g /\ d.remote = n
        <3> HIDE DEF g, r, n
        <3> QED BY <1>2, <2>1 DEF Sockets
    <2>3. sk = [a EXCEPT ![n] = e]
        BY <1>2, <2>1, ZenonT(60) DEF Sockets
    <2> HIDE DEF d
    <2>4. a \in [Socks -> Sockets] /\ \A x \in Socks : a[x] = IF x = r THEN d ELSE sock[x]
        BY <1>2, <2>1, <2>2
    <2> HIDE DEF a, g, r, n
    <2>5. /\ e \in Sockets /\ e.mem = a[n].mem /\ e.id = a[n].id /\ e.refs = a[n].refs
          /\ e.connecting = a[n].connecting /\ e.state = a[n].state /\ e.remote = r
        <3>1. a[n] \in Sockets
            BY <1>2, <2>4
        <3> QED BY <1>2, <3>1 DEF Sockets
    <2> HIDE DEF e, sk
    <2>6. sk \in [Socks -> Sockets] /\ \A x \in Socks : sk[x] = IF x = n THEN e ELSE a[x]
        BY <1>2, <2>3, <2>4, <2>5
    <2> QED BY <1>2, <2>2, <2>4, <2>5, <2>6
<1>6. /\ t \in [Threads -> Calls] /\ \A x \in Threads \ {p} : t[x] = th[x]
      /\ t[p].s = NULL /\ t[p].r = NULL /\ t[p].new = NULL
      /\ t[p].pc = "finish" /\ t[p].todo = tasks
    <2> DEFINE d == [User EXCEPT !.pc = "finish", !.todo = tasks]
    <2>1. d \in Calls /\ d.s = NULL /\ d.r = NULL /\ d.new = NULL /\ d.pc = "finish" /\ d.todo = tasks
        <3> HIDE DEF tasks
        <3> QED BY <1>4, UserType DEF Calls, Locations, User
    <2>2. tasks # <<>>
        OBVIOUS
    <2>3. t = [th EXCEPT ![p] = d]
        BY <2>2 DEF Leave
    <2> HIDE DEF d, t
    <2> QED BY <2>1, <2>3 DEF TypeOK
<1>7. ~Asleep(p, r) /\ \A x \in Threads : Asleep(x, r) => t[x] = th[x]
    <2> HIDE DEF t
    <2> QED BY <1>1, <1>6 DEF Asleep
<1> HIDE DEF sk, t, g
<1>8. /\ th' \in [Threads -> Calls] /\ sock' \in [Socks -> Sockets]
      /\ \A x \in Threads : /\ SameRefs(t[x], th'[x]) /\ th'[x].seen = t[x].seen
                            /\ Wakes(t[x].pc, th'[x].pc)
      /\ \A x \in Threads : ~Asleep(x, r) => th'[x] = t[x]
      /\ \A x \in Socks :
           /\ sock'[x].mem = sk[x].mem /\ sock'[x].id = sk[x].id
           /\ sock'[x].refs = sk[x].refs /\ sock'[x].connecting = sk[x].connecting
           /\ sock'[x].remote = sk[x].remote /\ sock'[x].state = sk[x].state
      /\ Woken(r)
    BY ONLY <1>2, <1>3, <1>5, <1>6, <1>7, WakeupIs, ZenonT(60) DEF Woken
<1>9. Others(p)
    BY <1>6, <1>8 DEF Others
<1>10. Leaves(p, tasks)
    <2>1. th'[p] = t[p] /\ tasks # <<>>
        BY <1>7, <1>8
    <2> HIDE DEF tasks
    <2> QED BY <1>6, <2>1 DEF Leaves
<1>11. \A x \in Socks :
          /\ sock'[x].mem = sock[x].mem /\ sock'[x].id = sock[x].id
          /\ sock'[x].refs = sock[x].refs /\ sock'[x].connecting = sock[x].connecting
          /\ sock'[x].state = IF x = r THEN g ELSE sock[x].state
          /\ sock'[x].remote = IF x = n THEN r ELSE IF x = r THEN n ELSE sock[x].remote
    BY <1>5, <1>8
<1> QED BY <1>1, <1>2, <1>3, <1>8, <1>9, <1>10, <1>11, ZenonT(60) DEF At, g

-----------------------------------------------------------------------------
(* The steps of unixsock_put *)

LEMMA FinishType ==
    ASSUME TypeOK, ShapeInv, NEW p \in Threads, At(p, "finish")
    PROVE  /\ th[p].todo \in Seq(Tasks) /\ th[p].todo # <<>>
           /\ Head(th[p].todo) \in Tasks /\ Tail(th[p].todo) \in Seq(Tasks)
           /\ Head(th[p].todo).s \in Socks
           /\ th[p].s = NULL /\ th[p].r = NULL /\ th[p].new = NULL
<1>1. th[p] \in Calls /\ Shape(th[p]) /\ th[p].pc = "finish"
    BY DEF TypeOK, ShapeInv, At
<1>2. /\ th[p].todo \in Seq(Tasks) /\ th[p].todo # <<>>
      /\ th[p].s = NULL /\ th[p].r = NULL /\ th[p].new = NULL
    BY <1>1 DEF Calls, Shape, OnSocket, OnRemote, OnNew, AcceptLocations, SetUpLocations
<1>3. Head(th[p].todo) \in Tasks /\ Tail(th[p].todo) \in Seq(Tasks)
    BY <1>2
<1> QED BY <1>2, <1>3 DEF Tasks

\* unixsock_put of a socket with other owners only counts down.
LEMMA PutIs ==
    ASSUME TypeOK, ShapeInv, NEW p \in Threads, At(p, "finish"),
           NEW s, s = Head(th[p].todo).s, sock[s].refs > 1, Put(p, s)
    PROVE  /\ th' \in [Threads -> Calls] /\ Others(p) /\ Leaves(p, Tail(th[p].todo))
           /\ Counts(s, sock[s].refs - 1)
<1>1. s \in Socks /\ Tail(th[p].todo) \in Seq(Tasks)
    BY FinishType
<1>2. sock' = [sock EXCEPT ![s].refs = @ - 1] /\ th' = Leave(p, Tail(th[p].todo))
    BY DEF Put
<1>3. sock[s].refs - 1 \in Nat
    BY <1>1 DEF TypeOK, Sockets
<1>4. Counts(s, sock[s].refs - 1)
    BY <1>1, <1>2, <1>3, CountsIs, ZenonT(60)
<1> QED BY <1>1, <1>2, <1>4, LeaveIs, OthersStay, ZenonT(60) DEF TypeOK

\* The detach tasks of a listener that goes away.
LEMMA TeardownType ==
    ASSUME TypeOK, NEW s \in Socks
    PROVE  /\ Teardown(s) \in Seq(Tasks) /\ Teardown(s) # <<>>
           /\ [i \in DOMAIN sock[s].connecting |-> Task("detach", sock[s].connecting[i])] \in Seq(Tasks)
<1> DEFINE w == sock[s].connecting
           d == [i \in DOMAIN w |-> Task("detach", w[i])]
<1>1. w \in Seq(Socks)
    BY ListType
<1>2. d \in Seq(Tasks)
    <2>1. Len(w) \in Nat /\ DOMAIN w = 1..Len(w) /\ \A i \in 1..Len(w) : w[i] \in Socks
        BY <1>1
    <2>2. \A i \in 1..Len(w) : Task("detach", w[i]) \in Tasks
        BY <2>1, TaskType
    <2>3. d \in [1..Len(w) -> Tasks]
        BY <2>1, <2>2
    <2> HIDE DEF d, w
    <2> QED BY <2>1, <2>3
<1>3. Task("free", s) \in Tasks
    BY TaskType
<1>4. Teardown(s) = d \o <<Task("free", s)>>
    BY DEF Teardown
<1> HIDE DEF d
<1>5. d \o <<Task("free", s)>> \in Seq(Tasks) /\ d \o <<Task("free", s)>> # <<>>
    BY <1>2, <1>3
<1> QED BY <1>2, <1>4, <1>5 DEF d

\* s leaves the tree, and its peer is told.
Orphans(s) ==
    /\ sock'[s].mem = "dying" /\ sock'[s].connecting = <<>> /\ sock'[s].remote = sock[s].remote
    /\ sock'[s].state = sock[s].state /\ sock'[s].refs = 0 /\ sock'[s].id = sock[s].id
    /\ \A x \in Socks \ {s} :
         /\ sock'[x].mem = sock[x].mem /\ sock'[x].id = sock[x].id
         /\ sock'[x].refs = sock[x].refs /\ sock'[x].connecting = sock[x].connecting
         /\ sock'[x].remote = IF x = sock[s].remote THEN NULL ELSE sock[x].remote
         /\ sock'[x].state = IF x = sock[s].remote THEN sock[x].state \cup {"PEER_CLOSED"}
                             ELSE sock[x].state

\* unixsock_put of the last reference takes the socket out of the tree, tells its peer and
\* goes on to detach what is on its list.
LEMMA PutLastIs ==
    ASSUME TypeOK, ShapeInv, NEW p \in Threads, At(p, "finish"),
           NEW s, s = Head(th[p].todo).s, ~(sock[s].refs > 1), Put(p, s)
    PROVE  /\ th' \in [Threads -> Calls] /\ Others(p) /\ sock' \in [Socks -> Sockets]
           /\ Leaves(p, Teardown(s) \o Tail(th[p].todo)) /\ Orphans(s)
<1>1. s \in Socks /\ Tail(th[p].todo) \in Seq(Tasks)
    BY FinishType
<1>2. sock' = Orphaned(s) /\ th' = Leave(p, Teardown(s) \o Tail(th[p].todo))
    BY DEF Put
<1>3. Teardown(s) \o Tail(th[p].todo) \in Seq(Tasks)
    <2>1. Teardown(s) \in Seq(Tasks)
        BY <1>1, TeardownType
    <2> QED BY ONLY <1>1, <2>1
<1>4. th' \in [Threads -> Calls] /\ Others(p) /\ Leaves(p, Teardown(s) \o Tail(th[p].todo))
    BY <1>2, <1>3, LeaveIs, OthersStay, ZenonT(60) DEF TypeOK
<1> DEFINE d == [sock[s] EXCEPT !.mem = "dying", !.refs = 0, !.connecting = <<>>]
           E(x) == [sock[x] EXCEPT !.state = @ \cup {"PEER_CLOSED"}, !.remote = NULL]
<1>5. /\ d \in Sockets /\ d.mem = "dying" /\ d.connecting = <<>> /\ d.remote = sock[s].remote
      /\ d.state = sock[s].state
      /\ d.refs = 0 /\ d.id = sock[s].id
    <2>1. sock[s] \in Sockets /\ <<>> \in Seq(Socks) /\ 0 \in Nat
        BY <1>1 DEF TypeOK
    <2> QED BY ONLY <2>1 DEF Sockets
<1>6. ASSUME NEW x \in Socks
      PROVE  /\ E(x) \in Sockets /\ E(x).mem = sock[x].mem /\ E(x).id = sock[x].id
             /\ E(x).refs = sock[x].refs /\ E(x).connecting = sock[x].connecting
             /\ E(x).remote = NULL /\ E(x).state = sock[x].state \cup {"PEER_CLOSED"}
    BY ZenonT(60) DEF TypeOK, Sockets, Flags
<1>7. sock' = [q \in Socks |-> IF q = s THEN d ELSE IF q = sock[s].remote THEN E(q) ELSE sock[q]]
    BY <1>2, Zenon DEF Orphaned
<1> HIDE DEF d, E
<1>8. sock' \in [Socks -> Sockets]
    BY <1>5, <1>6, <1>7, SMTT(60) DEF TypeOK
<1>9. Orphans(s)
    BY <1>1, <1>5, <1>6, <1>7, Zenon DEF Orphans
<1> QED BY <1>4, <1>8, <1>9

\* The teardown of a listener marks one of the sockets that were connecting to it
\* PEER_CLOSED, clears CONNECTING and drops the list's reference.
LEMMA DetachIs ==
    ASSUME TypeOK, ShapeInv, NEW p \in Threads, At(p, "finish"),
           NEW q, q = Head(th[p].todo).s, Detach(p, q)
    PROVE  /\ th' \in [Threads -> Calls] /\ Others(p) /\ sock' \in [Socks -> Sockets]
           /\ Leaves(p, <<Task("put", q)>> \o Tail(th[p].todo))
           /\ SpinlockFree(q)
           /\ SameSocks
           /\ \A x \in Socks :
                sock'[x].state = IF x = q THEN (sock[x].state \cup {"PEER_CLOSED"}) \ {"CONNECTING"}
                                 ELSE sock[x].state
<1> DEFINE g == (sock[q].state \cup {"PEER_CLOSED"}) \ {"CONNECTING"}
           sk == [sock EXCEPT ![q].state = (@ \cup {"PEER_CLOSED"}) \ {"CONNECTING"}]
           tasks == <<Task("put", q)>> \o Tail(th[p].todo)
           t == Leave(p, tasks)
<1>1. q \in Socks /\ Tail(th[p].todo) \in Seq(Tasks)
    BY FinishType
<1>2. SpinlockFree(q) /\ proc_threadWakeup(q, sk, t)
    BY SMTT(60) DEF Detach
<1>3. tasks \in Seq(Tasks) /\ tasks # <<>>
    <2>1. Task("put", q) \in Tasks
        BY <1>1, TaskType
    <2> QED BY <1>1, <2>1
<1>4. /\ sk \in [Socks -> Sockets]
      /\ \A x \in Socks :
           /\ sk[x].mem = sock[x].mem /\ sk[x].id = sock[x].id
           /\ sk[x].refs = sock[x].refs /\ sk[x].connecting = sock[x].connecting
           /\ sk[x].state = IF x = q THEN g ELSE sock[x].state
           /\ sk[x].remote = sock[x].remote
    <2>1. sock \in [Socks -> Sockets] /\ sock[q] \in Sockets /\ g \subseteq Flags
        BY <1>1 DEF TypeOK, Sockets, Flags
    <2>2. sk = [sock EXCEPT ![q].state = g]
        OBVIOUS
    <2> HIDE DEF g, sk
    <2> QED BY <1>1, <2>1, <2>2, ZenonT(60) DEF Sockets
<1>5. /\ t \in [Threads -> Calls] /\ \A x \in Threads \ {p} : t[x] = th[x]
      /\ t[p].s = NULL /\ t[p].r = NULL /\ t[p].new = NULL
      /\ t[p].pc = "finish" /\ t[p].todo = tasks
    <2> DEFINE d == [User EXCEPT !.pc = "finish", !.todo = tasks]
    <2>1. d \in Calls /\ d.s = NULL /\ d.r = NULL /\ d.new = NULL /\ d.pc = "finish" /\ d.todo = tasks
        <3> HIDE DEF tasks
        <3> QED BY <1>3, UserType DEF Calls, Locations, User
    <2>3. t = [th EXCEPT ![p] = d]
        BY <1>3 DEF Leave
    <2> HIDE DEF d, t
    <2> QED BY <2>1, <2>3 DEF TypeOK
<1>6. ~Asleep(p, q) /\ \A x \in Threads : Asleep(x, q) => t[x] = th[x]
    <2> HIDE DEF t
    <2> QED BY <1>5 DEF Asleep, At
<1> HIDE DEF sk, t, g, tasks
<1>7. /\ th' \in [Threads -> Calls] /\ sock' \in [Socks -> Sockets]
      /\ \A x \in Threads : /\ SameRefs(t[x], th'[x]) /\ th'[x].seen = t[x].seen
                            /\ Wakes(t[x].pc, th'[x].pc)
      /\ \A x \in Threads : ~Asleep(x, q) => th'[x] = t[x]
      /\ \A x \in Socks :
           /\ sock'[x].mem = sk[x].mem /\ sock'[x].id = sk[x].id
           /\ sock'[x].refs = sk[x].refs /\ sock'[x].connecting = sk[x].connecting
           /\ sock'[x].remote = sk[x].remote /\ sock'[x].state = sk[x].state
    BY ONLY <1>1, <1>2, <1>4, <1>5, <1>6, WakeupIs
<1>8. Others(p)
    BY <1>5, <1>7 DEF Others
<1>9. Leaves(p, tasks)
    BY <1>3, <1>5, <1>6, <1>7 DEF Leaves
<1>10. SameSocks /\ \A x \in Socks : sock'[x].state = IF x = q THEN g ELSE sock[x].state
    BY <1>4, <1>7 DEF SameSocks
<1> QED BY <1>2, <1>7, <1>8, <1>9, <1>10, ZenonT(60) DEF g, tasks

\* The end of a teardown frees the structure.
LEMMA FreeIs ==
    ASSUME TypeOK, ShapeInv, NEW p \in Threads, At(p, "finish"),
           NEW s, s = Head(th[p].todo).s, Free(p, s)
    PROVE  /\ th' \in [Threads -> Calls] /\ Others(p) /\ sock' \in [Socks -> Sockets]
           /\ Leaves(p, Tail(th[p].todo))
           /\ sock'[s].mem = "freed" /\ sock'[s].connecting = <<>> /\ sock'[s].id = sock[s].id
           /\ \A x \in Socks \ {s} : sock'[x] = sock[x]
<1>1. s \in Socks /\ Tail(th[p].todo) \in Seq(Tasks)
    BY FinishType
<1> DEFINE d == [Blank EXCEPT !.mem = "freed", !.id = sock[s].id]
<1>2. sock' = [sock EXCEPT ![s] = d] /\ th' = Leave(p, Tail(th[p].todo))
    BY DEF Free
<1>3. d \in Sockets /\ d.mem = "freed" /\ d.connecting = <<>> /\ d.id = sock[s].id
    <2>1. <<>> \in Seq(Socks) /\ sock[s].id \in Ids
        BY <1>1 DEF TypeOK, Sockets
    <2> QED BY <2>1, ZenonT(60) DEF Blank, Sockets
<1> HIDE DEF d
<1>4. /\ sock' \in [Socks -> Sockets] /\ sock'[s] = d
      /\ \A x \in Socks \ {s} : sock'[x] = sock[x]
    BY <1>1, <1>2, <1>3 DEF TypeOK
<1>5. th' \in [Threads -> Calls] /\ Others(p) /\ Leaves(p, Tail(th[p].todo))
    BY <1>1, <1>2, LeaveIs, OthersStay DEF TypeOK
<1> QED BY <1>3, <1>4, <1>5

\* The drops end with the file that the call returns.
LEMMA FileOpenIs ==
    ASSUME TypeOK, ShapeInv, NEW p \in Threads, At(p, "finish"),
           th' = Leave(p, Tail(th[p].todo))
    PROVE  th' \in [Threads -> Calls] /\ Others(p) /\ Leaves(p, Tail(th[p].todo))
BY FinishType, LeaveIs, OthersStay DEF TypeOK

-----------------------------------------------------------------------------
(* Type correctness *)

\* The steps that leave the references as they are.
Looks(p) ==
    \/ BindCheck(p) \/ BindCreate(p) \/ unix_listen(p)
    \/ AcceptCheck(p) \/ AcceptNoMemory(p) \/ AcceptWait(p)
    \/ ConnectCheck(p) \/ ConnectRemote(p) \/ ConnectMark(p) \/ ConnectStore(p)
    \/ ConnectLoop(p) \/ ConnectTimeout(p) \/ LateLoop(p)

\* The steps that look change no reference and no list.
LEMMA LooksQuiet ==
    ASSUME TypeOK, ShapeInv, NEW p \in Threads, Looks(p) PROVE Quiet(p)
BY BindCheckQuiet, BindCreateQuiet, ListenQuiet, AcceptCheckQuiet, AcceptNoMemoryQuiet,
   AcceptWaitQuiet, ConnectCheckQuiet, ConnectRemoteQuiet, ConnectMarkQuiet, ConnectStoreQuiet,
   ConnectLoopQuiet, ConnectTimeoutQuiet, LateLoopQuiet DEF Looks

Puts(p) == At(p, "finish") /\ Head(th[p].todo).op = "put" /\ Put(p, Head(th[p].todo).s)
           /\ open' = open /\ path' = path
Frees(p) == At(p, "finish") /\ Head(th[p].todo).op = "free" /\ Free(p, Head(th[p].todo).s)
            /\ open' = open /\ path' = path
DetachesOne(p) ==
    At(p, "finish") /\ Head(th[p].todo).op = "detach" /\ Detach(p, Head(th[p].todo).s)
    /\ open' = open /\ path' = path
Opens(p) ==
    /\ At(p, "finish") /\ Head(th[p].todo).op = "open" /\ th' = Leave(p, Tail(th[p].todo))
    /\ open' = open \cup {Head(th[p].todo).s} /\ sock' = sock /\ path' = path

\* The steps of one thread.
Does(p) ==
    \/ Looks(p)
    \/ unix_socket(p) \/ unix_socketpair(p) \/ PairFails(p) \/ PairSecond(p) \/ AcceptAlloc(p)
    \/ \E f \in open, l \in {"bind", "accept", "listen", "connect"} :
         Enter(p, f, l) /\ (l \in {"listen", "connect"} => SharedConnect \/ Undisturbed(f))
    \/ \E f \in open : unix_close(p, f)
    \/ \E f \in open : "shutdown" \in Ops /\ unix_shutdown(p, f)
    \/ ConnectLookup(p) \/ ConnectRef(p) \/ ConnectAdd(p) \/ ConnectUnlink(p)
    \/ AcceptTake(p) \/ AcceptPair(p)
    \/ Puts(p) \/ DetachesOne(p) \/ Frees(p) \/ Opens(p)

\* Every step is the unlinking of the path by someone else or the step of one thread.
LEMMA NextDoes ==
    ASSUME Next PROVE Unlink \/ \E p \in Threads : Does(p)
<1>1. ASSUME NEW p \in Threads, Create(p) PROVE Does(p)
    BY <1>1 DEF Create, Does
<1>2. ASSUME NEW p \in Threads, Call(p) PROVE Does(p)
    BY <1>2 DEF Call, Does
<1>3. ASSUME NEW p \in Threads, Finish(p) PROVE Does(p)
    BY <1>3 DEF Finish, Does, Puts, DetachesOne, Frees, Opens
<1>4. ASSUME NEW p \in Threads, AcceptStep(p) PROVE Does(p)
    BY <1>4 DEF AcceptStep, Does, Looks
<1>5. ASSUME NEW p \in Threads, ConnectStep(p) PROVE Does(p)
    BY <1>5 DEF ConnectStep, Does, Looks
<1>6. ASSUME NEW p \in Threads, Kernel(p) PROVE Does(p)
    BY <1>3, <1>4, <1>5, <1>6 DEF Kernel, Does, Looks
<1> QED BY <1>1, <1>2, <1>6 DEF Next

\* A call that wakes up is in order if it was.
LEMMA InOrder ==
    ASSUME TypeOK, ShapeInv, NEW p \in Threads, Others(p), Shape(th'[p]),
           th' \in [Threads -> Calls], sock' \in [Socks -> Sockets],
           open' \subseteq Socks, path' \in Ids \cup {NoId}
    PROVE  TypeOK' /\ ShapeInv'
<1>1. TypeOK'
    BY DEF TypeOK
<1>2. ASSUME NEW q \in Threads \ {p} PROVE Shape(th'[q])
    <2>1. Shape(th[q]) /\ SameRefs(th[q], th'[q]) /\ Wakes(th[q].pc, th'[q].pc)
        BY DEF ShapeInv, Others
    <2> QED BY <2>1 DEF Shape, SameRefs, Wakes, OnSocket, OnRemote, OnNew, AcceptLocations,
                        SetUpLocations
<1> QED BY <1>1, <1>2 DEF ShapeInv

\* A step that looks leaves the call with the pointers that its new place needs.
LEMMA QuietShape ==
    ASSUME TypeOK, ShapeInv, NEW p \in Threads, Quiet(p) PROVE Shape(th'[p])
<1>1. CASE GoesOn(p)
    <2>1. Shape(th[p])
        BY DEF ShapeInv
    <2> QED BY <1>1, <2>1 DEF GoesOn, SameRefs, SameKind, Shape, OnSocket, AcceptLocations,
                              SetUpLocations
<1>2. CASE GoesHome(p)
    BY <1>2, LeavesShape DEF GoesHome
<1> QED BY <1>1, <1>2 DEF Quiet

\* A call that comes to a place with the pointers that the place needs has its shape.
LEMMA BecomesShape ==
    ASSUME NEW p \in Threads, NEW l, NEW s, NEW r, NEW new, Becomes(p, l, s, r, new),
           s # NULL <=> l \in OnSocket, r # NULL <=> l \in OnRemote, new # NULL <=> l \in OnNew,
           l # "finish"
    PROVE  Shape(th'[p])
BY DEF Becomes, Shape

\* The step of a thread keeps the types and the shape of the calls.
LEMMA StepType ==
    ASSUME TypeOK, ShapeInv, NEW p \in Threads, Does(p) PROVE TypeOK' /\ ShapeInv'
<1> USE SocksType
<1>0. open \subseteq Socks /\ path \in Ids \cup {NoId} /\ Shape(th[p])
      /\ th \in [Threads -> Calls] /\ sock \in [Socks -> Sockets]
    BY DEF TypeOK, ShapeInv
<1>1. ASSUME Quiet(p) PROVE TypeOK' /\ ShapeInv'
    BY <1>0, <1>1, QuietShape, InOrder DEF Quiet
<1>2. ASSUME th' \in [Threads -> Calls], Others(p), sock' \in [Socks -> Sockets],
             open' = open, path' = path, Shape(th'[p])
      PROVE  TypeOK' /\ ShapeInv'
    BY <1>0, <1>2, InOrder
<1>3. ASSUME NEW f, NEW i, Allocates(f, i) PROVE sock' \in [Socks -> Sockets]
    BY <1>3 DEF Allocates
<1>4. ASSUME NEW s, NEW n, Counts(s, n) PROVE sock' \in [Socks -> Sockets]
    BY <1>4 DEF Counts
<1>5. ASSUME NEW r, NEW q, Lists(r, q) PROVE sock' \in [Socks -> Sockets]
    BY <1>5 DEF Lists
<1>6. CASE unix_socket(p)
    BY <1>2, <1>3, <1>6, SocketIs, LeavesShape
<1>7. CASE unix_socketpair(p)
    <2>1. PICK f \in Socks, i \in Ids : Allocates(f, i) /\ Becomes(p, "pair", NULL, NULL, f)
        BY <1>7, SocketpairIs
    <2>2. Shape(th'[p])
        BY <2>1, BecomesShape DEF OnSocket, OnRemote, OnNew, AcceptLocations, SetUpLocations
    <2> QED BY <1>2, <1>3, <1>7, <2>1, <2>2, SocketpairIs
<1>8. CASE PairFails(p)
    BY <1>0, <1>2, <1>8, PairFailsIs, LeavesShape
<1>9. CASE PairSecond(p)
    BY <1>2, <1>9, PairSecondIs
<1>10. CASE AcceptAlloc(p)
    <2>1. PICK f \in Socks, i \in Ids :
             /\ Allocates(f, i)
             /\ \/ Becomes(p, "acceptLoop", th[p].s, NULL, f)
                \/ Leaves(p, <<Task("put", f), Task("put", f), Task("put", th[p].s)>>)
        BY <1>10, AcceptAllocIs
    <2>2. th[p].s \in Socks
        BY <1>10, AcceptAllocIs
    <2>3. Becomes(p, "acceptLoop", th[p].s, NULL, f) => Shape(th'[p])
        BY <2>2, BecomesShape DEF OnSocket, OnRemote, OnNew, AcceptLocations, SetUpLocations
    <2>4. Shape(th'[p])
        BY <2>1, <2>3, LeavesShape
    <2> QED BY <1>2, <1>3, <1>10, <2>1, <2>4, AcceptAllocIs
<1>11. CASE \E f \in open, l \in {"bind", "accept", "listen", "connect"} : Enter(p, f, l)
    <2>1. PICK f \in open, l \in {"bind", "accept", "listen", "connect"} : Enter(p, f, l)
        BY <1>11
    <2>2. PICK s \in Found(sock[f].id) :
             Counts(s, sock[s].refs + 1) /\ Becomes(p, l, s, NULL, NULL)
        BY <2>1, EnterIs
    <2>3. s \in Socks
        BY FoundType
    <2>4. Shape(th'[p])
        BY <2>2, <2>3, BecomesShape DEF OnSocket, OnRemote, OnNew, AcceptLocations, SetUpLocations
    <2> QED BY <1>2, <1>4, <2>1, <2>2, <2>4, EnterIs
<1>12. ASSUME NEW f \in open, At(p, "user"), DropTwice(p, f), open' \subseteq open, path' = path
       PROVE  TypeOK' /\ ShapeInv'
    <2>1. CASE UNCHANGED <<sock, th>>
        BY <1>0, <1>12, <2>1, InOrder, OthersStay DEF TypeOK, ShapeInv
    <2>2. CASE \E s \in Found(sock[f].id) :
                 /\ th' \in [Threads -> Calls] /\ Others(p)
                 /\ Counts(s, sock[s].refs + 1)
                 /\ Leaves(p, <<Task("put", s), Task("put", s)>>)
        <3>1. open' \subseteq Socks /\ path' \in Ids \cup {NoId}
            BY <1>0, <1>12
        <3> QED BY <1>4, <2>2, <3>1, LeavesShape, InOrder
    <2> QED BY <1>12, <2>1, <2>2, DropTwiceIs
<1>13. CASE \E f \in open : unix_close(p, f)
    BY <1>12, <1>13 DEF unix_close
<1>14. CASE \E f \in open : unix_shutdown(p, f)
    BY <1>12, <1>14 DEF unix_shutdown
<1>15. CASE ConnectLookup(p)
    <2>1. CASE Quiet(p)
        BY <1>1, <2>1
    <2>2. CASE /\ open' = open /\ path' = path
               /\ th' \in [Threads -> Calls] /\ Others(p) /\ th[p].s \in Socks
               /\ \E r \in Found(path) :
                    Counts(r, sock[r].refs + 1) /\ Becomes(p, "connectRemote", th[p].s, r, NULL)
        <3>1. PICK r \in Found(path) :
                Counts(r, sock[r].refs + 1) /\ Becomes(p, "connectRemote", th[p].s, r, NULL)
            BY <2>2
        <3>2. r \in Socks
            BY FoundType
        <3>3. Shape(th'[p])
            BY <2>2, <3>1, <3>2, BecomesShape DEF OnSocket, OnRemote, OnNew, AcceptLocations, SetUpLocations
        <3> QED BY <1>2, <1>4, <2>2, <3>1, <3>3
    <2> QED BY <1>15, <2>1, <2>2, ConnectLookupIs
<1>16. CASE ConnectRef(p)
    <2>1. Shape(th'[p])
        BY <1>0, <1>16, ConnectRefIs DEF SameRefs, Shape, At, OnSocket, OnRemote, OnNew,
           AcceptLocations, SetUpLocations
    <2> QED BY <1>2, <1>4, <1>16, <2>1, ConnectRefIs
<1>17. CASE ConnectAdd(p)
    <2>1. Shape(th'[p])
        BY <1>0, <1>17, ConnectAddIs DEF SameRefs, Shape, At, OnSocket, OnRemote, OnNew,
           AcceptLocations, SetUpLocations
    <2> QED BY <1>2, <1>5, <1>17, <2>1, ConnectAddIs
<1>18. CASE ConnectUnlink(p)
    BY <1>1, <1>2, <1>5, <1>18, ConnectUnlinkIs, LeavesShape
<1>19. CASE AcceptTake(p)
    <2>1. Shape(th'[p])
        BY <1>19, AcceptTakeIs, BecomesShape DEF OnSocket, OnRemote, OnNew, AcceptLocations
    <2> QED BY <1>2, <1>5, <1>19, <2>1, AcceptTakeIs
<1>20. CASE AcceptPair(p)
    BY <1>2, <1>20, AcceptPairIs, LeavesShape, ZenonT(60)
<1>21. CASE Puts(p)
    BY <1>2, <1>4, <1>21, PutIs, PutLastIs, LeavesShape DEF Puts
<1>22. CASE DetachesOne(p)
    BY <1>2, <1>22, DetachIs, LeavesShape DEF DetachesOne
<1>23. CASE Frees(p)
    BY <1>2, <1>23, FreeIs, LeavesShape DEF Frees
<1>24. CASE Opens(p)
    <2>1. open' \subseteq Socks /\ path' = path /\ sock' = sock
        BY <1>0, <1>24, FinishType DEF Opens
    <2>2. Shape(th'[p]) /\ th' \in [Threads -> Calls] /\ Others(p)
        BY <1>24, FileOpenIs, LeavesShape DEF Opens
    <2> QED BY <1>0, <2>1, <2>2, InOrder
<1>25. CASE Looks(p)
    BY <1>1, <1>25, LooksQuiet
<1> QED BY <1>6, <1>7, <1>8, <1>9, <1>10, <1>11, <1>13, <1>14, <1>15, <1>16, <1>17, <1>18,
           <1>19, <1>20, <1>21, <1>22, <1>23, <1>24, <1>25 DEF Does

\* At start every thread is outside, and no structure has been used.
LEMMA InitType == Init => TypeOK /\ ShapeInv
<1>1. Blank \in Sockets
    <2>1. <<>> \in Seq(Socks) /\ 0 \in Ids
        BY MaxSocksAssumption DEF Ids
    <2> QED BY <2>1 DEF Blank, Sockets
<1>2. Shape(User)
    BY DEF Shape, User, OnSocket, OnRemote, OnNew, AcceptLocations, SetUpLocations
<1> QED BY <1>1, <1>2, UserType DEF Init, TypeOK, ShapeInv

\* Every structure, call, open file and path is what its type says, whatever the clients do.
THEOREM TypeCorrect == Spec => [](TypeOK /\ ShapeInv)
<1>1. Init => TypeOK /\ ShapeInv
    BY InitType
<1>2. TypeOK /\ ShapeInv /\ [Next]_vars => TypeOK' /\ ShapeInv'
    <2> SUFFICES ASSUME TypeOK, ShapeInv, [Next]_vars PROVE TypeOK' /\ ShapeInv'
        OBVIOUS
    <2>1. CASE UNCHANGED vars
        BY <2>1 DEF vars, TypeOK, ShapeInv
    <2>2. CASE Unlink
        BY <2>2 DEF Unlink, TypeOK, ShapeInv
    <2>3. ASSUME NEW p \in Threads, Does(p) PROVE TypeOK' /\ ShapeInv'
        BY <2>3, StepType
    <2> QED BY <2>1, <2>2, <2>3, NextDoes
<1> QED BY <1>1, <1>2, PTL DEF Spec

-----------------------------------------------------------------------------
(* What a call owns *)

Bit(b) == IF b THEN 1 ELSE 0

\* The drops to come that give up a reference to x.
Drop(x) == {t \in Tasks : t.s = x /\ t.op # "free"}

RolesN(c, x) ==
    Bit(c.s = x) + Bit(c.r = x) + 2 * Bit(c.new = x) + Bit(c.pc = "connectAdd" /\ c.s = x)

Owns(c, x) == RolesN(c, x) + N(c.todo, Drop(x))

\* The tree's reference: whoever has it has the only title to the open file of x.
Title(c, x) == Bit(c.new = x) + N(c.todo, {Task("open", x)})

\* A truth value counts zero or one.
LEMMA BitIs == Bit(TRUE) = 1 /\ Bit(FALSE) = 0 /\ \A b \in BOOLEAN : Bit(b) \in {0, 1}
BY DEF Bit

\* A set with an element or none counts zero or one.
LEMMA BitSet ==
    ASSUME NEW b \in BOOLEAN, NEW e, NEW S, S = IF b THEN {e} ELSE {}
    PROVE  IsFiniteSet(S) /\ Cardinality(S) = Bit(b)
BY FS_EmptySet, FS_Singleton DEF Bit

\* The roles of a call, counted.
LEMMA RolesCount ==
    ASSUME NEW c, NEW x
    PROVE  IsFiniteSet(Roles(c, x)) /\ Cardinality(Roles(c, x)) = RolesN(c, x)
<1> DEFINE b1 == c.s = x
           b2 == c.r = x
           b3 == c.new = x
           b4 == c.pc = "connectAdd" /\ c.s = x
           A1 == IF b1 THEN {"s"} ELSE {}
           A2 == IF b2 THEN {"r"} ELSE {}
           A3 == IF b3 THEN {"new"} ELSE {}
           A4 == IF b3 THEN {"newtree"} ELSE {}
           A5 == IF b4 THEN {"add"} ELSE {}
<1>1. b1 \in BOOLEAN /\ b2 \in BOOLEAN /\ b3 \in BOOLEAN /\ b4 \in BOOLEAN
    OBVIOUS
<1>2. Roles(c, x) = (((A1 \cup A2) \cup A3) \cup A4) \cup A5
    BY DEF Roles
<1>3. /\ A1 \subseteq {"s"} /\ A2 \subseteq {"r"} /\ A3 \subseteq {"new"}
      /\ A4 \subseteq {"newtree"} /\ A5 \subseteq {"add"}
    OBVIOUS
<1>4. RolesN(c, x) = Bit(b1) + Bit(b2) + 2 * Bit(b3) + Bit(b4)
    BY DEF RolesN
<1>5. /\ A1 = IF b1 THEN {"s"} ELSE {}
      /\ A2 = IF b2 THEN {"r"} ELSE {}
      /\ A3 = IF b3 THEN {"new"} ELSE {}
      /\ A4 = IF b3 THEN {"newtree"} ELSE {}
      /\ A5 = IF b4 THEN {"add"} ELSE {}
    OBVIOUS
<1> HIDE DEF A1, A2, A3, A4, A5, b1, b2, b3, b4
<1>6. /\ IsFiniteSet(A1) /\ Cardinality(A1) = Bit(b1)
      /\ IsFiniteSet(A2) /\ Cardinality(A2) = Bit(b2)
      /\ IsFiniteSet(A3) /\ Cardinality(A3) = Bit(b3)
      /\ IsFiniteSet(A4) /\ Cardinality(A4) = Bit(b3)
      /\ IsFiniteSet(A5) /\ Cardinality(A5) = Bit(b4)
    BY <1>1, <1>5, BitSet
<1>7. /\ Bit(b1) \in Nat /\ Bit(b2) \in Nat /\ Bit(b3) \in Nat /\ Bit(b4) \in Nat
    BY <1>1, BitIs
<1>8. IsFiniteSet(A1 \cup A2) /\ Cardinality(A1 \cup A2) = Bit(b1) + Bit(b2)
    <2>1. A1 \cap A2 = {}
        BY <1>3
    <2> QED BY <1>6, <2>1, DisjointSize
<1>9. IsFiniteSet((A1 \cup A2) \cup A3) /\ Cardinality((A1 \cup A2) \cup A3) = Bit(b1) + Bit(b2) + Bit(b3)
    <2>1. (A1 \cup A2) \cap A3 = {}
        BY <1>3
    <2> QED BY <1>6, <1>8, <2>1, DisjointSize
<1>10. /\ IsFiniteSet(((A1 \cup A2) \cup A3) \cup A4)
       /\ Cardinality(((A1 \cup A2) \cup A3) \cup A4) = Bit(b1) + Bit(b2) + Bit(b3) + Bit(b3)
    <2>1. ((A1 \cup A2) \cup A3) \cap A4 = {}
        BY <1>3
    <2> QED BY <1>6, <1>9, <2>1, DisjointSize
<1>11. /\ IsFiniteSet((((A1 \cup A2) \cup A3) \cup A4) \cup A5)
       /\ Cardinality((((A1 \cup A2) \cup A3) \cup A4) \cup A5)
            = Bit(b1) + Bit(b2) + Bit(b3) + Bit(b3) + Bit(b4)
    <2>1. (((A1 \cup A2) \cup A3) \cup A4) \cap A5 = {}
        BY <1>3
    <2> QED BY <1>6, <1>10, <2>1, DisjointSize
<1> QED BY <1>2, <1>4, <1>7, <1>11

\* The drops of x still to come are as many as they are in the list.
LEMMA PendingCount ==
    ASSUME NEW q \in Seq(Tasks), NEW x
    PROVE  IsFiniteSet(Pending(q, x)) /\ Cardinality(Pending(q, x)) = N(q, Drop(x))
           /\ N(q, Drop(x)) \in Nat
<1>1. \A i \in DOMAIN q : q[i] \in Tasks
    OBVIOUS
<1>2. Pending(q, x) = Where(q, Drop(x))
    BY <1>1 DEF Pending, Where, Drop
<1> QED BY <1>2, WhereFinite DEF N

\* The places of x on a list are as many as they are counted.
LEMMA PositionsCount ==
    ASSUME NEW q \in Seq(Socks), NEW x
    PROVE  IsFiniteSet(Positions(q, x)) /\ Cardinality(Positions(q, x)) = N(q, {x})
           /\ N(q, {x}) \in Nat
<1>1. Positions(q, x) = Where(q, {x})
    BY DEF Positions, Where
<1> QED BY <1>1, WhereFinite DEF N

\* What a call owns of x is a number.
LEMMA OwnsType ==
    ASSUME TypeOK, NEW p \in Threads, NEW x
    PROVE  /\ Owns(th[p], x) \in Nat /\ RolesN(th[p], x) \in Nat /\ Title(th[p], x) \in Nat
           /\ N(th[p].todo, Drop(x)) \in Nat /\ th[p].todo \in Seq(Tasks)
           /\ N(th[p].todo, {Task("open", x)}) \in Nat
<1>1. th[p].todo \in Seq(Tasks)
    BY DEF TypeOK, Calls
<1>2. N(th[p].todo, Drop(x)) \in Nat /\ N(th[p].todo, {Task("open", x)}) \in Nat
    BY <1>1, WhereFinite
<1>3. RolesN(th[p], x) \in Nat /\ Bit(th[p].new = x) \in Nat
    BY DEF RolesN, Bit
<1> QED BY <1>1, <1>2, <1>3 DEF Owns, Title

\* All that the calls own of x.
Claims(x) == Cardinality(Holders(x)) + Cardinality(Drops(x))
Linked(x) == Cardinality(Links(x))

\* What the calls own of x together is a number, no smaller than what one of them owns.
LEMMA ClaimsType ==
    ASSUME IsFiniteSet(Threads), TypeOK, NEW x
    PROVE  /\ Claims(x) \in Nat /\ \A p \in Threads : Owns(th[p], x) <= Claims(x)
           /\ Claims(x) = 0 => Holders(x) = {} /\ Drops(x) = {}
<1> DEFINE F == [p \in Threads |-> Roles(th[p], x)]
           G == [p \in Threads |-> Pending(th[p].todo, x)]
<1>1. \A p \in Threads : th[p].todo \in Seq(Tasks)
    BY OwnsType
<1>2. \A p \in Threads : IsFiniteSet(F[p]) /\ Cardinality(F[p]) = RolesN(th[p], x)
    BY RolesCount
<1>3. \A p \in Threads : IsFiniteSet(G[p]) /\ Cardinality(G[p]) = N(th[p].todo, Drop(x))
    BY <1>1, PendingCount
<1>4. Holders(x) = Pairs(Threads, F) /\ Drops(x) = Pairs(Threads, G)
    BY DEF Holders, Drops, Pairs
<1> HIDE DEF F, G
<1>5. /\ IsFiniteSet(Pairs(Threads, F)) /\ Cardinality(Pairs(Threads, F)) \in Nat
      /\ IsFiniteSet(Pairs(Threads, G)) /\ Cardinality(Pairs(Threads, G)) \in Nat
    BY <1>2, <1>3, PairsFinite
<1>6. ASSUME NEW p \in Threads PROVE Owns(th[p], x) <= Claims(x)
    <2>1. /\ Cardinality(Pairs(Threads, F)) = Cardinality(F[p]) + Cardinality(Pairs(Threads \ {p}, F))
          /\ Cardinality(Pairs(Threads \ {p}, F)) \in Nat
          /\ Cardinality(Pairs(Threads, G)) = Cardinality(G[p]) + Cardinality(Pairs(Threads \ {p}, G))
          /\ Cardinality(Pairs(Threads \ {p}, G)) \in Nat
        BY <1>2, <1>3, PairsSplit
    <2>2. Cardinality(F[p]) = RolesN(th[p], x) /\ Cardinality(G[p]) = N(th[p].todo, Drop(x))
        BY <1>2, <1>3
    <2>3. RolesN(th[p], x) \in Nat /\ N(th[p].todo, Drop(x)) \in Nat
        BY OwnsType
    <2> QED BY <1>4, <2>1, <2>2, <2>3 DEF Owns, Claims
<1>7. /\ Cardinality(Pairs(Threads, F)) = 0 <=> Pairs(Threads, F) = {}
      /\ Cardinality(Pairs(Threads, G)) = 0 <=> Pairs(Threads, G) = {}
    BY <1>5, FS_EmptySet
<1> QED BY <1>4, <1>5, <1>6, <1>7 DEF Claims

\* The structures are finitely many.
LEMMA SocksFinite == IsFiniteSet(Socks)
BY MaxSocksAssumption, FS_Interval DEF Socks

\* The lists together hold x a number of times, no smaller than one of them does.
LEMMA LinkedType ==
    ASSUME TypeOK, NEW x
    PROVE  /\ Linked(x) \in Nat
           /\ \A r \in Socks : N(sock[r].connecting, {x}) <= Linked(x)
                               /\ N(sock[r].connecting, {x}) \in Nat
           /\ Linked(x) = 0 => Links(x) = {}
<1> DEFINE F == [r \in Socks |-> Positions(sock[r].connecting, x)]
<1>1. \A r \in Socks : IsFiniteSet(F[r]) /\ Cardinality(F[r]) = N(sock[r].connecting, {x})
                       /\ N(sock[r].connecting, {x}) \in Nat
    BY ListType, PositionsCount
<1>2. Links(x) = Pairs(Socks, F)
    BY DEF Links, Pairs
<1> HIDE DEF F
<1>3. IsFiniteSet(Pairs(Socks, F)) /\ Cardinality(Pairs(Socks, F)) \in Nat
    BY <1>1, PairsFinite, SocksFinite
<1>4. ASSUME NEW r \in Socks PROVE N(sock[r].connecting, {x}) <= Linked(x)
    <2>1. /\ Cardinality(Pairs(Socks, F)) = Cardinality(F[r]) + Cardinality(Pairs(Socks \ {r}, F))
          /\ Cardinality(Pairs(Socks \ {r}, F)) \in Nat
        BY <1>1, PairsSplit, SocksFinite
    <2>2. Cardinality(F[r]) = N(sock[r].connecting, {x}) /\ N(sock[r].connecting, {x}) \in Nat
        BY <1>1
    <2> QED BY <1>2, <2>1, <2>2 DEF Linked
<1>5. Cardinality(Pairs(Socks, F)) = 0 <=> Pairs(Socks, F) = {}
    BY <1>3, FS_EmptySet
<1> QED BY <1>1, <1>2, <1>3, <1>4, <1>5 DEF Linked

\* A step changes what its own call owns, and nothing else.
LEMMA ClaimsChange ==
    ASSUME IsFiniteSet(Threads), TypeOK, TypeOK', NEW p \in Threads, Others(p), NEW x
    PROVE  /\ Claims(x)' + Owns(th[p], x) = Claims(x) + Owns(th[p], x)'
           /\ Claims(x) \in Nat /\ Claims(x)' \in Nat
           /\ Owns(th[p], x) \in Nat /\ Owns(th[p], x)' \in Nat
<1> DEFINE F == [q \in Threads |-> Roles(th[q], x)]
           G == [q \in Threads |-> Pending(th[q].todo, x)]
           F1 == [q \in Threads |-> Roles(th'[q], x)]
           G1 == [q \in Threads |-> Pending(th'[q].todo, x)]
<1>1. \A q \in Threads : th[q].todo \in Seq(Tasks) /\ th'[q].todo \in Seq(Tasks)
    BY DEF TypeOK, Calls
<1>2. \A q \in Threads : /\ IsFiniteSet(F[q]) /\ Cardinality(F[q]) = RolesN(th[q], x)
                         /\ IsFiniteSet(F1[q]) /\ Cardinality(F1[q]) = RolesN(th'[q], x)
    BY RolesCount
<1>3. \A q \in Threads : /\ IsFiniteSet(G[q]) /\ Cardinality(G[q]) = N(th[q].todo, Drop(x))
                         /\ IsFiniteSet(G1[q]) /\ Cardinality(G1[q]) = N(th'[q].todo, Drop(x))
    BY <1>1, PendingCount
<1>4. /\ Holders(x) = Pairs(Threads, F) /\ Drops(x) = Pairs(Threads, G)
      /\ Holders(x)' = Pairs(Threads, F1) /\ Drops(x)' = Pairs(Threads, G1)
    BY DEF Holders, Drops, Pairs
<1>5. \A q \in Threads \ {p} : F[q] = F1[q] /\ G[q] = G1[q]
    BY DEF Others, SameRefs, Wakes, Roles
<1>6. /\ Owns(th[p], x) = RolesN(th[p], x) + N(th[p].todo, Drop(x))
      /\ Owns(th[p], x)' = RolesN(th'[p], x) + N(th'[p].todo, Drop(x))
    BY DEF Owns, RolesN, N, Where, Drop
<1> HIDE DEF F, G, F1, G1
<1>7. /\ Cardinality(Pairs(Threads, F1)) + Cardinality(F[p]) = Cardinality(Pairs(Threads, F)) + Cardinality(F1[p])
      /\ Cardinality(Pairs(Threads, G1)) + Cardinality(G[p]) = Cardinality(Pairs(Threads, G)) + Cardinality(G1[p])
    BY <1>2, <1>3, <1>5, PairsChange
<1>8. /\ Cardinality(Pairs(Threads, F)) \in Nat /\ Cardinality(Pairs(Threads, F1)) \in Nat
      /\ Cardinality(Pairs(Threads, G)) \in Nat /\ Cardinality(Pairs(Threads, G1)) \in Nat
    BY <1>2, <1>3, PairsFinite
<1>9. /\ Cardinality(F[p]) = RolesN(th[p], x) /\ Cardinality(F1[p]) = RolesN(th'[p], x)
      /\ Cardinality(G[p]) = N(th[p].todo, Drop(x)) /\ Cardinality(G1[p]) = N(th'[p].todo, Drop(x))
    BY <1>2, <1>3
<1>10. /\ Cardinality(F[p]) \in Nat /\ Cardinality(F1[p]) \in Nat
       /\ Cardinality(G[p]) \in Nat /\ Cardinality(G1[p]) \in Nat
    BY <1>2, <1>3, FS_CardinalityType
<1>11. Claims(x) = Cardinality(Holders(x)) + Cardinality(Drops(x))
       /\ Claims(x)' = Cardinality(Holders(x)') + Cardinality(Drops(x)')
    BY DEF Claims
<1> DEFINE a == Cardinality(Pairs(Threads, F))
           a1 == Cardinality(Pairs(Threads, F1))
           b == Cardinality(Pairs(Threads, G))
           b1 == Cardinality(Pairs(Threads, G1))
           k == Cardinality(F[p])
           k1 == Cardinality(F1[p])
           l == Cardinality(G[p])
           l1 == Cardinality(G1[p])
<1>12. /\ Claims(x) = a + b /\ Claims(x)' = a1 + b1
       /\ Owns(th[p], x) = k + l /\ Owns(th[p], x)' = k1 + l1
    BY ONLY <1>4, <1>6, <1>9, <1>11, Zenon
<1>13. /\ a \in Nat /\ a1 \in Nat /\ b \in Nat /\ b1 \in Nat
       /\ k \in Nat /\ k1 \in Nat /\ l \in Nat /\ l1 \in Nat
       /\ a1 + k = a + k1 /\ b1 + l = b + l1
    BY ONLY <1>7, <1>8, <1>10, Zenon
<1> HIDE DEF a, a1, b, b1, k, k1, l, l1
<1> QED BY ONLY <1>12, <1>13

\* One list changes.
LEMMA LinkedChange ==
    ASSUME TypeOK, TypeOK', NEW r \in Socks, NEW x,
           \A y \in Socks \ {r} : sock'[y].connecting = sock[y].connecting
    PROVE  /\ Linked(x)' + N(sock[r].connecting, {x}) = Linked(x) + N(sock'[r].connecting, {x})
           /\ Linked(x) \in Nat /\ Linked(x)' \in Nat
           /\ N(sock[r].connecting, {x}) \in Nat /\ N(sock'[r].connecting, {x}) \in Nat
<1> DEFINE F == [y \in Socks |-> Positions(sock[y].connecting, x)]
           F1 == [y \in Socks |-> Positions(sock'[y].connecting, x)]
<1>1. \A y \in Socks : sock[y].connecting \in Seq(Socks) /\ sock'[y].connecting \in Seq(Socks)
    BY DEF TypeOK, Sockets
<1>2. \A y \in Socks : /\ IsFiniteSet(F[y]) /\ Cardinality(F[y]) = N(sock[y].connecting, {x})
                       /\ IsFiniteSet(F1[y]) /\ Cardinality(F1[y]) = N(sock'[y].connecting, {x})
    BY <1>1, PositionsCount
<1>3. Links(x) = Pairs(Socks, F) /\ Links(x)' = Pairs(Socks, F1)
    BY DEF Links, Pairs
<1>4. \A y \in Socks \ {r} : F[y] = F1[y]
    OBVIOUS
<1> HIDE DEF F, F1
<1>5. Cardinality(Pairs(Socks, F1)) + Cardinality(F[r]) = Cardinality(Pairs(Socks, F)) + Cardinality(F1[r])
    BY <1>2, <1>4, PairsChange, SocksFinite
<1>6. Cardinality(F[r]) = N(sock[r].connecting, {x}) /\ Cardinality(F1[r]) = N(sock'[r].connecting, {x})
    BY <1>2
<1>7. Linked(x) = Cardinality(Links(x)) /\ Linked(x)' = Cardinality(Links(x)')
    BY DEF Linked
<1>8. Cardinality(Pairs(Socks, F)) \in Nat /\ Cardinality(Pairs(Socks, F1)) \in Nat
    BY <1>2, PairsFinite, SocksFinite
<1>9. N(sock[r].connecting, {x}) \in Nat /\ N(sock'[r].connecting, {x}) \in Nat
    BY <1>1, WhereFinite
<1> QED BY <1>3, <1>5, <1>6, <1>7, <1>8, <1>9

\* With no list changed, x is on as many as before.
LEMMA LinkedSame ==
    ASSUME \A y \in Socks : sock'[y].connecting = sock[y].connecting, NEW x
    PROVE  Linked(x)' = Linked(x)
<1>1. Links(x)' = Links(x)
    BY DEF Links
<1> QED BY <1>1 DEF Linked

\* Who has a title to the tree's reference to x: place 0 is the call's own new socket.
TitlesOf(c, x) ==
    {i \in {0} \cup DOMAIN c.todo : IF i = 0 THEN c.new = x ELSE c.todo[i] = Task("open", x)}

Titles(x) == UNION {{p} \X TitlesOf(th[p], x) : p \in Threads}
Titled(x) == Cardinality(Titles(x))

\* The titles a call has to the file of x are as many as they are counted.
LEMMA TitleCount ==
    ASSUME NEW c, c.todo \in Seq(Tasks), NEW x
    PROVE  IsFiniteSet(TitlesOf(c, x)) /\ Cardinality(TitlesOf(c, x)) = Title(c, x)
           /\ Title(c, x) \in Nat
<1> DEFINE b == c.new = x
           A == IF b THEN {0} ELSE {}
           B == Where(c.todo, {Task("open", x)})
<1>1. DOMAIN c.todo = 1..Len(c.todo) /\ Len(c.todo) \in Nat
    OBVIOUS
<1>2. TitlesOf(c, x) = A \cup B
    BY <1>1 DEF TitlesOf, Where
<1>3. A \cap B = {}
    BY <1>1 DEF Where
<1>4. IsFiniteSet(B) /\ Cardinality(B) = N(c.todo, {Task("open", x)}) /\ Cardinality(B) \in Nat
    BY WhereFinite DEF N
<1>5. b \in BOOLEAN /\ A = IF b THEN {0} ELSE {}
    OBVIOUS
<1> HIDE DEF A, B
<1>6. IsFiniteSet(A) /\ Cardinality(A) = Bit(b)
    BY <1>5, BitSet
<1>7. Bit(b) \in Nat
    BY DEF Bit
<1>8. IsFiniteSet(A \cup B) /\ Cardinality(A \cup B) = Cardinality(A) + Cardinality(B)
    BY ONLY <1>3, <1>4, <1>6, DisjointSize, Zenon
<1>9. IsFiniteSet(TitlesOf(c, x)) /\ Cardinality(TitlesOf(c, x)) = Bit(b) + N(c.todo, {Task("open", x)})
    BY ONLY <1>2, <1>4, <1>6, <1>8, Zenon
<1> DEFINE k == N(c.todo, {Task("open", x)})
           e == Bit(b)
<1>10. k \in Nat /\ e \in Nat
    BY ONLY <1>4, <1>7, Zenon
<1> HIDE DEF k, e
<1>11. e + k \in Nat
    BY ONLY <1>10
<1>12. Title(c, x) = e + k
    BY DEF Title, e, k
<1> QED BY ONLY <1>9, <1>11, <1>12, Zenon DEF e, k

\* The titles to the file of x are a number, no smaller than what one call has.
LEMMA TitledType ==
    ASSUME IsFiniteSet(Threads), TypeOK, NEW x
    PROVE  Titled(x) \in Nat /\ \A p \in Threads : Title(th[p], x) <= Titled(x)
<1> DEFINE F == [p \in Threads |-> TitlesOf(th[p], x)]
<1>1. \A p \in Threads : /\ IsFiniteSet(F[p]) /\ Cardinality(F[p]) = Title(th[p], x)
                         /\ Title(th[p], x) \in Nat
    BY OwnsType, TitleCount
<1>2. Titles(x) = Pairs(Threads, F)
    BY DEF Titles, Pairs
<1> HIDE DEF F
<1>3. Cardinality(Pairs(Threads, F)) \in Nat
    BY <1>1, PairsFinite
<1>4. ASSUME NEW p \in Threads PROVE Title(th[p], x) <= Titled(x)
    <2>1. /\ Cardinality(Pairs(Threads, F)) = Cardinality(F[p]) + Cardinality(Pairs(Threads \ {p}, F))
          /\ Cardinality(Pairs(Threads \ {p}, F)) \in Nat
        BY <1>1, PairsSplit
    <2>2. Cardinality(F[p]) = Title(th[p], x) /\ Title(th[p], x) \in Nat
        BY <1>1
    <2> QED BY <1>2, <2>1, <2>2 DEF Titled
<1> QED BY <1>2, <1>3, <1>4 DEF Titled

\* A step of p changes the titles to the file of x by what it changes of p's.
LEMMA TitledChange ==
    ASSUME IsFiniteSet(Threads), TypeOK, TypeOK', NEW p \in Threads, Others(p), NEW x
    PROVE  /\ Titled(x)' + Title(th[p], x) = Titled(x) + Title(th[p], x)'
           /\ Titled(x) \in Nat /\ Titled(x)' \in Nat
           /\ Title(th[p], x) \in Nat /\ Title(th[p], x)' \in Nat
<1> DEFINE F == [q \in Threads |-> TitlesOf(th[q], x)]
           F1 == [q \in Threads |-> TitlesOf(th'[q], x)]
<1>1. \A q \in Threads : th[q].todo \in Seq(Tasks) /\ th'[q].todo \in Seq(Tasks)
    BY DEF TypeOK, Calls
<1>2. \A q \in Threads : /\ IsFiniteSet(F[q]) /\ Cardinality(F[q]) = Title(th[q], x)
                         /\ IsFiniteSet(F1[q]) /\ Cardinality(F1[q]) = Title(th'[q], x)
    BY <1>1, TitleCount
<1>3. Titles(x) = Pairs(Threads, F) /\ Titles(x)' = Pairs(Threads, F1)
    BY DEF Titles, Pairs
<1>4. \A q \in Threads \ {p} : F[q] = F1[q]
    BY DEF Others, SameRefs, TitlesOf
<1>5. Title(th[p], x)' = Title(th'[p], x)
    BY DEF Title, N, Where
<1> HIDE DEF F, F1
<1>6. Cardinality(Pairs(Threads, F1)) + Cardinality(F[p]) = Cardinality(Pairs(Threads, F)) + Cardinality(F1[p])
    BY <1>2, <1>4, PairsChange
<1>7. Cardinality(F[p]) = Title(th[p], x) /\ Cardinality(F1[p]) = Title(th'[p], x)
    BY <1>2
<1>8. Titled(x) = Cardinality(Titles(x)) /\ Titled(x)' = Cardinality(Titles(x)')
    BY DEF Titled
<1>9. Cardinality(Pairs(Threads, F)) \in Nat /\ Cardinality(Pairs(Threads, F1)) \in Nat
    BY <1>2, PairsFinite
<1>10. Title(th[p], x) \in Nat /\ Title(th'[p], x) \in Nat
    BY <1>1, TitleCount
<1> QED BY <1>3, <1>5, <1>6, <1>7, <1>8, <1>9, <1>10

-----------------------------------------------------------------------------
(* The value of what a call owns, place by place *)

\* Short lists of tasks.
LEMMA NTwo ==
    ASSUME NEW a, NEW b, NEW S
    PROVE  N(<<a, b>>, S) = Bit(a \in S) + Bit(b \in S)
<1> DEFINE A == IF a \in S THEN {1} ELSE {}
           B == IF b \in S THEN {2} ELSE {}
<1>1. Where(<<a, b>>, S) = A \cup B /\ A \cap B = {}
    BY DEF Where
<1>2. /\ IsFiniteSet(A) /\ Cardinality(A) = Bit(a \in S)
      /\ IsFiniteSet(B) /\ Cardinality(B) = Bit(b \in S)
    BY FS_EmptySet, FS_Singleton DEF Bit
<1> HIDE DEF A, B
<1> QED BY <1>1, <1>2, DisjointSize DEF N

\* What a list of three has in it.
LEMMA NThree ==
    ASSUME NEW a, NEW b, NEW c, NEW S
    PROVE  N(<<a, b, c>>, S) = Bit(a \in S) + Bit(b \in S) + Bit(c \in S)
<1> DEFINE A == IF a \in S THEN {1} ELSE {}
           B == IF b \in S THEN {2} ELSE {}
           C == IF c \in S THEN {3} ELSE {}
<1>1. /\ Where(<<a, b, c>>, S) = (A \cup B) \cup C
      /\ A \cap B = {} /\ (A \cup B) \cap C = {}
    BY DEF Where
<1>2. /\ IsFiniteSet(A) /\ Cardinality(A) = Bit(a \in S)
      /\ IsFiniteSet(B) /\ Cardinality(B) = Bit(b \in S)
      /\ IsFiniteSet(C) /\ Cardinality(C) = Bit(c \in S)
    BY FS_EmptySet, FS_Singleton DEF Bit
<1> HIDE DEF A, B, C
<1>3. IsFiniteSet(A \cup B) /\ Cardinality(A \cup B) = Bit(a \in S) + Bit(b \in S)
    BY <1>1, <1>2, DisjointSize
<1> QED BY <1>1, <1>2, <1>3, DisjointSize DEF N

\* What a list of four has in it.
LEMMA NFour ==
    ASSUME NEW a, NEW b, NEW c, NEW d, NEW S
    PROVE  N(<<a, b, c, d>>, S) = Bit(a \in S) + Bit(b \in S) + Bit(c \in S) + Bit(d \in S)
<1> DEFINE A == IF a \in S THEN {1} ELSE {}
           B == IF b \in S THEN {2} ELSE {}
           C == IF c \in S THEN {3} ELSE {}
           D == IF d \in S THEN {4} ELSE {}
<1>1. Where(<<a, b, c, d>>, S) = ((A \cup B) \cup C) \cup D
    BY DEF Where
<1>2. A \cap B = {} /\ (A \cup B) \cap C = {} /\ ((A \cup B) \cup C) \cap D = {}
    OBVIOUS
<1>3. /\ IsFiniteSet(A) /\ Cardinality(A) = Bit(a \in S)
      /\ IsFiniteSet(B) /\ Cardinality(B) = Bit(b \in S)
      /\ IsFiniteSet(C) /\ Cardinality(C) = Bit(c \in S)
      /\ IsFiniteSet(D) /\ Cardinality(D) = Bit(d \in S)
    BY FS_EmptySet, FS_Singleton DEF Bit
<1> HIDE DEF A, B, C, D
<1>4. IsFiniteSet(A \cup B) /\ Cardinality(A \cup B) = Bit(a \in S) + Bit(b \in S)
    BY <1>2, <1>3, DisjointSize
<1>5. IsFiniteSet((A \cup B) \cup C)
      /\ Cardinality((A \cup B) \cup C) = Bit(a \in S) + Bit(b \in S) + Bit(c \in S)
    BY <1>2, <1>3, <1>4, DisjointSize
<1> QED BY <1>1, <1>2, <1>3, <1>5, DisjointSize DEF N

\* Which drops give up a reference to x: all but the freeing itself.
LEMMA TaskIn ==
    ASSUME NEW x \in Socks, NEW y \in Socks
    PROVE  /\ Task("put", y) \in Drop(x) <=> y = x
           /\ Task("open", y) \in Drop(x) <=> y = x
           /\ Task("detach", y) \in Drop(x) <=> y = x
           /\ Task("free", y) \notin Drop(x)
           /\ Task("open", y) = Task("open", x) <=> y = x
           /\ Task("put", y) # Task("open", x) /\ Task("detach", y) # Task("open", x)
           /\ Task("free", y) # Task("open", x)
BY TaskType DEF Drop, Task

\* A call that leaves owns what its tasks drop.
LEMMA LeavesOwns ==
    ASSUME TypeOK', NEW p \in Threads, NEW tasks, Leaves(p, tasks), NEW x \in Socks
    PROVE  /\ Owns(th[p], x)' = N(tasks, Drop(x))
           /\ Title(th[p], x)' = N(tasks, {Task("open", x)})
           /\ N(tasks, Drop(x)) \in Nat /\ N(tasks, {Task("open", x)}) \in Nat
<1>1. Owns(th[p], x)' = RolesN(th'[p], x) + N(th'[p].todo, Drop(x))
    BY DEF Owns, RolesN, N, Where, Drop
<1>2. Title(th[p], x)' = Bit(th'[p].new = x) + N(th'[p].todo, {Task("open", x)})
    BY DEF Title, N, Where
<1>3. RolesN(th'[p], x) = 0 /\ Bit(th'[p].new = x) = 0
    BY SocksType DEF Leaves, RolesN, Bit
<1>4. th'[p].todo = tasks /\ th'[p].todo \in Seq(Tasks)
    BY DEF Leaves, TypeOK, Calls
<1>5. N(tasks, Drop(x)) \in Nat /\ N(tasks, {Task("open", x)}) \in Nat
    BY <1>4, WhereFinite
<1> QED BY <1>1, <1>2, <1>3, <1>4, <1>5

\* A call that goes on with other pointers.
LEMMA BecomesOwns ==
    ASSUME NEW p \in Threads, NEW l, NEW s, NEW r, NEW new, Becomes(p, l, s, r, new),
           l # "connectAdd", NEW x \in Socks
    PROVE  /\ Owns(th[p], x)' = Bit(s = x) + Bit(r = x) + 2 * Bit(new = x)
           /\ Title(th[p], x)' = Bit(new = x)
<1>1. Owns(th[p], x)' = RolesN(th'[p], x) + N(th'[p].todo, Drop(x))
    BY DEF Owns, RolesN, N, Where, Drop
<1>2. Title(th[p], x)' = Bit(th'[p].new = x) + N(th'[p].todo, {Task("open", x)})
    BY DEF Title, N, Where
<1>3. RolesN(th'[p], x) = Bit(s = x) + Bit(r = x) + 2 * Bit(new = x) /\ Bit(th'[p].new = x) = Bit(new = x)
    BY DEF Becomes, RolesN, Bit
<1>4. th'[p].todo = <<>>
    BY DEF Becomes
<1>5. N(th'[p].todo, Drop(x)) = 0 /\ N(th'[p].todo, {Task("open", x)}) = 0
    BY <1>4, WhereEmpty
<1>6. Bit(s = x) \in Nat /\ Bit(r = x) \in Nat /\ Bit(new = x) \in Nat
    BY DEF Bit
<1> QED BY <1>1, <1>2, <1>3, <1>5, <1>6

\* A call that stays has what it had, but for the reference of connectAdd.
LEMMA SameOwns ==
    ASSUME TypeOK, TypeOK', NEW p \in Threads, SameRefs(th[p], th'[p]), NEW x \in Socks
    PROVE  /\ Owns(th[p], x)' + Bit(th[p].pc = "connectAdd" /\ th[p].s = x)
                = Owns(th[p], x) + Bit(th'[p].pc = "connectAdd" /\ th[p].s = x)
           /\ Title(th[p], x)' = Title(th[p], x)
<1>1. Owns(th[p], x)' = RolesN(th'[p], x) + N(th'[p].todo, Drop(x))
    BY DEF Owns, RolesN, N, Where, Drop
<1>2. Title(th[p], x)' = Bit(th'[p].new = x) + N(th'[p].todo, {Task("open", x)})
    BY DEF Title, N, Where
<1>3. th'[p].todo = th[p].todo /\ th'[p].new = th[p].new /\ th'[p].s = th[p].s /\ th'[p].r = th[p].r
    BY DEF SameRefs
<1>4. N(th[p].todo, Drop(x)) \in Nat /\ N(th[p].todo, {Task("open", x)}) \in Nat
    BY OwnsType
<1>5. RolesN(th'[p], x) + Bit(th[p].pc = "connectAdd" /\ th[p].s = x)
        = RolesN(th[p], x) + Bit(th'[p].pc = "connectAdd" /\ th[p].s = x)
      /\ RolesN(th[p], x) \in Nat /\ RolesN(th'[p], x) \in Nat
    BY <1>3 DEF RolesN, Bit
<1>6. Bit(th'[p].pc = "connectAdd" /\ th[p].s = x) \in Nat /\ Bit(th[p].pc = "connectAdd" /\ th[p].s = x) \in Nat
    BY DEF Bit
<1>7. Title(th[p], x)' = Title(th[p], x)
    BY ONLY <1>2, <1>3, Zenon DEF Title
<1> DEFINE a == RolesN(th[p], x)
           a1 == RolesN(th'[p], x)
           k == N(th[p].todo, Drop(x))
           b == Bit(th[p].pc = "connectAdd" /\ th[p].s = x)
           b1 == Bit(th'[p].pc = "connectAdd" /\ th[p].s = x)
<1>8. Owns(th[p], x) = a + k /\ Owns(th[p], x)' = a1 + k
    BY ONLY <1>1, <1>3, Zenon DEF Owns
<1>9. a \in Nat /\ a1 \in Nat /\ k \in Nat /\ b \in Nat /\ b1 \in Nat /\ a1 + b = a + b1
    BY ONLY <1>4, <1>5, <1>6, Zenon
<1> HIDE DEF a, a1, k, b, b1
<1>10. (a1 + k) + b = (a + k) + b1
    BY ONLY <1>9
<1>11. Owns(th[p], x)' + b = Owns(th[p], x) + b1
    BY ONLY <1>8, <1>10, Zenon
<1> QED BY ONLY <1>7, <1>11, Zenon DEF b, b1

\* What a call owns in the kernel, and at the user.
LEMMA OwnsInCall ==
    ASSUME NEW c, c.todo = <<>>, NEW x
    PROVE  Owns(c, x) = RolesN(c, x) /\ Title(c, x) = Bit(c.new = x) /\ RolesN(c, x) \in Nat
<1>1. N(c.todo, Drop(x)) = 0 /\ N(c.todo, {Task("open", x)}) = 0
    BY WhereEmpty
<1>2. RolesN(c, x) \in Nat /\ Bit(c.new = x) \in Nat
    BY DEF RolesN, Bit
<1> QED BY <1>1, <1>2 DEF Owns, Title

\* A thread outside the library owns no reference.
LEMMA OwnsInUser ==
    ASSUME ShapeInv, NEW p \in Threads, At(p, "user"), NEW x \in Socks
    PROVE  Owns(th[p], x) = 0 /\ Title(th[p], x) = 0
<1>1. /\ th[p].s = NULL /\ th[p].r = NULL /\ th[p].new = NULL /\ th[p].todo = <<>>
      /\ th[p].pc = "user"
    BY DEF ShapeInv, Shape, At, OnSocket, OnRemote, OnNew, AcceptLocations, SetUpLocations
<1>2. RolesN(th[p], x) = 0 /\ Bit(th[p].new = x) = 0
    BY <1>1, SocksType DEF RolesN, Bit
<1> QED BY <1>1, <1>2, OwnsInCall

\* The head of the tasks and the others.
LEMMA OwnsInFinish ==
    ASSUME TypeOK, ShapeInv, NEW p \in Threads, At(p, "finish"), NEW x \in Socks
    PROVE  /\ Owns(th[p], x) = Bit(Head(th[p].todo) \in Drop(x)) + N(Tail(th[p].todo), Drop(x))
           /\ Title(th[p], x) = Bit(Head(th[p].todo) = Task("open", x))
                                + N(Tail(th[p].todo), {Task("open", x)})
           /\ N(Tail(th[p].todo), Drop(x)) \in Nat
           /\ N(Tail(th[p].todo), {Task("open", x)}) \in Nat
<1>1. /\ th[p].todo \in Seq(Tasks) /\ th[p].todo # <<>> /\ Tail(th[p].todo) \in Seq(Tasks)
      /\ th[p].s = NULL /\ th[p].r = NULL /\ th[p].new = NULL
    BY FinishType
<1>2. RolesN(th[p], x) = 0 /\ Bit(th[p].new = x) = 0
    BY <1>1, SocksType DEF RolesN, Bit
<1>3. N(th[p].todo, Drop(x)) = Bit(Head(th[p].todo) \in Drop(x)) + N(Tail(th[p].todo), Drop(x))
    BY <1>1, WhereTail DEF Bit
<1>4. N(th[p].todo, {Task("open", x)})
         = Bit(Head(th[p].todo) = Task("open", x)) + N(Tail(th[p].todo), {Task("open", x)})
    <2>1. N(th[p].todo, {Task("open", x)})
           = (IF Head(th[p].todo) \in {Task("open", x)} THEN 1 ELSE 0) + N(Tail(th[p].todo), {Task("open", x)})
        BY <1>1, WhereTail
    <2> QED BY <2>1 DEF Bit
<1>5. N(Tail(th[p].todo), Drop(x)) \in Nat /\ N(Tail(th[p].todo), {Task("open", x)}) \in Nat
    BY <1>1, WhereFinite
<1>6. Bit(Head(th[p].todo) \in Drop(x)) \in Nat /\ Bit(Head(th[p].todo) = Task("open", x)) \in Nat
    BY DEF Bit
<1> QED BY <1>2, <1>3, <1>4, <1>5, <1>6 DEF Owns, Title

-----------------------------------------------------------------------------
(* The account of references *)

\* What the count of x has to be: a structure that is not in the tree has no owner.
RefsOf(x) == IF IsLive(x) THEN sock[x].refs ELSE 0

\* The tree's reference, once the file is open.
Opened(x) == IF x \in open THEN 1 ELSE 0

AccountInv == \A x \in Socks : RefsOf(x) = Claims(x) + Linked(x) + Opened(x)

\* What a call is about to free is out of the tree already.
Gone(x) == sock[x].mem \in {"dying", "freed"}
FreeOnly(c) == \A i \in DOMAIN c.todo : c.todo[i].op = "free" => Gone(c.todo[i].s)
FreeInv == \A p \in Threads : FreeOnly(th[p])

\* Only a socket in the tree has a list.
EmptyInv == \A r \in Socks : ~IsLive(r) => sock[r].connecting = <<>>

\* The tree's reference has one owner.
TitleInv == \A x \in Socks : Titled(x) + Opened(x) <= 1

Accounts == AccountInv /\ FreeInv /\ EmptyInv /\ IdsInv /\ TitleInv

\* What is not in the tree is nowhere.
LEMMA NotLiveIs ==
    ASSUME IsFiniteSet(Threads), TypeOK, AccountInv, NEW x \in Socks, ~IsLive(x)
    PROVE  /\ Claims(x) = 0 /\ Linked(x) = 0 /\ x \notin open
           /\ \A p \in Threads : Owns(th[p], x) = 0
<1>1. Claims(x) \in Nat /\ Linked(x) \in Nat /\ RefsOf(x) = 0
    BY ClaimsType, LinkedType DEF RefsOf
<1>2. RefsOf(x) = Claims(x) + Linked(x) + Opened(x) /\ Opened(x) \in Nat
      /\ (x \in open => Opened(x) = 1)
    BY DEF AccountInv, Opened
<1> DEFINE a == Claims(x)
           b == Linked(x)
           o == Opened(x)
<1>5. a \in Nat /\ b \in Nat /\ o \in Nat /\ 0 = a + b + o /\ (x \in open => o = 1)
    BY ONLY <1>1, <1>2, Zenon
<1> HIDE DEF a, b, o
<1>6. a = 0 /\ b = 0 /\ o = 0
    BY ONLY <1>5
<1>3. Claims(x) = 0 /\ Linked(x) = 0 /\ x \notin open
    BY ONLY <1>5, <1>6 DEF a, b
<1>4. \A p \in Threads : Owns(th[p], x) <= Claims(x) /\ Owns(th[p], x) \in Nat
    BY ClaimsType, OwnsType
<1> QED BY <1>3, <1>4

\* What a call owns is in the tree: its count is not zero.
LEMMA OwnedIsLive ==
    ASSUME IsFiniteSet(Threads), TypeOK, AccountInv, NEW p \in Threads, NEW x \in Socks,
           Owns(th[p], x) > 0
    PROVE  IsLive(x)
BY NotLiveIs

\* What a call points at is in the tree, so that no call uses freed memory.
LEMMA PointedIsLive ==
    ASSUME IsFiniteSet(Threads), TypeOK, AccountInv, NEW p \in Threads, NEW x \in Socks,
           x \in {th[p].s, th[p].r, th[p].new}
    PROVE  IsLive(x)
<1>1. RolesN(th[p], x) > 0
    BY DEF RolesN, Bit
<1>2. N(th[p].todo, Drop(x)) \in Nat /\ RolesN(th[p], x) \in Nat
    BY OwnsType
<1> QED BY <1>1, <1>2, OwnedIsLive DEF Owns

\* After a step too, the lists hold x a number of times.
LEMMA LinkedTypeNext ==
    ASSUME TypeOK', NEW x PROVE Linked(x)' \in Nat
<1> DEFINE F == [r \in Socks |-> Positions(sock'[r].connecting, x)]
<1>1. \A r \in Socks : sock'[r].connecting \in Seq(Socks)
    BY DEF TypeOK, Sockets
<1>2. \A r \in Socks : IsFiniteSet(F[r])
    BY <1>1, PositionsCount
<1>3. Links(x)' = Pairs(Socks, F)
    BY DEF Links, Pairs
<1> HIDE DEF F
<1>4. Cardinality(Pairs(Socks, F)) \in Nat
    BY <1>2, PairsFinite, SocksFinite
<1>5. Linked(x)' = Cardinality(Links(x)')
    BY DEF Linked
<1> QED BY <1>3, <1>4, <1>5

\* The account of x balances after a step of p when the count changes by what p, the lists
\* and the open files own of it.
LEMMA AccountStep ==
    ASSUME IsFiniteSet(Threads), TypeOK, TypeOK', AccountInv, NEW p \in Threads, Others(p),
           NEW x \in Socks,
           RefsOf(x)' + Owns(th[p], x) + Linked(x) + Opened(x)
             = RefsOf(x) + Owns(th[p], x)' + Linked(x)' + Opened(x)'
    PROVE  RefsOf(x)' = Claims(x)' + Linked(x)' + Opened(x)'
<1>1. /\ Claims(x)' + Owns(th[p], x) = Claims(x) + Owns(th[p], x)'
      /\ Claims(x) \in Nat /\ Claims(x)' \in Nat
      /\ Owns(th[p], x) \in Nat /\ Owns(th[p], x)' \in Nat
    BY ClaimsChange
<1>2. RefsOf(x) = Claims(x) + Linked(x) + Opened(x)
    BY DEF AccountInv
<1>3. Linked(x) \in Nat /\ Linked(x)' \in Nat
    BY LinkedType, LinkedTypeNext
<1>4. Opened(x) \in Nat /\ Opened(x)' \in Nat
    BY DEF Opened
<1>5. RefsOf(x)' \in Nat /\ RefsOf(x) \in Nat
    BY DEF RefsOf, TypeOK, Sockets
<1>6. RefsOf(x)' + Owns(th[p], x) + Linked(x) + Opened(x)
        = RefsOf(x) + Owns(th[p], x)' + Linked(x)' + Opened(x)'
    OBVIOUS
<1> DEFINE c0 == Claims(x)
           c1 == Claims(x)'
           o0 == Owns(th[p], x)
           o1 == Owns(th[p], x)'
           l0 == Linked(x)
           l1 == Linked(x)'
           p0 == Opened(x)
           p1 == Opened(x)'
           r0 == RefsOf(x)
           r1 == RefsOf(x)'
<1>7. /\ c1 + o0 = c0 + o1 /\ c0 \in Nat /\ c1 \in Nat /\ o0 \in Nat /\ o1 \in Nat
      /\ r0 = c0 + l0 + p0 /\ l0 \in Nat /\ l1 \in Nat /\ p0 \in Nat /\ p1 \in Nat
      /\ r0 \in Nat /\ r1 \in Nat /\ r1 + o0 + l0 + p0 = r0 + o1 + l1 + p1
    BY ONLY <1>1, <1>2, <1>3, <1>4, <1>5, <1>6
<1> HIDE DEF c0, c1, o0, o1, l0, l1, p0, p1, r0, r1
<1>8. r1 = c1 + l1 + p1
    BY ONLY <1>7
<1> QED BY ONLY <1>8 DEF c1, l1, p1, r1

\* The file of x has one title after a step of p when p and the open files gain none
\* together.
LEMMA TitleStep ==
    ASSUME IsFiniteSet(Threads), TypeOK, TypeOK', TitleInv, NEW p \in Threads, Others(p),
           NEW x \in Socks,
           Title(th[p], x)' + Opened(x)' <= Title(th[p], x) + Opened(x)
    PROVE  Titled(x)' + Opened(x)' <= 1
<1>1. /\ Titled(x)' + Title(th[p], x) = Titled(x) + Title(th[p], x)'
      /\ Titled(x) \in Nat /\ Titled(x)' \in Nat
      /\ Title(th[p], x) \in Nat /\ Title(th[p], x)' \in Nat
    BY TitledChange
<1>2. Titled(x) + Opened(x) <= 1
    BY DEF TitleInv
<1>3. Opened(x) \in Nat /\ Opened(x)' \in Nat
    BY DEF Opened
<1> QED BY <1>1, <1>2, <1>3

\* A step of p keeps the accounts when it balances its own.
LEMMA Keeps ==
    ASSUME IsFiniteSet(Threads), TypeOK, TypeOK', Accounts, NEW p \in Threads, Others(p),
           \A x \in Socks :
              /\ RefsOf(x)' + Owns(th[p], x) + Linked(x) + Opened(x)
                   = RefsOf(x) + Owns(th[p], x)' + Linked(x)' + Opened(x)'
              /\ Title(th[p], x)' + Opened(x)' <= Title(th[p], x) + Opened(x)
              /\ sock'[x].id = sock[x].id
              /\ IsLive(x)' => IsLive(x)
              /\ ~IsLive(x)' => sock'[x].connecting = <<>>
              /\ Gone(x) => Gone(x)',
           FreeOnly(th[p])'
    PROVE  Accounts'
<1>1. AccountInv'
    BY AccountStep DEF Accounts, AccountInv
<1>2. TitleInv'
    BY TitleStep DEF Accounts, TitleInv
<1>3. EmptyInv'
    BY DEF EmptyInv
<1>4. IdsInv'
    BY DEF Accounts, IdsInv, Live, IsLive
<1>5. ASSUME NEW q \in Threads PROVE FreeOnly(th[q])'
    <2>1. CASE q = p
        BY <2>1
    <2>2. CASE q # p
        <3>1. FreeOnly(th[q]) /\ th'[q].todo = th[q].todo
            BY <2>2 DEF Accounts, FreeInv, Others, SameRefs
        <3>2. \A i \in DOMAIN th[q].todo : th[q].todo[i].s \in Socks
            <4>1. th[q].todo \in Seq(Tasks)
                BY OwnsType
            <4>2. \A t \in Tasks : t.s \in Socks
                BY DEF Tasks
            <4> HIDE DEF Tasks
            <4> QED BY ONLY <4>1, <4>2
        <3> QED BY <3>1, <3>2 DEF FreeOnly
    <2> QED BY <2>1, <2>2
<1>6. FreeInv'
    BY <1>5 DEF FreeInv
<1> QED BY <1>1, <1>2, <1>3, <1>4, <1>6 DEF Accounts

\* A step that changes one count, and no list.
LEMMA KeepsCounts ==
    ASSUME IsFiniteSet(Threads), TypeOK, TypeOK', Accounts, NEW p \in Threads, Others(p),
           FreeOnly(th[p])',
           \A x \in Socks :
              /\ sock'[x].mem = sock[x].mem /\ sock'[x].id = sock[x].id
              /\ sock'[x].connecting = sock[x].connecting
              /\ IsLive(x) => sock'[x].refs + Owns(th[p], x) + Opened(x)
                                = sock[x].refs + Owns(th[p], x)' + Opened(x)'
              /\ ~IsLive(x) => Owns(th[p], x)' = 0 /\ Opened(x)' = 0
              /\ Title(th[p], x)' + Opened(x)' <= Title(th[p], x) + Opened(x)
    PROVE  Accounts'
<1>1. ASSUME NEW x \in Socks
      PROVE  /\ RefsOf(x)' + Owns(th[p], x) + Linked(x) + Opened(x)
                  = RefsOf(x) + Owns(th[p], x)' + Linked(x)' + Opened(x)'
             /\ IsLive(x)' <=> IsLive(x)
             /\ ~IsLive(x)' => sock'[x].connecting = <<>>
             /\ Gone(x) => Gone(x)'
    <2>1. (IsLive(x)' <=> IsLive(x)) /\ (Gone(x) => Gone(x)') /\ sock'[x].connecting = sock[x].connecting
        BY DEF IsLive, Gone
    <2>2. ~IsLive(x)' => sock'[x].connecting = <<>>
        BY <2>1 DEF Accounts, EmptyInv
    <2>3. Linked(x)' = Linked(x) /\ Linked(x) \in Nat
        BY LinkedSame, LinkedType
    <2>4. Owns(th[p], x) \in Nat /\ Owns(th[p], x)' \in Nat
        BY ClaimsChange
    <2>5. Opened(x) \in Nat /\ Opened(x)' \in Nat
        BY DEF Opened
    <2>6. CASE IsLive(x)
        <3>1. RefsOf(x) = sock[x].refs /\ RefsOf(x)' = sock'[x].refs
            BY <2>1, <2>6 DEF RefsOf
        <3>2. sock[x].refs \in Nat /\ sock'[x].refs \in Nat
            BY DEF TypeOK, Sockets
        <3>3. sock'[x].refs + Owns(th[p], x) + Opened(x) = sock[x].refs + Owns(th[p], x)' + Opened(x)'
            BY <2>6
        <3> DEFINE o0 == Owns(th[p], x)
                   o1 == Owns(th[p], x)'
                   p0 == Opened(x)
                   p1 == Opened(x)'
                   l0 == Linked(x)
                   l1 == Linked(x)'
                   r0 == RefsOf(x)
                   r1 == RefsOf(x)'
        <3>4. /\ o0 \in Nat /\ o1 \in Nat /\ p0 \in Nat /\ p1 \in Nat /\ l0 \in Nat /\ l1 = l0
              /\ r0 \in Nat /\ r1 \in Nat /\ r1 + o0 + p0 = r0 + o1 + p1
            BY ONLY <2>3, <2>4, <2>5, <3>1, <3>2, <3>3
        <3> HIDE DEF o0, o1, p0, p1, l0, l1, r0, r1
        <3>5. r1 + o0 + l0 + p0 = r0 + o1 + l1 + p1
            BY ONLY <3>4
        <3> QED BY <2>1, <2>2, <3>5 DEF o0, o1, p0, p1, l0, l1, r0, r1
    <2>7. CASE ~IsLive(x)
        <3>1. RefsOf(x) = 0 /\ RefsOf(x)' = 0
            BY <2>1, <2>7 DEF RefsOf
        <3>2. Owns(th[p], x) = 0 /\ Linked(x) = 0 /\ Opened(x) = 0
            BY <2>7, NotLiveIs DEF Accounts, Opened
        <3>3. Owns(th[p], x)' = 0 /\ Opened(x)' = 0
            BY <2>7
        <3> QED BY <2>1, <2>2, <2>3, <3>1, <3>2, <3>3
    <2> QED BY <2>6, <2>7
<1> QED BY <1>1, Keeps

\* A call that goes on to drops frees only what is out of the tree, when the drops it is
\* given do.
LEMMA LeavesFree ==
    ASSUME NEW p \in Threads, NEW tasks, Leaves(p, tasks),
           \A i \in DOMAIN tasks :
              tasks[i].op = "free" => sock'[tasks[i].s].mem \in {"dying", "freed"}
    PROVE  FreeOnly(th[p])'
BY DEF Leaves, FreeOnly, Gone

\* A call with no drops to come frees nothing.
LEMMA NoTaskFree ==
    ASSUME NEW p \in Threads, th'[p].todo = <<>> PROVE FreeOnly(th[p])'
BY DEF FreeOnly

\* The dues of a call are what it has, and a call that looks has no more.
LEMMA DuesOwn ==
    ASSUME TypeOK, ShapeInv, NEW p \in Threads, GoesHome(p), NEW x \in Socks, TypeOK'
    PROVE  Owns(th[p], x)' = Owns(th[p], x) /\ Title(th[p], x)' = 0
<1>1. th[p].pc \in OnSocket \ (OnNew \cup {"connectAdd"}) /\ Leaves(p, Dues(th[p]))
    BY DEF GoesHome
<1>2. th[p].new = NULL /\ th[p].todo = <<>> /\ th[p].s \in Socks /\ th[p].r \in Socks \cup {NULL}
    BY <1>1, DuesType DEF ShapeInv, Shape, OnSocket, AcceptLocations, SetUpLocations
<1>3. /\ Owns(th[p], x)' = N(Dues(th[p]), Drop(x))
      /\ Title(th[p], x)' = N(Dues(th[p]), {Task("open", x)})
    BY <1>1, LeavesOwns
<1>4. Owns(th[p], x) = Bit(th[p].s = x) + Bit(th[p].r = x)
    <2>1. Owns(th[p], x) = RolesN(th[p], x)
        BY <1>2, OwnsInCall
    <2> QED BY <1>1, <1>2, <2>1, SocksType DEF RolesN, Bit
<1> DEFINE s == th[p].s
           r == th[p].r
<1>5. CASE r = NULL
    <2>1. Dues(th[p]) = <<Task("put", s)>>
        BY <1>5 DEF Dues
    <2>2. Task("put", s) \in Drop(x) <=> s = x
        BY <1>2, TaskIn
    <2>3. Task("put", s) \notin {Task("open", x)}
        BY <1>2, TaskIn
    <2>4. N(<<Task("put", s)>>, Drop(x)) = (IF s = x THEN 1 ELSE 0)
        BY <2>2, WhereOne
    <2>5. N(<<Task("put", s)>>, {Task("open", x)}) = 0
        BY <2>3, WhereOne
    <2> QED BY <1>2, <1>3, <1>4, <1>5, <2>1, <2>4, <2>5, SocksType DEF Bit
<1>6. CASE r # NULL
    <2>1. Dues(th[p]) = <<Task("put", r), Task("put", s)>>
        BY <1>6 DEF Dues
    <2>2. (Task("put", s) \in Drop(x) <=> s = x) /\ (Task("put", r) \in Drop(x) <=> r = x)
        BY <1>2, <1>6, TaskIn
    <2>3. Task("put", s) \notin {Task("open", x)} /\ Task("put", r) \notin {Task("open", x)}
        BY <1>2, <1>6, TaskIn
    <2>4. N(<<Task("put", r), Task("put", s)>>, Drop(x)) = Bit(r = x) + Bit(s = x)
        BY <2>2, NTwo DEF Bit
    <2>5. N(<<Task("put", r), Task("put", s)>>, {Task("open", x)}) = 0
        BY <2>3, NTwo DEF Bit
    <2> QED BY <1>3, <1>4, <2>1, <2>4, <2>5 DEF Bit
<1> QED BY <1>5, <1>6

\* The drops of a returning call free nothing themselves.
LEMMA DuesFree ==
    ASSUME NEW p \in Threads, Leaves(p, Dues(th[p])) PROVE FreeOnly(th[p])'
<1>1. \A i \in DOMAIN Dues(th[p]) : Dues(th[p])[i].op # "free"
    BY DEF Dues, Task
<1> QED BY <1>1, LeavesFree

\* A step that looks keeps the account.
LEMMA QuietKeeps ==
    ASSUME IsFiniteSet(Threads), TypeOK, ShapeInv, TypeOK', ShapeInv', Accounts,
           NEW p \in Threads, Quiet(p)
    PROVE  Accounts'
<1>1. /\ Others(p) /\ open' = open
      /\ \A x \in Socks : /\ sock'[x].mem = sock[x].mem /\ sock'[x].id = sock[x].id
                          /\ sock'[x].refs = sock[x].refs
                          /\ sock'[x].connecting = sock[x].connecting
    BY DEF Quiet, SameSocks
<1>2. /\ \A x \in Socks : Owns(th[p], x)' = Owns(th[p], x) /\ Title(th[p], x)' <= Title(th[p], x)
      /\ FreeOnly(th[p])'
    <2>1. CASE GoesOn(p)
        <3>1. SameRefs(th[p], th'[p]) /\ th[p].pc # "connectAdd" /\ th'[p].pc # "connectAdd"
              /\ th[p].pc \in OnSocket
            BY <2>1 DEF GoesOn, SameKind
        <3>2. \A x \in Socks :
                /\ Owns(th[p], x) \in Nat /\ Owns(th[p], x)' \in Nat
                /\ Owns(th[p], x)' + 0 = Owns(th[p], x) + 0
                /\ Title(th[p], x)' = Title(th[p], x) /\ Title(th[p], x) \in Nat
            BY <1>1, <3>1, SameOwns, OwnsType, ClaimsChange, ZenonT(60) DEF Bit
        <3>3. th'[p].todo = <<>>
            BY <3>1 DEF ShapeInv, Shape, SameRefs, OnSocket, AcceptLocations, SetUpLocations
        <3> QED BY <3>2, <3>3, NoTaskFree
    <2>2. CASE GoesHome(p)
        <3>1. \A x \in Socks : Title(th[p], x) \in Nat
            BY OwnsType
        <3> QED BY <2>2, <3>1, DuesOwn, DuesFree DEF GoesHome
    <2> QED BY <2>1, <2>2 DEF Quiet
<1>3. \A x \in Socks : Opened(x)' = Opened(x) /\ Opened(x) \in Nat
    BY <1>1 DEF Opened
<1>4. \A x \in Socks : ~IsLive(x) => Owns(th[p], x) = 0 /\ Opened(x) = 0
    BY NotLiveIs DEF Accounts, Opened
<1>5. \A x \in Socks : /\ Owns(th[p], x) \in Nat /\ Title(th[p], x) \in Nat
                       /\ Title(th[p], x)' \in Nat
    BY <1>1, OwnsType, TitledChange
<1>6. \A x \in Socks : Title(th[p], x)' + Opened(x)' <= Title(th[p], x) + Opened(x)
    BY <1>2, <1>3, <1>5
<1>7. \A x \in Socks : sock'[x].refs + Owns(th[p], x) + Opened(x)
                         = sock[x].refs + Owns(th[p], x)' + Opened(x)'
    BY <1>1, <1>2, <1>3
<1>8. \A x \in Socks : ~IsLive(x) => Owns(th[p], x)' = 0 /\ Opened(x)' = 0
    BY <1>2, <1>3, <1>4
<1> QED BY ONLY IsFiniteSet(Threads), TypeOK, TypeOK', Accounts, <1>1, <1>2, <1>6, <1>7, <1>8, KeepsCounts

\* Where no call owns a reference to x, none has a title to its file.
LEMMA TitleUnderOwns ==
    ASSUME IsFiniteSet(Threads), TypeOK, NEW x \in Socks, \A p \in Threads : Owns(th[p], x) = 0
    PROVE  Titled(x) = 0
<1> DEFINE F == [p \in Threads |-> TitlesOf(th[p], x)]
<1>1. Titles(x) = Pairs(Threads, F)
    BY DEF Titles, Pairs
<1>2. ASSUME NEW p \in Threads PROVE IsFiniteSet(F[p]) /\ F[p] = {}
    <2>1. th[p].todo \in Seq(Tasks) /\ RolesN(th[p], x) \in Nat /\ N(th[p].todo, Drop(x)) \in Nat
        BY OwnsType
    <2>2. RolesN(th[p], x) = 0 /\ N(th[p].todo, Drop(x)) = 0
        BY <2>1 DEF Owns
    <2>3. th[p].new # x
        BY <2>2 DEF RolesN, Bit
    <2>4. \A i \in DOMAIN th[p].todo : th[p].todo[i] \notin Drop(x)
        BY <2>1, <2>2, WhereNone
    <2>5. Task("open", x) \in Drop(x)
        BY TaskIn
    <2>6. TitlesOf(th[p], x) = {}
        BY <2>1, <2>3, <2>4, <2>5 DEF TitlesOf
    <2> QED BY <2>6, FS_EmptySet
<1> HIDE DEF F
<1>3. Cardinality(Pairs(Threads, F)) = 0
    BY <1>2, PairsZero
<1> QED BY <1>1, <1>3 DEF Titled

\* A new structure belongs to the call that allocates it.
LEMMA AllocKeeps ==
    ASSUME IsFiniteSet(Threads), TypeOK, TypeOK', Accounts, NEW p \in Threads, Others(p),
           NEW f \in Socks, NEW i \in Ids, Allocates(f, i), open' = open, FreeOnly(th[p])',
           \A x \in Socks \ {f} :
              Owns(th[p], x)' = Owns(th[p], x) /\ Title(th[p], x)' <= Title(th[p], x),
           Owns(th[p], f)' = 2, Title(th[p], f)' <= 1
    PROVE  Accounts'
<1>1. /\ sock[f].mem = "unused" /\ FreeId(i)
      /\ sock'[f].mem = "live" /\ sock'[f].id = i /\ sock'[f].refs = 2 /\ sock'[f].connecting = <<>>
      /\ \A x \in Socks \ {f} :
           /\ sock'[x].mem = sock[x].mem /\ sock'[x].id = sock[x].id
           /\ sock'[x].refs = sock[x].refs /\ sock'[x].connecting = sock[x].connecting
    BY DEF Allocates
<1>2. ~IsLive(f) /\ IsLive(f)' /\ \A x \in Socks \ {f} : IsLive(x)' <=> IsLive(x)
    BY <1>1 DEF IsLive
<1>3. /\ Linked(f) = 0 /\ f \notin open /\ \A q \in Threads : Owns(th[q], f) = 0
    BY <1>2, NotLiveIs DEF Accounts
<1>4. sock[f].connecting = <<>>
    BY <1>2 DEF Accounts, EmptyInv
<1>5. \A x \in Socks : Linked(x)' = Linked(x) /\ Linked(x) \in Nat
    BY <1>1, <1>4, LinkedSame, LinkedType
<1>6. \A x \in Socks : Opened(x)' = Opened(x) /\ Opened(x) \in Nat
    BY DEF Opened
<1>7. \A x \in Socks : Owns(th[p], x) \in Nat /\ RefsOf(x) \in Nat /\ RefsOf(x)' \in Nat
    BY OwnsType DEF RefsOf, TypeOK, Sockets
<1>8. AccountInv'
    <2>1. ASSUME NEW x \in Socks PROVE RefsOf(x)' = Claims(x)' + Linked(x)' + Opened(x)'
        <3>1. RefsOf(x)' + Owns(th[p], x) + Linked(x) + Opened(x)
                = RefsOf(x) + Owns(th[p], x)' + Linked(x)' + Opened(x)'
            <4>1. CASE x = f
                <5>1. RefsOf(f) = 0 /\ RefsOf(f)' = 2
                    BY <1>1, <1>2 DEF RefsOf
                <5>2. Owns(th[p], f) = 0 /\ Owns(th[p], f)' = 2 /\ Linked(f) = 0 /\ Linked(f)' = 0
                    BY <1>3, <1>5
                <5> QED BY <1>6, <4>1, <5>1, <5>2
            <4>2. CASE x # f
                <5>1. RefsOf(x)' = RefsOf(x) /\ Owns(th[p], x)' = Owns(th[p], x)
                    BY <1>1, <1>2, <4>2 DEF RefsOf
                <5> QED BY <1>5, <1>6, <1>7, <5>1
            <4> QED BY <4>1, <4>2
        <3> QED BY <3>1, AccountStep DEF Accounts
    <2> QED BY <2>1 DEF AccountInv
<1>9. TitleInv'
    <2>1. ASSUME NEW x \in Socks PROVE Titled(x)' + Opened(x)' <= 1
        <3>1. CASE x = f
            <4>1. Titled(f) = 0
                BY <1>3, TitleUnderOwns
            <4>2. /\ Titled(f)' + Title(th[p], f) = Titled(f) + Title(th[p], f)'
                  /\ Titled(f)' \in Nat /\ Title(th[p], f) \in Nat /\ Title(th[p], f)' \in Nat
                BY TitledChange
            <4>3. Opened(f) = 0 /\ Opened(f)' = 0
                BY <1>3 DEF Opened
            <4> QED BY <3>1, <4>1, <4>2, <4>3
        <3>2. CASE x # f
            <4>1. Title(th[p], x)' <= Title(th[p], x) /\ Title(th[p], x)' \in Nat /\ Title(th[p], x) \in Nat
                BY <3>2, TitledChange
            <4>2. Title(th[p], x)' + Opened(x)' <= Title(th[p], x) + Opened(x)
                BY <1>6, <4>1
            <4> QED BY <4>2, TitleStep DEF Accounts
        <3> QED BY <3>1, <3>2
    <2> QED BY <2>1 DEF TitleInv
<1>10. EmptyInv'
    BY <1>1, <1>2 DEF Accounts, EmptyInv
<1>11. IdsInv'
    <2>1. \A s \in Socks \ {f} : IsLive(s) => sock[s].id # i
        BY <1>1 DEF FreeId, Found, Live, IsLive
    <2> QED BY <1>1, <1>2, <2>1 DEF Accounts, IdsInv, Live, IsLive
<1>12. ASSUME NEW q \in Threads PROVE FreeOnly(th[q])'
    <2>1. CASE q = p
        BY <2>1
    <2>2. CASE q # p
        <3>1. FreeOnly(th[q]) /\ th'[q].todo = th[q].todo
            BY <2>2 DEF Accounts, FreeInv, Others, SameRefs
        <3>2. \A j \in DOMAIN th[q].todo : th[q].todo[j].s \in Socks
            <4>1. th[q].todo \in Seq(Tasks)
                BY OwnsType
            <4>2. \A t \in Tasks : t.s \in Socks
                BY DEF Tasks
            <4> HIDE DEF Tasks
            <4> QED BY ONLY <4>1, <4>2
        <3>3. \A x \in Socks : Gone(x) => Gone(x)'
            BY <1>1 DEF Gone
        <3> QED BY <3>1, <3>2, <3>3 DEF FreeOnly
    <2> QED BY <2>1, <2>2
<1>13. FreeInv'
    BY <1>12 DEF FreeInv
<1> QED BY <1>8, <1>9, <1>10, <1>11, <1>13 DEF Accounts

\* The account balances after unix_socket.
LEMMA SocketKeeps ==
    ASSUME IsFiniteSet(Threads), TypeOK, ShapeInv, TypeOK', Accounts,
           NEW p \in Threads, unix_socket(p)
    PROVE  Accounts'
<1>1. PICK f \in Socks, i \in Ids :
         Allocates(f, i) /\ Leaves(p, <<Task("put", f), Task("open", f)>>)
    BY SocketIs
<1>2. At(p, "user") /\ open' = open /\ Others(p)
    BY SocketIs
<1>3. \A x \in Socks : Owns(th[p], x) = 0 /\ Title(th[p], x) = 0
    BY <1>2, OwnsInUser
<1>4. ASSUME NEW x \in Socks
      PROVE  Owns(th[p], x)' = 2 * Bit(x = f) /\ Title(th[p], x)' = Bit(x = f)
    <2>1. /\ Owns(th[p], x)' = N(<<Task("put", f), Task("open", f)>>, Drop(x))
          /\ Title(th[p], x)' = N(<<Task("put", f), Task("open", f)>>, {Task("open", x)})
        BY <1>1, LeavesOwns
    <2>2. /\ N(<<Task("put", f), Task("open", f)>>, Drop(x))
                = Bit(Task("put", f) \in Drop(x)) + Bit(Task("open", f) \in Drop(x))
          /\ N(<<Task("put", f), Task("open", f)>>, {Task("open", x)})
                = Bit(Task("put", f) \in {Task("open", x)}) + Bit(Task("open", f) \in {Task("open", x)})
        BY NTwo
    <2>3. /\ Task("put", f) \in Drop(x) <=> f = x
          /\ Task("open", f) \in Drop(x) <=> f = x
          /\ Task("open", f) \in {Task("open", x)} <=> f = x
          /\ Task("put", f) \notin {Task("open", x)}
        BY TaskIn
    <2> QED BY <2>1, <2>2, <2>3 DEF Bit
<1>5. FreeOnly(th[p])'
    <2>1. \A j \in DOMAIN <<Task("put", f), Task("open", f)>> :
             <<Task("put", f), Task("open", f)>>[j].op # "free"
        BY DEF Task
    <2> QED BY <1>1, <2>1, LeavesFree
<1>6. /\ \A x \in Socks \ {f} : Owns(th[p], x)' = 0 /\ Title(th[p], x)' = 0
      /\ Owns(th[p], f)' = 2 /\ Title(th[p], f)' = 1
    BY <1>4 DEF Bit
<1>7. /\ \A x \in Socks \ {f} : Owns(th[p], x)' = Owns(th[p], x) /\ Title(th[p], x)' <= Title(th[p], x)
      /\ Owns(th[p], f)' = 2 /\ Title(th[p], f)' <= 1
    BY <1>3, <1>6
<1> QED BY ONLY IsFiniteSet(Threads), TypeOK, TypeOK', Accounts, <1>1, <1>2, <1>5, <1>7, AllocKeeps

\* The account balances after the first half of unix_socketpair.
LEMMA SocketpairKeeps ==
    ASSUME IsFiniteSet(Threads), TypeOK, ShapeInv, TypeOK', Accounts,
           NEW p \in Threads, unix_socketpair(p)
    PROVE  Accounts'
<1>1. PICK f \in Socks, i \in Ids : Allocates(f, i) /\ Becomes(p, "pair", NULL, NULL, f)
    BY SocketpairIs
<1>2. At(p, "user") /\ open' = open /\ Others(p)
    BY SocketpairIs
<1>3. \A x \in Socks : Owns(th[p], x) = 0 /\ Title(th[p], x) = 0
    BY <1>2, OwnsInUser
<1>4. \A x \in Socks : /\ Owns(th[p], x)' = Bit(NULL = x) + Bit(NULL = x) + 2 * Bit(f = x)
                       /\ Title(th[p], x)' = Bit(f = x)
    BY <1>1, BecomesOwns
<1>5. FreeOnly(th[p])'
    BY <1>1, NoTaskFree DEF Becomes
<1>6. /\ \A x \in Socks \ {f} : Owns(th[p], x)' = Owns(th[p], x) /\ Title(th[p], x)' <= Title(th[p], x)
      /\ Owns(th[p], f)' = 2 /\ Title(th[p], f)' <= 1
    BY <1>3, <1>4, SocksType DEF Bit
<1> QED BY ONLY IsFiniteSet(Threads), TypeOK, TypeOK', Accounts, <1>1, <1>2, <1>5, <1>6, AllocKeeps

\* The account balances after unix_accept's allocation.
LEMMA AcceptAllocKeeps ==
    ASSUME IsFiniteSet(Threads), TypeOK, ShapeInv, TypeOK', Accounts,
           NEW p \in Threads, AcceptAlloc(p)
    PROVE  Accounts'
<1> DEFINE s == th[p].s
<1>1. PICK f \in Socks, i \in Ids :
         /\ Allocates(f, i)
         /\ \/ Becomes(p, "acceptLoop", s, NULL, f)
            \/ Leaves(p, <<Task("put", f), Task("put", f), Task("put", s)>>)
    BY AcceptAllocIs
<1>2. th[p].pc = "acceptAlloc" /\ open' = open /\ Others(p) /\ s \in Socks
    BY AcceptAllocIs DEF At
<1>3. s # f
    <2>1. IsLive(s) /\ ~IsLive(f)
        BY <1>1, <1>2, PointedIsLive DEF Accounts, Allocates, IsLive
    <2> QED BY <2>1
<1>4. th[p].r = NULL /\ th[p].new = NULL /\ th[p].todo = <<>>
    BY <1>2 DEF ShapeInv, Shape, OnRemote, OnNew
<1>5. \A x \in Socks : Owns(th[p], x) = Bit(s = x) /\ Title(th[p], x) = 0
    <2>1. \A x \in Socks : Owns(th[p], x) = RolesN(th[p], x) /\ Title(th[p], x) = Bit(th[p].new = x)
        BY <1>4, OwnsInCall
    <2> QED BY <1>2, <1>4, <2>1, SocksType DEF RolesN, Bit
<1>6. /\ \A x \in Socks : Owns(th[p], x)' = Bit(s = x) + 2 * Bit(f = x) /\ Title(th[p], x)' <= Bit(f = x)
      /\ FreeOnly(th[p])'
    <2>1. CASE Becomes(p, "acceptLoop", s, NULL, f)
        <3>1. \A x \in Socks : /\ Owns(th[p], x)' = Bit(s = x) + Bit(NULL = x) + 2 * Bit(f = x)
                               /\ Title(th[p], x)' = Bit(f = x)
            BY <2>1, BecomesOwns
        <3>2. FreeOnly(th[p])'
            BY <2>1, NoTaskFree DEF Becomes
        <3> QED BY <3>1, <3>2, SocksType DEF Bit
    <2>2. CASE Leaves(p, <<Task("put", f), Task("put", f), Task("put", s)>>)
        <3> DEFINE t == <<Task("put", f), Task("put", f), Task("put", s)>>
        <3>1. ASSUME NEW x \in Socks
              PROVE  Owns(th[p], x)' = Bit(s = x) + 2 * Bit(f = x) /\ Title(th[p], x)' = 0
            <4>1. Owns(th[p], x)' = N(t, Drop(x)) /\ Title(th[p], x)' = N(t, {Task("open", x)})
                <5> HIDE DEF t
                <5> QED BY <2>2, LeavesOwns DEF t
            <4>2. /\ N(t, Drop(x)) = Bit(Task("put", f) \in Drop(x)) + Bit(Task("put", f) \in Drop(x))
                                     + Bit(Task("put", s) \in Drop(x))
                  /\ N(t, {Task("open", x)}) = Bit(Task("put", f) \in {Task("open", x)})
                       + Bit(Task("put", f) \in {Task("open", x)}) + Bit(Task("put", s) \in {Task("open", x)})
                BY NThree
            <4>3. /\ Task("put", f) \in Drop(x) <=> f = x
                  /\ Task("put", s) \in Drop(x) <=> s = x
                  /\ Task("put", s) \notin {Task("open", x)}
                  /\ Task("put", f) \notin {Task("open", x)}
                BY <1>2, TaskIn
            <4> QED BY <4>1, <4>2, <4>3 DEF Bit
        <3>2. \A j \in DOMAIN t : t[j].op # "free"
            BY DEF Task
        <3>3. FreeOnly(th[p])'
            BY <2>2, <3>2, LeavesFree
        <3> QED BY <3>1, <3>3 DEF Bit
    <2> QED BY <1>1, <2>1, <2>2
<1>7. /\ \A x \in Socks \ {f} : Owns(th[p], x)' = Owns(th[p], x) /\ Title(th[p], x)' <= Title(th[p], x)
      /\ Owns(th[p], f)' = 2 /\ Title(th[p], f)' <= 1
    BY <1>3, <1>5, <1>6 DEF Bit
<1> QED BY ONLY IsFiniteSet(Threads), TypeOK, TypeOK', Accounts, <1>1, <1>2, <1>6, <1>7, AllocKeeps

\* What two drops give up.
LEMMA TwoPuts ==
    ASSUME NEW a \in Socks, NEW b \in Socks, NEW x \in Socks
    PROVE  /\ N(<<Task("put", a), Task("put", b)>>, Drop(x)) = Bit(a = x) + Bit(b = x)
           /\ N(<<Task("put", a), Task("put", b)>>, {Task("open", x)}) = 0
<1>1. /\ Task("put", a) \in Drop(x) <=> a = x
      /\ Task("put", b) \in Drop(x) <=> b = x
      /\ Task("put", a) \notin {Task("open", x)} /\ Task("put", b) \notin {Task("open", x)}
    BY TaskIn
<1>2. /\ N(<<Task("put", a), Task("put", b)>>, Drop(x))
           = Bit(Task("put", a) \in Drop(x)) + Bit(Task("put", b) \in Drop(x))
      /\ N(<<Task("put", a), Task("put", b)>>, {Task("open", x)})
           = Bit(Task("put", a) \in {Task("open", x)}) + Bit(Task("put", b) \in {Task("open", x)})
    BY NTwo
<1> QED BY <1>1, <1>2 DEF Bit

\* The account balances after unix_socketpair out of memory.
LEMMA PairFailsKeeps ==
    ASSUME IsFiniteSet(Threads), TypeOK, ShapeInv, TypeOK', Accounts,
           NEW p \in Threads, PairFails(p)
    PROVE  Accounts'
<1> DEFINE n == th[p].new
           t == <<Task("put", n), Task("put", n)>>
<1>1. th[p].pc = "pair" /\ UNCHANGED <<sock, open, path>> /\ Others(p) /\ Leaves(p, t)
    BY PairFailsIs DEF At
<1>2. n \in Socks /\ th[p].s = NULL /\ th[p].r = NULL /\ th[p].todo = <<>>
    BY <1>1, ZenonT(60) DEF TypeOK, Calls, ShapeInv, Shape, OnSocket, OnRemote, OnNew,
       AcceptLocations, SetUpLocations
<1>3. \A x \in Socks : Owns(th[p], x) = 2 * Bit(n = x) /\ Title(th[p], x) = Bit(n = x)
    <2>1. \A x \in Socks : Owns(th[p], x) = RolesN(th[p], x) /\ Title(th[p], x) = Bit(n = x)
        BY <1>2, OwnsInCall
    <2> QED BY <1>1, <1>2, <2>1, SocksType DEF RolesN, Bit
<1>4. ASSUME NEW x \in Socks PROVE Owns(th[p], x)' = 2 * Bit(n = x) /\ Title(th[p], x)' = 0
    <2>1. Owns(th[p], x)' = N(t, Drop(x)) /\ Title(th[p], x)' = N(t, {Task("open", x)})
        <3> HIDE DEF t
        <3> QED BY <1>1, LeavesOwns
    <2>2. N(t, Drop(x)) = Bit(n = x) + Bit(n = x) /\ N(t, {Task("open", x)}) = 0
        <3>1. n \in Socks
            BY <1>2
        <3> HIDE DEF n
        <3> QED BY <3>1, TwoPuts
    <2>3. Bit(n = x) + Bit(n = x) = 2 * Bit(n = x)
        BY DEF Bit
    <2> HIDE DEF t, n
    <2> QED BY ONLY <2>1, <2>2, <2>3
<1>5. FreeOnly(th[p])'
    <2>1. \A j \in DOMAIN t : t[j].op # "free"
        BY DEF Task
    <2> QED BY <1>1, <2>1, LeavesFree
<1>6. \A x \in Socks : Opened(x)' = Opened(x) /\ Opened(x) \in Nat
    BY <1>1 DEF Opened
<1>7. \A x \in Socks : ~IsLive(x) => Owns(th[p], x) = 0 /\ Opened(x) = 0
    BY NotLiveIs DEF Accounts, Opened
<1>8. \A x \in Socks :
        /\ sock'[x].mem = sock[x].mem /\ sock'[x].id = sock[x].id
        /\ sock'[x].connecting = sock[x].connecting
        /\ IsLive(x) => sock'[x].refs + Owns(th[p], x) + Opened(x)
                          = sock[x].refs + Owns(th[p], x)' + Opened(x)'
        /\ ~IsLive(x) => Owns(th[p], x)' = 0 /\ Opened(x)' = 0
        /\ Title(th[p], x)' + Opened(x)' <= Title(th[p], x) + Opened(x)
    BY <1>1, <1>3, <1>4, <1>6, <1>7 DEF Bit
<1> QED BY ONLY IsFiniteSet(Threads), TypeOK, TypeOK', Accounts, <1>1, <1>5, <1>8, KeepsCounts

\* The account balances after the second half of unix_socketpair.
LEMMA PairSecondKeeps ==
    ASSUME IsFiniteSet(Threads), TypeOK, ShapeInv, TypeOK', Accounts,
           NEW p \in Threads, PairSecond(p)
    PROVE  Accounts'
<1> DEFINE n == th[p].new
<1>1. th[p].pc = "pair" /\ open' = open /\ Others(p)
    BY PairSecondIs DEF At
<1>2. n \in Socks /\ th[p].s = NULL /\ th[p].r = NULL /\ th[p].todo = <<>>
    BY <1>1, ZenonT(60) DEF TypeOK, Calls, ShapeInv, Shape, OnSocket, OnRemote, OnNew,
       AcceptLocations, SetUpLocations
<1>3. IsLive(n)
    BY <1>2, PointedIsLive DEF Accounts
<1>4. PICK f \in Socks, i \in Ids :
         /\ Allocates(f, i)
         /\ \/ Leaves(p, <<Task("put", f), Task("put", n), Task("open", n), Task("open", f)>>)
            \/ Leaves(p, <<Task("put", f), Task("put", f), Task("put", n), Task("put", n)>>)
    BY <1>3, PairSecondIs
<1>5. n # f
    <2>1. ~IsLive(f)
        BY <1>4 DEF Allocates, IsLive
    <2> QED BY <1>3, <2>1
<1>6. \A x \in Socks : Owns(th[p], x) = 2 * Bit(n = x) /\ Title(th[p], x) = Bit(n = x)
    <2>1. \A x \in Socks : Owns(th[p], x) = RolesN(th[p], x) /\ Title(th[p], x) = Bit(n = x)
        BY <1>2, OwnsInCall
    <2> QED BY <1>1, <1>2, <2>1, SocksType DEF RolesN, Bit
<1>7. /\ \A x \in Socks : /\ Owns(th[p], x)' = 2 * Bit(n = x) + 2 * Bit(f = x)
                          /\ Title(th[p], x)' <= Bit(n = x) + Bit(f = x)
      /\ FreeOnly(th[p])'
    <2>0. ASSUME NEW x \in Socks
          PROVE  /\ Task("put", f) \in Drop(x) <=> f = x
                 /\ Task("put", n) \in Drop(x) <=> n = x
                 /\ Task("open", f) \in Drop(x) <=> f = x
                 /\ Task("open", n) \in Drop(x) <=> n = x
                 /\ Task("put", f) \notin {Task("open", x)} /\ Task("put", n) \notin {Task("open", x)}
                 /\ Task("open", f) \in {Task("open", x)} <=> f = x
                 /\ Task("open", n) \in {Task("open", x)} <=> n = x
        BY <1>2, TaskIn
    <2>1. CASE Leaves(p, <<Task("put", f), Task("put", n), Task("open", n), Task("open", f)>>)
        <3> DEFINE a == Task("put", f)
                   b == Task("put", n)
                   c == Task("open", n)
                   d == Task("open", f)
                   t == <<a, b, c, d>>
        <3>1. ASSUME NEW x \in Socks
              PROVE  /\ Owns(th[p], x)' = 2 * Bit(n = x) + 2 * Bit(f = x)
                     /\ Title(th[p], x)' = Bit(n = x) + Bit(f = x)
            <4>1. Owns(th[p], x)' = N(t, Drop(x)) /\ Title(th[p], x)' = N(t, {Task("open", x)})
                <5> HIDE DEF t
                <5> QED BY <2>1, LeavesOwns DEF t
            <4>2. /\ N(t, Drop(x)) = Bit(a \in Drop(x)) + Bit(b \in Drop(x)) + Bit(c \in Drop(x)) + Bit(d \in Drop(x))
                  /\ N(t, {Task("open", x)}) = Bit(a \in {Task("open", x)}) + Bit(b \in {Task("open", x)})
                                               + Bit(c \in {Task("open", x)}) + Bit(d \in {Task("open", x)})
                <5> HIDE DEF a, b, c, d
                <5> QED BY NFour
            <4> QED BY <2>0, <4>1, <4>2 DEF Bit
        <3>2. \A j \in DOMAIN t : t[j].op # "free"
            BY DEF Task
        <3>3. FreeOnly(th[p])'
            BY <2>1, <3>2, LeavesFree
        <3> QED BY <3>1, <3>3 DEF Bit
    <2>2. CASE Leaves(p, <<Task("put", f), Task("put", f), Task("put", n), Task("put", n)>>)
        <3> DEFINE a == Task("put", f)
                   b == Task("put", n)
                   t == <<a, a, b, b>>
        <3>1. ASSUME NEW x \in Socks
              PROVE  /\ Owns(th[p], x)' = 2 * Bit(n = x) + 2 * Bit(f = x)
                     /\ Title(th[p], x)' = 0
            <4>1. Owns(th[p], x)' = N(t, Drop(x)) /\ Title(th[p], x)' = N(t, {Task("open", x)})
                <5> HIDE DEF t
                <5> QED BY <2>2, LeavesOwns DEF t
            <4>2. /\ N(t, Drop(x)) = Bit(a \in Drop(x)) + Bit(a \in Drop(x)) + Bit(b \in Drop(x)) + Bit(b \in Drop(x))
                  /\ N(t, {Task("open", x)}) = Bit(a \in {Task("open", x)}) + Bit(a \in {Task("open", x)})
                                               + Bit(b \in {Task("open", x)}) + Bit(b \in {Task("open", x)})
                <5> HIDE DEF a, b
                <5> QED BY NFour
            <4> QED BY <2>0, <4>1, <4>2 DEF Bit
        <3>2. \A j \in DOMAIN t : t[j].op # "free"
            BY DEF Task
        <3>3. FreeOnly(th[p])'
            BY <2>2, <3>2, LeavesFree
        <3> QED BY <3>1, <3>3 DEF Bit
    <2> QED BY <1>4, <2>1, <2>2
<1>8. /\ \A x \in Socks \ {f} : Owns(th[p], x)' = Owns(th[p], x) /\ Title(th[p], x)' <= Title(th[p], x)
      /\ Owns(th[p], f)' = 2 /\ Title(th[p], f)' <= 1
    BY <1>5, <1>6, <1>7 DEF Bit
<1> QED BY ONLY IsFiniteSet(Threads), TypeOK, TypeOK', Accounts, <1>1, <1>4, <1>7, <1>8, AllocKeeps

\* unixsock_get finds only what is in the tree.
LEMMA FoundLive == \A i : \A s \in Found(i) : s \in Socks /\ IsLive(s) /\ sock[s].id = i
BY DEF Found, Live, IsLive

\* The account balances after a call that enters with its reference.
LEMMA EnterKeeps ==
    ASSUME IsFiniteSet(Threads), TypeOK, ShapeInv, TypeOK', Accounts, NEW p \in Threads,
           NEW f \in open, NEW l \in {"bind", "accept", "listen", "connect"}, Enter(p, f, l)
    PROVE  Accounts'
<1>1. PICK s \in Found(sock[f].id) : Counts(s, sock[s].refs + 1) /\ Becomes(p, l, s, NULL, NULL)
    BY EnterIs
<1>2. At(p, "user") /\ open' = open /\ Others(p)
    BY EnterIs
<1>3. s \in Socks /\ IsLive(s)
    BY FoundLive
<1>4. \A x \in Socks : Owns(th[p], x) = 0 /\ Title(th[p], x) = 0
    BY <1>2, OwnsInUser
<1>5. \A x \in Socks : Owns(th[p], x)' = Bit(s = x) /\ Title(th[p], x)' = 0
    <2>1. \A x \in Socks : /\ Owns(th[p], x)' = Bit(s = x) + Bit(NULL = x) + 2 * Bit(NULL = x)
                           /\ Title(th[p], x)' = Bit(NULL = x)
        BY <1>1, BecomesOwns
    <2> QED BY <2>1, SocksType DEF Bit
<1>6. FreeOnly(th[p])'
    BY <1>1, NoTaskFree DEF Becomes
<1>7. \A x \in Socks : Opened(x)' = Opened(x) /\ Opened(x) \in Nat
    BY <1>2 DEF Opened
<1>8. \A x \in Socks : ~IsLive(x) => Opened(x) = 0
    BY NotLiveIs DEF Accounts, Opened
<1>9. \A x \in Socks : sock[x].refs \in Nat
    BY DEF TypeOK, Sockets
<1>10. \A x \in Socks :
         /\ sock'[x].mem = sock[x].mem /\ sock'[x].id = sock[x].id
         /\ sock'[x].connecting = sock[x].connecting
         /\ IsLive(x) => sock'[x].refs + Owns(th[p], x) + Opened(x)
                           = sock[x].refs + Owns(th[p], x)' + Opened(x)'
         /\ ~IsLive(x) => Owns(th[p], x)' = 0 /\ Opened(x)' = 0
         /\ Title(th[p], x)' + Opened(x)' <= Title(th[p], x) + Opened(x)
    BY <1>1, <1>3, <1>4, <1>5, <1>7, <1>8, <1>9 DEF Counts, Bit
<1> QED BY ONLY IsFiniteSet(Threads), TypeOK, TypeOK', Accounts, <1>2, <1>6, <1>10, KeepsCounts

\* The id of an open file leads to its own socket.
LEMMA FileFound ==
    ASSUME IsFiniteSet(Threads), TypeOK, Accounts, NEW f \in open
    PROVE  f \in Socks /\ IsLive(f) /\ Found(sock[f].id) = {f}
<1>1. f \in Socks /\ IsLive(f)
    BY NotLiveIs DEF Accounts, TypeOK
<1>2. Found(sock[f].id) = {f}
    BY <1>1 DEF Accounts, IdsInv, Found, Live, IsLive
<1> QED BY <1>1, <1>2

\* The account balances after unix_close.
LEMMA CloseKeeps ==
    ASSUME IsFiniteSet(Threads), TypeOK, ShapeInv, TypeOK', Accounts, NEW p \in Threads,
           NEW f \in open, unix_close(p, f)
    PROVE  Accounts'
<1> DEFINE t == <<Task("put", f), Task("put", f)>>
<1>1. f \in Socks /\ IsLive(f) /\ Found(sock[f].id) = {f}
    BY FileFound
<1>2. Others(p) /\ Counts(f, sock[f].refs + 1) /\ Leaves(p, t)
    BY <1>1, DropTwiceIs, ZenonT(60) DEF unix_close
<1>3. At(p, "user") /\ open' = open \ {f}
    BY DEF unix_close
<1>4. \A x \in Socks : Owns(th[p], x) = 0 /\ Title(th[p], x) = 0
    BY <1>3, OwnsInUser
<1>5. \A x \in Socks : Owns(th[p], x)' = Bit(f = x) + Bit(f = x) /\ Title(th[p], x)' = 0
    <2>1. \A x \in Socks : Owns(th[p], x)' = N(t, Drop(x)) /\ Title(th[p], x)' = N(t, {Task("open", x)})
        BY <1>2, LeavesOwns
    <2>2. \A x \in Socks : N(t, Drop(x)) = Bit(f = x) + Bit(f = x) /\ N(t, {Task("open", x)}) = 0
        BY <1>1, TwoPuts
    <2> QED BY <2>1, <2>2, ZenonT(60)
<1>6. FreeOnly(th[p])'
    <2>1. \A j \in DOMAIN t : t[j].op # "free"
        BY DEF Task
    <2> QED BY <1>2, <2>1, LeavesFree
<1>7. /\ \A x \in Socks : Opened(x)' = (IF x = f THEN 0 ELSE Opened(x)) /\ Opened(x) \in Nat
      /\ Opened(f) = 1
    BY <1>3 DEF Opened
<1>8. \A x \in Socks : ~IsLive(x) => Opened(x) = 0
    BY NotLiveIs DEF Accounts, Opened
<1>9. \A x \in Socks : sock[x].refs \in Nat
    BY DEF TypeOK, Sockets
<1>10. \A x \in Socks :
         /\ sock'[x].mem = sock[x].mem /\ sock'[x].id = sock[x].id
         /\ sock'[x].connecting = sock[x].connecting
         /\ IsLive(x) => sock'[x].refs + Owns(th[p], x) + Opened(x)
                           = sock[x].refs + Owns(th[p], x)' + Opened(x)'
         /\ ~IsLive(x) => Owns(th[p], x)' = 0 /\ Opened(x)' = 0
         /\ Title(th[p], x)' + Opened(x)' <= Title(th[p], x) + Opened(x)
    BY <1>1, <1>2, <1>4, <1>5, <1>7, <1>8, <1>9 DEF Counts, Bit
<1> QED BY ONLY IsFiniteSet(Threads), TypeOK, TypeOK', Accounts, <1>2, <1>6, <1>10, KeepsCounts

\* The account balances after unix_connect's lookup of the path.
LEMMA ConnectLookupKeeps ==
    ASSUME IsFiniteSet(Threads), TypeOK, ShapeInv, TypeOK', ShapeInv', Accounts,
           NEW p \in Threads, ConnectLookup(p)
    PROVE  Accounts'
<1>1. CASE Quiet(p)
    BY <1>1, QuietKeeps
<1>2. CASE /\ open' = open /\ path' = path
           /\ th' \in [Threads -> Calls] /\ Others(p) /\ th[p].s \in Socks
           /\ \E r \in Found(path) :
                Counts(r, sock[r].refs + 1) /\ Becomes(p, "connectRemote", th[p].s, r, NULL)
    <2> DEFINE s == th[p].s
    <2>1. PICK r \in Found(path) :
             Counts(r, sock[r].refs + 1) /\ Becomes(p, "connectRemote", s, r, NULL)
        BY <1>2
    <2>2. r \in Socks /\ IsLive(r)
        BY FoundLive
    <2>3. th[p].pc = "connectLookup" /\ s \in Socks
        BY <1>2 DEF ConnectLookup, At
    <2>4. th[p].r = NULL /\ th[p].new = NULL /\ th[p].todo = <<>>
        BY <2>3 DEF ShapeInv, Shape, OnRemote, OnNew
    <2>5. \A x \in Socks : Owns(th[p], x) = Bit(s = x) /\ Title(th[p], x) = 0
        <3>1. \A x \in Socks : Owns(th[p], x) = RolesN(th[p], x) /\ Title(th[p], x) = Bit(th[p].new = x)
            BY <2>4, OwnsInCall
        <3> QED BY <2>3, <2>4, <3>1, SocksType DEF RolesN, Bit
    <2>6. \A x \in Socks : Owns(th[p], x)' = Bit(s = x) + Bit(r = x) /\ Title(th[p], x)' = 0
        <3>1. \A x \in Socks : /\ Owns(th[p], x)' = Bit(s = x) + Bit(r = x) + 2 * Bit(NULL = x)
                               /\ Title(th[p], x)' = Bit(NULL = x)
            BY <2>1, BecomesOwns
        <3> QED BY <3>1, SocksType DEF Bit
    <2>7. FreeOnly(th[p])'
        BY <2>1, NoTaskFree DEF Becomes
    <2>8. \A x \in Socks : Opened(x)' = Opened(x) /\ Opened(x) \in Nat
        BY <1>2 DEF Opened
    <2>9. \A x \in Socks : ~IsLive(x) => Opened(x) = 0 /\ Owns(th[p], x) = 0
        BY NotLiveIs DEF Accounts, Opened
    <2>10. \A x \in Socks : sock[x].refs \in Nat
        BY DEF TypeOK, Sockets
    <2>11. \A x \in Socks :
             /\ sock'[x].mem = sock[x].mem /\ sock'[x].id = sock[x].id
             /\ sock'[x].connecting = sock[x].connecting
             /\ IsLive(x) => sock'[x].refs + Owns(th[p], x) + Opened(x)
                               = sock[x].refs + Owns(th[p], x)' + Opened(x)'
             /\ ~IsLive(x) => Owns(th[p], x)' = 0 /\ Opened(x)' = 0
             /\ Title(th[p], x)' + Opened(x)' <= Title(th[p], x) + Opened(x)
        BY <2>1, <2>2, <2>5, <2>6, <2>8, <2>9, <2>10 DEF Counts, Bit
    <2> QED BY ONLY IsFiniteSet(Threads), TypeOK, TypeOK', Accounts, <1>2, <2>7, <2>11, KeepsCounts
<1> QED BY <1>1, <1>2, ConnectLookupIs

\* The account balances after unix_connect's second reference.
LEMMA ConnectRefKeeps ==
    ASSUME IsFiniteSet(Threads), TypeOK, ShapeInv, TypeOK', Accounts,
           NEW p \in Threads, ConnectRef(p)
    PROVE  Accounts'
<1> DEFINE s == th[p].s
<1>1. /\ th[p].pc = "connectRef" /\ open' = open /\ Others(p) /\ s \in Socks
      /\ SameRefs(th[p], th'[p]) /\ th'[p].pc = "connectAdd" /\ Counts(s, sock[s].refs + 1)
    BY ConnectRefIs DEF At
<1>2. IsLive(s)
    BY <1>1, PointedIsLive DEF Accounts
<1>3. \A x \in Socks : /\ Owns(th[p], x)' = Owns(th[p], x) + Bit(s = x)
                       /\ Title(th[p], x)' = Title(th[p], x)
                       /\ Owns(th[p], x) \in Nat /\ Title(th[p], x) \in Nat
    <2>1. \A x \in Socks :
            /\ Owns(th[p], x)' + Bit(th[p].pc = "connectAdd" /\ s = x)
                 = Owns(th[p], x) + Bit(th'[p].pc = "connectAdd" /\ s = x)
            /\ Title(th[p], x)' = Title(th[p], x)
        BY <1>1, SameOwns
    <2>2. \A x \in Socks : /\ Owns(th[p], x) \in Nat /\ Owns(th[p], x)' \in Nat
                           /\ Title(th[p], x) \in Nat
        BY <1>1, ClaimsChange, OwnsType, ZenonT(60)
    <2>3. \A x \in Socks : Bit(th[p].pc = "connectAdd" /\ s = x) = 0
                           /\ Bit(th'[p].pc = "connectAdd" /\ s = x) = Bit(s = x)
                           /\ Bit(s = x) \in Nat
        BY <1>1 DEF Bit
    <2> QED BY <2>1, <2>2, <2>3
<1>4. FreeOnly(th[p])'
    <2>1. th'[p].todo = <<>>
        BY <1>1 DEF SameRefs, ShapeInv, Shape
    <2> QED BY <2>1, NoTaskFree
<1>5. \A x \in Socks : Opened(x)' = Opened(x) /\ Opened(x) \in Nat
    BY <1>1 DEF Opened
<1>6. \A x \in Socks : ~IsLive(x) => Opened(x) = 0 /\ Owns(th[p], x) = 0
    BY NotLiveIs DEF Accounts, Opened
<1>7. \A x \in Socks : sock[x].refs \in Nat
    BY DEF TypeOK, Sockets
<1>8. \A x \in Socks :
         /\ sock'[x].mem = sock[x].mem /\ sock'[x].id = sock[x].id
         /\ sock'[x].connecting = sock[x].connecting
         /\ IsLive(x) => sock'[x].refs + Owns(th[p], x) + Opened(x)
                           = sock[x].refs + Owns(th[p], x)' + Opened(x)'
         /\ ~IsLive(x) => Owns(th[p], x)' = 0 /\ Opened(x)' = 0
         /\ Title(th[p], x)' + Opened(x)' <= Title(th[p], x) + Opened(x)
    <2> SUFFICES ASSUME NEW x \in Socks
          PROVE  /\ sock'[x].mem = sock[x].mem /\ sock'[x].id = sock[x].id
                 /\ sock'[x].connecting = sock[x].connecting
                 /\ IsLive(x) => sock'[x].refs + Owns(th[p], x) + Opened(x)
                                   = sock[x].refs + Owns(th[p], x)' + Opened(x)'
                 /\ ~IsLive(x) => Owns(th[p], x)' = 0 /\ Opened(x)' = 0
                 /\ Title(th[p], x)' + Opened(x)' <= Title(th[p], x) + Opened(x)
        OBVIOUS
    <2>1. /\ sock'[x].mem = sock[x].mem /\ sock'[x].id = sock[x].id
          /\ sock'[x].connecting = sock[x].connecting
          /\ sock'[x].refs = IF x = s THEN sock[s].refs + 1 ELSE sock[x].refs
        BY ONLY <1>1, x \in Socks, Zenon DEF Counts
    <2>2. /\ Owns(th[p], x)' = Owns(th[p], x) + Bit(s = x) /\ Title(th[p], x)' = Title(th[p], x)
          /\ Owns(th[p], x) \in Nat /\ Title(th[p], x) \in Nat
          /\ Opened(x)' = Opened(x) /\ Opened(x) \in Nat /\ sock[x].refs \in Nat
          /\ ~IsLive(x) => Opened(x) = 0 /\ Owns(th[p], x) = 0
        BY ONLY <1>3, <1>5, <1>6, <1>7, x \in Socks, Zenon
    <2> DEFINE b == Bit(s = x)
               a == Owns(th[p], x)
               o == Opened(x)
               k == sock[x].refs
               t == Title(th[p], x)
    <2>3. sock'[x].refs = k + b /\ (x # s => b = 0) /\ b \in Nat
        <3>1. CASE x = s
            BY ONLY <2>1, <3>1 DEF Bit
        <3>2. CASE x # s
            <4>1. Bit(s = x) = 0 /\ sock'[x].refs = sock[x].refs
                BY ONLY <2>1, <3>2 DEF Bit
            <4> QED BY ONLY <2>2, <3>2, <4>1
        <3> QED BY ONLY <3>1, <3>2, Zenon
    <2>4. /\ a \in Nat /\ b \in Nat /\ o \in Nat /\ k \in Nat /\ t \in Nat
          /\ Owns(th[p], x)' = a + b
        BY ONLY <2>2, <2>3, Zenon
    <2> HIDE DEF a, b, o, k, t
    <2>5. (k + b) + a + o = k + (a + b) + o /\ t + o <= t + o
        BY ONLY <2>4
    <2>6. /\ sock'[x].refs + a + o = k + Owns(th[p], x)' + o
          /\ Title(th[p], x)' + Opened(x)' <= t + o
        BY ONLY <2>2, <2>3, <2>4, <2>5, Zenon DEF t, o
    <2>7. ASSUME ~IsLive(x) PROVE Owns(th[p], x)' = 0 /\ Opened(x)' = 0
        <3>3. x # s
            BY ONLY <1>2, <2>7, Zenon
        <3>1. a = 0 /\ b = 0 /\ Opened(x)' = 0
            BY ONLY <2>2, <2>3, <2>7, <3>3, Zenon DEF a
        <3>2. a + b = 0
            BY ONLY <3>1
        <3> QED BY ONLY <2>4, <3>1, <3>2, Zenon
    <2> QED BY ONLY <2>1, <2>2, <2>6, <2>7, Zenon DEF a, o, k, t
<1> QED BY ONLY IsFiniteSet(Threads), TypeOK, TypeOK', Accounts, <1>1, <1>4, <1>8, KeepsCounts

\* A step that changes one list.
LEMMA KeepsLists ==
    ASSUME IsFiniteSet(Threads), TypeOK, TypeOK', Accounts, NEW p \in Threads, Others(p),
           FreeOnly(th[p])', open' = open,
           NEW r \in Socks, IsLive(r), NEW q, Lists(r, q),
           \A x \in Socks :
              /\ Owns(th[p], x)' + N(q, {x}) = Owns(th[p], x) + N(sock[r].connecting, {x})
              /\ Title(th[p], x)' <= Title(th[p], x)
    PROVE  Accounts'
<1>1. \A x \in Socks :
         /\ sock'[x].mem = sock[x].mem /\ sock'[x].id = sock[x].id /\ sock'[x].refs = sock[x].refs
         /\ sock'[x].connecting = IF x = r THEN q ELSE sock[x].connecting
    BY DEF Lists
<1>2. ASSUME NEW x \in Socks
      PROVE  /\ RefsOf(x)' + Owns(th[p], x) + Linked(x) + Opened(x)
                  = RefsOf(x) + Owns(th[p], x)' + Linked(x)' + Opened(x)'
             /\ Title(th[p], x)' + Opened(x)' <= Title(th[p], x) + Opened(x)
    <2>1. RefsOf(x)' = RefsOf(x) /\ RefsOf(x) \in Nat
        BY <1>1 DEF RefsOf, IsLive, TypeOK, Sockets
    <2>2. Opened(x)' = Opened(x) /\ Opened(x) \in Nat
        BY DEF Opened
    <2>3. Owns(th[p], x) \in Nat /\ Owns(th[p], x)' \in Nat
        BY ClaimsChange
    <2>4. /\ Linked(x)' + N(sock[r].connecting, {x}) = Linked(x) + N(sock'[r].connecting, {x})
          /\ Linked(x) \in Nat /\ Linked(x)' \in Nat
          /\ N(sock[r].connecting, {x}) \in Nat /\ N(sock'[r].connecting, {x}) \in Nat
        BY <1>1, LinkedChange, ZenonT(60)
    <2>5. sock'[r].connecting = q
        BY <1>1
    <2>6. Owns(th[p], x)' + N(q, {x}) = Owns(th[p], x) + N(sock[r].connecting, {x})
        OBVIOUS
    <2> DEFINE o0 == Owns(th[p], x)
               o1 == Owns(th[p], x)'
               p0 == Opened(x)
               p1 == Opened(x)'
               l0 == Linked(x)
               l1 == Linked(x)'
               r0 == RefsOf(x)
               r1 == RefsOf(x)'
               n0 == N(sock[r].connecting, {x})
               n1 == N(q, {x})
    <2>7. /\ o0 \in Nat /\ o1 \in Nat /\ p0 \in Nat /\ p1 = p0 /\ l0 \in Nat /\ l1 \in Nat
          /\ r0 \in Nat /\ r1 = r0 /\ n0 \in Nat /\ n1 \in Nat
          /\ l1 + n0 = l0 + n1 /\ o1 + n1 = o0 + n0
        BY ONLY <2>1, <2>2, <2>3, <2>4, <2>5, <2>6
    <2> HIDE DEF o0, o1, p0, p1, l0, l1, r0, r1, n0, n1
    <2>8. r1 + o0 + l0 + p0 = r0 + o1 + l1 + p1
        BY ONLY <2>7
    <2>9. Title(th[p], x)' <= Title(th[p], x) /\ Title(th[p], x)' \in Nat /\ Title(th[p], x) \in Nat
        BY TitledChange
    <2> QED BY <2>2, <2>8, <2>9 DEF o0, o1, p0, p1, l0, l1, r0, r1
<1>3. \A x \in Socks : /\ IsLive(x)' <=> IsLive(x)
                       /\ ~IsLive(x)' => sock'[x].connecting = <<>>
                       /\ Gone(x) => Gone(x)'
    BY <1>1 DEF Accounts, EmptyInv, IsLive, Gone
<1> QED BY ONLY IsFiniteSet(Threads), TypeOK, TypeOK', Accounts, Others(p), FreeOnly(th[p])',
               <1>1, <1>2, <1>3, Keeps

\* The account balances after unix_accept's taking of the head.
LEMMA AcceptTakeKeeps ==
    ASSUME IsFiniteSet(Threads), TypeOK, ShapeInv, TypeOK', Accounts,
           NEW p \in Threads, AcceptTake(p)
    PROVE  Accounts'
<1> DEFINE s == th[p].s
           n == th[p].new
           q == sock[s].connecting
<1>1. /\ th[p].pc = "acceptLoop" /\ open' = open /\ Others(p) /\ s \in Socks /\ n \in Socks
      /\ q # <<>> /\ Head(q) \in Socks /\ Lists(s, Tail(q))
      /\ Becomes(p, "acceptPair", s, Head(q), n)
    BY AcceptTakeIs DEF At
<1>2. IsLive(s)
    BY <1>1, PointedIsLive DEF Accounts
<1>3. th[p].r = NULL /\ th[p].todo = <<>>
    BY <1>1 DEF ShapeInv, Shape, OnRemote
<1>4. ASSUME NEW x \in Socks
      PROVE  /\ Owns(th[p], x)' + N(Tail(q), {x}) = Owns(th[p], x) + N(q, {x})
             /\ Title(th[p], x)' <= Title(th[p], x)
    <2>1. Owns(th[p], x) = RolesN(th[p], x) /\ Title(th[p], x) = Bit(n = x)
        BY <1>3, OwnsInCall
    <2>2. RolesN(th[p], x) = Bit(s = x) + 2 * Bit(n = x)
        BY <1>1, <1>3, SocksType DEF RolesN, Bit
    <2>3. /\ Owns(th[p], x)' = Bit(s = x) + Bit(Head(q) = x) + 2 * Bit(n = x)
          /\ Title(th[p], x)' = Bit(n = x)
        BY <1>1, BecomesOwns
    <2>4. q \in Seq(Socks)
        BY <1>1, ListType
    <2>5. N(q, {x}) = Bit(Head(q) = x) + N(Tail(q), {x})
        <3>1. N(q, {x}) = (IF Head(q) \in {x} THEN 1 ELSE 0) + N(Tail(q), {x})
            BY <1>1, <2>4, WhereTail
        <3> QED BY <3>1 DEF Bit
    <2>6. N(Tail(q), {x}) \in Nat
        <3>1. Tail(q) \in Seq(Socks)
            <4>1. q # <<>>
                BY <1>1
            <4> HIDE DEF q
            <4> QED BY <2>4, <4>1
        <3> QED BY <3>1, WhereFinite
    <2> DEFINE a == Bit(s = x)
               b == Bit(Head(q) = x)
               c == Bit(n = x)
               k == N(Tail(q), {x})
    <2>7. a \in Nat /\ b \in Nat /\ c \in Nat
        BY DEF Bit
    <2> HIDE DEF a, b, c, k
    <2>8. Owns(th[p], x) = a + 2 * c /\ Owns(th[p], x)' = a + b + 2 * c /\ N(q, {x}) = b + k /\ k \in Nat
        BY ONLY <2>1, <2>2, <2>3, <2>5, <2>6 DEF a, b, c, k
    <2>9. (a + b + 2 * c) + k = (a + 2 * c) + (b + k)
        BY ONLY <2>7, <2>8
    <2>10. Title(th[p], x)' = c /\ Title(th[p], x) = c
        BY <2>1, <2>3 DEF c
    <2> QED BY ONLY <2>7, <2>8, <2>9, <2>10 DEF k
<1>5. FreeOnly(th[p])'
    BY <1>1, NoTaskFree DEF Becomes
<1> DEFINE z == Tail(q)
<1>6. /\ Lists(s, z)
      /\ \A x \in Socks : /\ Owns(th[p], x)' + N(z, {x}) = Owns(th[p], x) + N(sock[s].connecting, {x})
                          /\ Title(th[p], x)' <= Title(th[p], x)
    BY <1>1, <1>4
<1> HIDE DEF z, q
<1> QED BY ONLY IsFiniteSet(Threads), TypeOK, TypeOK', Accounts, <1>1, <1>2, <1>5, <1>6,
           KeepsLists, ZenonT(60)

\* The account balances after unix_connect's queueing of its socket.
LEMMA ConnectAddKeeps ==
    ASSUME IsFiniteSet(Threads), TypeOK, ShapeInv, TypeOK', Accounts,
           NEW p \in Threads, ConnectAdd(p)
    PROVE  Accounts'
<1> DEFINE s == th[p].s
           r == th[p].r
           q == sock[r].connecting
           z == Append(q, s)
<1>1. /\ th[p].pc = "connectAdd" /\ open' = open /\ Others(p) /\ s \in Socks /\ r \in Socks
      /\ Lists(r, z) /\ SameRefs(th[p], th'[p]) /\ th'[p].pc = "connectMark"
    BY ConnectAddIs DEF At
<1>2. IsLive(r)
    BY <1>1, PointedIsLive DEF Accounts
<1>3. ASSUME NEW x \in Socks
      PROVE  /\ Owns(th[p], x)' + N(z, {x}) = Owns(th[p], x) + N(q, {x})
             /\ Title(th[p], x)' <= Title(th[p], x)
    <2>1. /\ Owns(th[p], x)' + Bit(th[p].pc = "connectAdd" /\ s = x)
               = Owns(th[p], x) + Bit(th'[p].pc = "connectAdd" /\ s = x)
          /\ Title(th[p], x)' = Title(th[p], x)
        BY <1>1, SameOwns
    <2>2. /\ Owns(th[p], x) \in Nat /\ Owns(th[p], x)' \in Nat /\ Title(th[p], x) \in Nat
        BY <1>1, ClaimsChange, OwnsType
    <2>3. q \in Seq(Socks)
        BY <1>1, ListType
    <2>4. N(z, {x}) = N(q, {x}) + (IF s \in {x} THEN 1 ELSE 0) /\ N(q, {x}) \in Nat
        BY <1>1, <2>3, WhereAppend, WhereFinite
    <2>5. N(z, {x}) = N(q, {x}) + Bit(s = x)
        BY <2>4 DEF Bit
    <2>6. Bit(th[p].pc = "connectAdd" /\ s = x) = Bit(s = x)
          /\ Bit(th'[p].pc = "connectAdd" /\ s = x) = 0 /\ Bit(s = x) \in Nat
        BY <1>1 DEF Bit
    <2> DEFINE b == Bit(s = x)
    <2> HIDE DEF b
    <2> DEFINE a == Owns(th[p], x)
               a1 == Owns(th[p], x)'
               k == N(q, {x})
               t == Title(th[p], x)
    <2>7. a1 + b = a + 0 /\ N(z, {x}) = k + b /\ Title(th[p], x)' = t
        BY ONLY <2>1, <2>5, <2>6, Zenon DEF b
    <2>8. a \in Nat /\ a1 \in Nat /\ b \in Nat /\ k \in Nat /\ t \in Nat
        BY ONLY <2>2, <2>4, <2>6, Zenon DEF b
    <2> HIDE DEF a, a1, k, t
    <2>9. a1 + (k + b) = a + k /\ t <= t
        BY ONLY <2>7, <2>8
    <2> QED BY ONLY <2>7, <2>9, Zenon DEF a, a1, k, t
<1>4. FreeOnly(th[p])'
    <2>1. th'[p].todo = <<>>
        BY <1>1 DEF SameRefs, ShapeInv, Shape
    <2> QED BY <2>1, NoTaskFree
<1> HIDE DEF z
<1>5. Others(p) /\ open' = open /\ r \in Socks /\ Lists(r, z)
    BY ONLY <1>1, Zenon
<1>6. \A x \in Socks :
         /\ Owns(th[p], x)' + N(z, {x}) = Owns(th[p], x) + N(sock[r].connecting, {x})
         /\ Title(th[p], x)' <= Title(th[p], x)
    BY ONLY <1>3, Zenon
<1> QED BY ONLY IsFiniteSet(Threads), TypeOK, TypeOK', Accounts, p \in Threads,
                <1>2, <1>4, <1>5, <1>6, KeepsLists, ZenonT(60)

\* What three drops give up.
LEMMA ThreePuts ==
    ASSUME NEW a \in Socks, NEW b \in Socks, NEW c \in Socks, NEW x \in Socks
    PROVE  /\ N(<<Task("put", a), Task("put", b), Task("put", c)>>, Drop(x))
                = Bit(a = x) + Bit(b = x) + Bit(c = x)
           /\ N(<<Task("put", a), Task("put", b), Task("put", c)>>, {Task("open", x)}) = 0
<1> DEFINE t == <<Task("put", a), Task("put", b), Task("put", c)>>
<1>1. /\ Task("put", a) \in Drop(x) <=> a = x
      /\ Task("put", b) \in Drop(x) <=> b = x
      /\ Task("put", c) \in Drop(x) <=> c = x
      /\ Task("put", a) \notin {Task("open", x)} /\ Task("put", b) \notin {Task("open", x)}
      /\ Task("put", c) \notin {Task("open", x)}
    BY TaskIn
<1>2. /\ N(t, Drop(x)) = Bit(Task("put", a) \in Drop(x)) + Bit(Task("put", b) \in Drop(x))
                          + Bit(Task("put", c) \in Drop(x))
      /\ N(t, {Task("open", x)}) = Bit(Task("put", a) \in {Task("open", x)})
           + Bit(Task("put", b) \in {Task("open", x)}) + Bit(Task("put", c) \in {Task("open", x)})
    BY NThree
<1> QED BY <1>1, <1>2 DEF Bit

\* The account balances after unix_connect's unlinking after a timeout.
LEMMA ConnectUnlinkKeeps ==
    ASSUME IsFiniteSet(Threads), TypeOK, ShapeInv, TypeOK', ShapeInv', Accounts,
           NEW p \in Threads, ConnectUnlink(p)
    PROVE  Accounts'
<1> DEFINE s == th[p].s
           r == th[p].r
           q == sock[r].connecting
           t == <<Task("put", s), Task("put", r), Task("put", s)>>
<1>1. CASE Quiet(p)
    BY <1>1, QuietKeeps
<1>2. ASSUME th[p].pc = "connectUnlink", open' = open, Others(p), s \in Socks, r \in Socks,
             Leaves(p, t), NEW i \in DOMAIN q, q[i] = s, Lists(r, RemoveAt(q, i))
      PROVE  Accounts'
    <2> DEFINE z == RemoveAt(q, i)
    <2>1. IsLive(r)
        BY <1>2, PointedIsLive DEF Accounts
    <2>2. th[p].new = NULL /\ th[p].todo = <<>>
        BY <1>2 DEF ShapeInv, Shape, OnNew
    <2>3. ASSUME NEW x \in Socks
          PROVE  /\ Owns(th[p], x)' + N(z, {x}) = Owns(th[p], x) + N(q, {x})
                 /\ Title(th[p], x)' <= Title(th[p], x)
        <3>1. Owns(th[p], x) = RolesN(th[p], x) /\ Title(th[p], x) = Bit(th[p].new = x)
            BY <2>2, OwnsInCall
        <3>2. RolesN(th[p], x) = Bit(s = x) + Bit(r = x) /\ Bit(th[p].new = x) = 0
            BY <1>2, <2>2, SocksType DEF RolesN, Bit
        <3>3. Owns(th[p], x)' = N(t, Drop(x)) /\ Title(th[p], x)' = N(t, {Task("open", x)})
            <4> HIDE DEF t
            <4> QED BY <1>2, LeavesOwns
        <3>4. N(t, Drop(x)) = Bit(s = x) + Bit(r = x) + Bit(s = x) /\ N(t, {Task("open", x)}) = 0
            <4>1. s \in Socks /\ r \in Socks
                BY <1>2
            <4> HIDE DEF s, r
            <4> QED BY <4>1, ThreePuts
        <3>5. q \in Seq(Socks)
            BY <1>2, ListType
        <3>6. N(q, {x}) = N(z, {x}) + (IF q[i] \in {x} THEN 1 ELSE 0)
            BY <3>5, WhereRemoveAt
        <3>7. N(q, {x}) = N(z, {x}) + Bit(s = x)
            BY <1>2, <3>6 DEF Bit
        <3>8. z \in Seq(Socks)
            BY <1>2, <3>5, RemoveAtType, Zenon
        <3>9. N(z, {x}) \in Nat
            BY <3>8, WhereFinite
        <3>10. Bit(s = x) \in Nat /\ Bit(r = x) \in Nat
            BY DEF Bit
        <3> DEFINE a == Bit(s = x)
                   b == Bit(r = x)
                   k == N(z, {x})
        <3> HIDE DEF a, b, k, t
        <3>11. /\ Owns(th[p], x) = a + b /\ Owns(th[p], x)' = a + b + a /\ N(q, {x}) = k + a
               /\ a \in Nat /\ b \in Nat /\ k \in Nat
            BY ONLY <3>1, <3>2, <3>3, <3>4, <3>7, <3>9, <3>10 DEF a, b, k
        <3>12. (a + b + a) + k = (a + b) + (k + a)
            BY ONLY <3>11
        <3>13. Title(th[p], x)' = 0 /\ Title(th[p], x) = 0
            BY <3>1, <3>2, <3>3, <3>4
        <3> QED BY ONLY <3>11, <3>12, <3>13 DEF k
    <2>4. FreeOnly(th[p])'
        <3>1. \A j \in DOMAIN t : t[j].op # "free"
            BY DEF Task
        <3> QED BY <1>2, <3>1, LeavesFree
    <2>5. Lists(r, z) /\ open' = open /\ Others(p) /\ r \in Socks
        BY <1>2
    <2> HIDE DEF z
    <2> QED BY ONLY IsFiniteSet(Threads), TypeOK, TypeOK', Accounts, <2>1, <2>3, <2>4, <2>5,
               KeepsLists, SMTT(60)
<1> QED BY <1>1, <1>2, ConnectUnlinkIs DEF At

\* The account balances after unix_accept's pairing.
LEMMA AcceptPairKeeps ==
    ASSUME IsFiniteSet(Threads), TypeOK, ShapeInv, TypeOK', Accounts,
           NEW p \in Threads, AcceptPair(p)
    PROVE  Accounts'
<1> DEFINE s == th[p].s
           r == th[p].r
           n == th[p].new
           a == Task("put", n)
           b == Task("put", r)
           c == Task("put", s)
           d == Task("open", n)
           t == <<a, b, c, d>>
<1>1. /\ th[p].pc = "acceptPair" /\ open' = open /\ Others(p)
      /\ s \in Socks /\ r \in Socks /\ n \in Socks /\ Leaves(p, t)
      /\ \A x \in Socks :
           /\ sock'[x].mem = sock[x].mem /\ sock'[x].id = sock[x].id
           /\ sock'[x].refs = sock[x].refs /\ sock'[x].connecting = sock[x].connecting
    BY AcceptPairIs DEF At
<1>2. th[p].todo = <<>>
    BY <1>1 DEF ShapeInv, Shape
<1>3. ASSUME NEW x \in Socks
      PROVE  Owns(th[p], x)' = Owns(th[p], x) /\ Title(th[p], x)' = Title(th[p], x)
             /\ Title(th[p], x) \in Nat
    <2>1. Owns(th[p], x) = RolesN(th[p], x) /\ Title(th[p], x) = Bit(n = x)
        BY <1>2, OwnsInCall
    <2>2. RolesN(th[p], x) = Bit(s = x) + Bit(r = x) + 2 * Bit(n = x)
        BY <1>1 DEF RolesN, Bit
    <2>3. Owns(th[p], x)' = N(t, Drop(x)) /\ Title(th[p], x)' = N(t, {Task("open", x)})
        <3> HIDE DEF t
        <3> QED BY <1>1, LeavesOwns, ZenonT(60)
    <2>4. /\ N(t, Drop(x)) = Bit(a \in Drop(x)) + Bit(b \in Drop(x)) + Bit(c \in Drop(x)) + Bit(d \in Drop(x))
          /\ N(t, {Task("open", x)}) = Bit(a \in {Task("open", x)}) + Bit(b \in {Task("open", x)})
                                       + Bit(c \in {Task("open", x)}) + Bit(d \in {Task("open", x)})
        <3> HIDE DEF a, b, c, d
        <3> QED BY NFour
    <2>5. /\ a \in Drop(x) <=> n = x
          /\ b \in Drop(x) <=> r = x
          /\ c \in Drop(x) <=> s = x
          /\ d \in Drop(x) <=> n = x
          /\ a \notin {Task("open", x)} /\ b \notin {Task("open", x)} /\ c \notin {Task("open", x)}
          /\ d \in {Task("open", x)} <=> n = x
        BY <1>1, TaskIn
    <2>6. N(t, Drop(x)) = Bit(s = x) + Bit(r = x) + 2 * Bit(n = x) /\ N(t, {Task("open", x)}) = Bit(n = x)
        <3> HIDE DEF a, b, c, d, t, s, r, n
        <3> QED BY ONLY <2>4, <2>5 DEF Bit
    <2>7. Bit(n = x) \in Nat
        BY DEF Bit
    <2> HIDE DEF t
    <2> QED BY ONLY <2>1, <2>2, <2>3, <2>6, <2>7
<1>4. FreeOnly(th[p])'
    <2>1. \A j \in DOMAIN t : t[j].op # "free"
        BY DEF Task
    <2> QED BY <1>1, <2>1, LeavesFree
<1>5. \A x \in Socks : Opened(x)' = Opened(x) /\ Opened(x) \in Nat
    BY <1>1 DEF Opened
<1>6. \A x \in Socks : ~IsLive(x) => Opened(x) = 0 /\ Owns(th[p], x) = 0
    BY NotLiveIs DEF Accounts, Opened
<1>7. \A x \in Socks : Owns(th[p], x) \in Nat
    BY OwnsType
<1>8. \A x \in Socks :
         /\ sock'[x].mem = sock[x].mem /\ sock'[x].id = sock[x].id
         /\ sock'[x].connecting = sock[x].connecting
         /\ IsLive(x) => sock'[x].refs + Owns(th[p], x) + Opened(x)
                           = sock[x].refs + Owns(th[p], x)' + Opened(x)'
         /\ ~IsLive(x) => Owns(th[p], x)' = 0 /\ Opened(x)' = 0
         /\ Title(th[p], x)' + Opened(x)' <= Title(th[p], x) + Opened(x)
    BY ONLY <1>1, <1>3, <1>5, <1>6, <1>7
<1> QED BY ONLY IsFiniteSet(Threads), TypeOK, TypeOK', Accounts, <1>1, <1>4, <1>8, KeepsCounts

=============================================================================
