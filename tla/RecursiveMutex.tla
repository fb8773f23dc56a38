--------------------------- MODULE RecursiveMutex ---------------------------
(***************************************************************************)
(* What SDL promises of a mutex: a thread that holds it may lock it again, *)
(* it is free once every lock has been undone, and no two threads ever     *)
(* hold it together.  held[t] is the number of locks that t has not undone *)
(* yet.                                                                    *)
(***************************************************************************)
EXTENDS Naturals

CONSTANT Threads

VARIABLE held

Init == held = [t \in Threads |-> 0]

Lock(t) ==
    /\ \A u \in Threads \ {t} : held[u] = 0
    /\ held' = [held EXCEPT ![t] = held[t] + 1]

Unlock(t) ==
    /\ held[t] > 0
    /\ held' = [held EXCEPT ![t] = held[t] - 1]

Next == \E t \in Threads : Lock(t) \/ Unlock(t)

Spec == Init /\ [][Next]_held
=============================================================================
