----------------------------- MODULE Rendezvous -----------------------------
(***************************************************************************)
(* What listen, accept and connect promise, whatever threads make the      *)
(* calls and whatever the kernel does in between.                          *)
(*                                                                         *)
(* A socket that connects waits in one place, once, and is served in the   *)
(* order of arrival.  It comes out of that in exactly one way: connected   *)
(* to a socket of its own, refused because the listener is gone, or given  *)
(* up while it is still in the queue.  Nobody that waits goes away, and    *)
(* nobody is connected twice.                                              *)
(***************************************************************************)
EXTENDS Naturals, Sequences, SequencesExt

CONSTANTS
    Sockets,
    Nobody      \* the peer of a socket that is not connected

VARIABLES
    queue,      \* queue[l]: those who wait to be accepted by l, the oldest first
    taken,      \* those who were taken off a queue and have had no answer yet
    peer        \* peer[s]: whom s is connected to

vars == <<queue, taken, peer>>

Init ==
    /\ queue = [l \in Sockets |-> <<>>]
    /\ taken = {}
    /\ peer = [s \in Sockets |-> Nobody]

Waits(s, l) == \E i \in DOMAIN queue[l] : queue[l][i] = s
Settled(s) == s \notin taken /\ \A l \in Sockets : ~Waits(s, l)
Free(s) == Settled(s) /\ peer[s] = Nobody

Queue(s, l) ==
    /\ Free(s)
    /\ queue' = [queue EXCEPT ![l] = Append(@, s)]
    /\ UNCHANGED <<taken, peer>>

\* The oldest comes first.
Take(l) ==
    /\ queue[l] # <<>>
    /\ queue' = [queue EXCEPT ![l] = Tail(@)]
    /\ taken' = taken \cup {Head(queue[l])}
    /\ UNCHANGED peer

Connected(s, t) == [peer EXCEPT ![s] = t, ![t] = s]

\* accept() answers with a new socket.
Answer(s, t) ==
    /\ s \in taken /\ peer[s] = Nobody
    /\ Free(t)
    /\ taken' = taken \ {s}
    /\ peer' = Connected(s, t)
    /\ UNCHANGED queue

Refuse(s) ==
    /\ s \in taken
    /\ taken' = taken \ {s}
    /\ UNCHANGED <<queue, peer>>

\* A timeout takes back what nobody has taken.
GiveUp(l) ==
    /\ \E i \in DOMAIN queue[l] : queue' = [queue EXCEPT ![l] = RemoveAt(@, i)]
    /\ UNCHANGED <<taken, peer>>

\* socketpair()
Pair(s, t) ==
    /\ Free(s) /\ Free(t) /\ s # t
    /\ peer' = Connected(s, t)
    /\ UNCHANGED <<queue, taken>>

\* s is gone: its peer has none any more, and those who wait for s are to be refused.
Vanish(s) ==
    /\ Settled(s)
    /\ queue' = [queue EXCEPT ![s] = <<>>]
    /\ taken' = taken \cup {q \in Sockets : Waits(q, s)}
    /\ peer' = [x \in Sockets |-> IF x = s \/ peer[x] = s THEN Nobody ELSE peer[x]]

Next ==
    \/ \E s \in Sockets : Vanish(s) \/ Take(s) \/ GiveUp(s)
    \/ \E s \in taken : Refuse(s) \/ \E t \in Sockets : Answer(s, t)
    \/ \E s, l \in Sockets : Queue(s, l) \/ Pair(s, l)

Spec == Init /\ [][Next]_vars
=============================================================================
