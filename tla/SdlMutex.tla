------------------------------ MODULE SdlMutex ------------------------------
(***************************************************************************)
(* The recursive SDL mutex and the SDL condition variable that the vkQuake *)
(* port builds on the Phoenix mutex, which is not recursive                *)
(* (tools/vkquake-port/platform/pl_phoenix_sdlcompat.c).                   *)
(*                                                                         *)
(* A mutex is {h, owner, owned, count}.  h is the kernel's mutex.  The     *)
(* other three are plain fields: SDL_LockMutex reads owned and owner       *)
(* before it takes h, so each load and each store is a step of its own.    *)
(* Order = "program" is the order a single core shows, which the file      *)
(* assumes ("cpu0-only scheduler"); Order = "relaxed" is what four ARMv8   *)
(* cores may show, for plain accesses between two system calls.            *)
(***************************************************************************)
EXTENDS Naturals, FiniteSets

CONSTANTS
    Threads,    \* the threads that share the mutex
    NoThread,   \* the holder of a free kernel mutex
    MaxDepth,   \* bound: how deep a client nests its locks
    Order       \* "program" or "relaxed"

ASSUME NoThreadAssumption == NoThread \notin Threads
ASSUME MaxDepthAssumption == MaxDepth \in Nat \ {0}
ASSUME OrderAssumption == Order \in {"program", "relaxed"}

VARIABLES
    h,      \* kernel mutex: the thread that holds it
    owner, owned, count,    \* fields of struct SDL_mutex
    pc,     \* pc[t]: where t is in the shim; "client" when outside it
    todo,   \* todo[t]: fields t has still to store before its next system call
    timed,  \* timed[t]: t's condWait has a deadline
    held    \* held[t]: locks that t's client has not undone (a history variable)

vars == <<h, owner, owned, count, pc, todo, timed, held>>

Fields == {"owner", "owned", "count"}

Locations ==
    {"client", "entry", "ownerLoad", "ownedLoad", "recurse", "mutexLock",
     "publish", "release", "sleep", "condWait", "reacquire", "republish"}

\* Where the bookkeeping of the mutex is being rewritten by the thread that holds h.
Publishing == {"publish", "republish"}
Clearing == {"release", "sleep"}

\* The values of the fields of struct SDL_mutex and the places in its functions; a recursion
\* count never leaves the depth that its clients use.
TypeOK ==
    /\ h \in Threads \cup {NoThread}
    /\ owner \in Threads \cup {NoThread}
    /\ owned \in BOOLEAN
    /\ count \in 0..MaxDepth
    /\ pc \in [Threads -> Locations]
    /\ todo \in [Threads -> SUBSET Fields]
    /\ timed \in [Threads -> BOOLEAN]
    /\ held \in [Threads -> 0..MaxDepth]

(* SDL_CreateMutex clears owned and count; owner keeps what malloc returned. *)
Init ==
    /\ h = NoThread
    /\ owner \in Threads \cup {NoThread}
    /\ owned = FALSE
    /\ count = 0
    /\ pc = [t \in Threads |-> "client"]
    /\ todo = [t \in Threads |-> {}]
    /\ timed = [t \in Threads |-> FALSE]
    /\ held = [t \in Threads |-> 0]

Goto(t, l) == pc' = [pc EXCEPT ![t] = l]

-----------------------------------------------------------------------------
(* Plausible slips, each a wrong version of the action it is named after.  No *)
(* specification uses them: they show that the properties below would notice. *)

\* A nested unlock that returns without count--.
UnlockNested_NoDecrement(t) ==
    /\ pc[t] = "client"
    /\ held[t] > 0
    /\ count > 1
    /\ held' = [held EXCEPT ![t] = held[t] - 1]
    /\ UNCHANGED <<h, owner, owned, count, pc, todo, timed>>

\* The first unlock releases the mutex, whatever the recursion depth.
UnlockLast_AnyDepth(t) ==
    /\ pc[t] = "client"
    /\ held[t] > 0
    /\ todo' = [todo EXCEPT ![t] = {"owned", "count"}]
    /\ Goto(t, "release")
    /\ UNCHANGED <<h, owner, owned, count, timed, held>>

\* The last unlock leaves owned set.
UnlockLast_StaysOwned(t) ==
    /\ pc[t] = "client"
    /\ held[t] > 0
    /\ count <= 1
    /\ todo' = [todo EXCEPT ![t] = {"count"}]
    /\ Goto(t, "release")
    /\ UNCHANGED <<h, owner, owned, count, timed, held>>

\* The unlock does its bookkeeping and forgets the system call.
MutexUnlock_Forgotten(t) ==
    /\ pc[t] = "release"
    /\ todo[t] = {}
    /\ held' = [held EXCEPT ![t] = held[t] - 1]
    /\ Goto(t, "client")
    /\ UNCHANGED <<h, owner, owned, count, todo, timed>>

-----------------------------------------------------------------------------
(* SDL_LockMutex *)

LockCall(t) ==
    /\ pc[t] = "client"
    /\ held[t] < MaxDepth
    /\ Goto(t, "entry")
    /\ UNCHANGED <<h, owner, owned, count, todo, timed, held>>

\* The first operand of  m->owned && pthread_equal(m->owner, self).
LoadOwned(t) ==
    /\ pc[t] \in {"entry", "ownedLoad"}
    /\ Goto(t, IF ~owned THEN "mutexLock"
               ELSE IF pc[t] = "entry" THEN "ownerLoad" ELSE "recurse")
    /\ UNCHANGED <<h, owner, owned, count, todo, timed, held>>

\* Its second operand.  Relaxed loads may satisfy it before the first.
LoadOwner(t) ==
    /\ pc[t] = "ownerLoad" \/ (pc[t] = "entry" /\ Order = "relaxed")
    /\ Goto(t, IF owner # t THEN "mutexLock"
               ELSE IF pc[t] = "entry" THEN "ownedLoad" ELSE "recurse")
    /\ UNCHANGED <<h, owner, owned, count, todo, timed, held>>

Recurse(t) ==
    /\ pc[t] = "recurse"
    /\ count' = count + 1
    /\ held' = [held EXCEPT ![t] = held[t] + 1]
    /\ Goto(t, "client")
    /\ UNCHANGED <<h, owner, owned, todo, timed>>

MutexLock(t) ==
    /\ pc[t] = "mutexLock"
    /\ h = NoThread
    /\ h' = t
    /\ todo' = [todo EXCEPT ![t] = Fields]
    /\ Goto(t, "publish")
    /\ UNCHANGED <<owner, owned, count, timed, held>>

\* The system call may be interrupted; the lock is not taken and -1 is returned.
MutexLockFails(t) ==
    /\ pc[t] = "mutexLock"
    /\ Goto(t, "client")
    /\ UNCHANGED <<h, owner, owned, count, todo, timed, held>>

-----------------------------------------------------------------------------
(* The plain stores between two system calls. *)

\* f is the store of t that becomes visible next.
Visible(t, f) ==
    /\ f \in todo[t]
    /\ Order = "program" =>
          /\ f = "owned" => "owner" \notin todo[t]
          /\ f = "count" => todo[t] = {"count"}

\* owner = self; owned = 1; count = 1 after the lock; owned = 0; count = 0 before
\* the unlock.
Store(t) ==
    \E f \in Fields :
        /\ pc[t] \in Publishing \cup Clearing
        /\ Visible(t, f)
        /\ owner' = IF f = "owner" THEN t ELSE owner
        /\ owned' = IF f = "owned" THEN pc[t] \in Publishing ELSE owned
        /\ count' = IF f # "count" THEN count ELSE IF pc[t] \in Publishing THEN 1 ELSE 0
        /\ todo' = [todo EXCEPT ![t] = todo[t] \ {f}]
        /\ UNCHANGED <<h, pc, timed, held>>

\* SDL_LockMutex, or sdlcompat_cond_wait, returns to its caller.
Return(t) ==
    /\ pc[t] \in Publishing
    /\ todo[t] = {}
    /\ held' = [held EXCEPT ![t] = held[t] + 1]
    /\ Goto(t, "client")
    /\ UNCHANGED <<h, owner, owned, count, todo, timed>>

-----------------------------------------------------------------------------
(* SDL_UnlockMutex, called by a client that holds the mutex *)

UnlockNested(t) ==
    /\ pc[t] = "client"
    /\ held[t] > 0
    /\ count > 1
    /\ count' = count - 1
    /\ held' = [held EXCEPT ![t] = held[t] - 1]
    /\ UNCHANGED <<h, owner, owned, pc, todo, timed>>

UnlockLast(t) ==
    /\ pc[t] = "client"
    /\ held[t] > 0
    /\ count <= 1
    /\ todo' = [todo EXCEPT ![t] = {"owned", "count"}]
    /\ Goto(t, "release")
    /\ UNCHANGED <<h, owner, owned, count, timed, held>>

MutexUnlock(t) ==
    /\ pc[t] = "release"
    /\ todo[t] = {}
    /\ h' = NoThread
    /\ held' = [held EXCEPT ![t] = held[t] - 1]
    /\ Goto(t, "client")
    /\ UNCHANGED <<owner, owned, count, todo, timed>>

-----------------------------------------------------------------------------
(* SDL_CondWait and SDL_CondWaitTimeout.  The client holds the mutex once, *)
(* as the comment above sdlcompat_cond_wait demands.                       *)

WaitCall(t, forever) ==
    /\ pc[t] = "client"
    /\ held[t] = 1
    /\ timed' = [timed EXCEPT ![t] = ~forever]
    /\ todo' = [todo EXCEPT ![t] = {"owned", "count"}]
    /\ Goto(t, "sleep")
    /\ UNCHANGED <<h, owner, owned, count, held>>

\* condWait releases h and sleeps in one step ...
CondSleep(t) ==
    /\ pc[t] = "sleep"
    /\ todo[t] = {}
    /\ h' = NoThread
    /\ held' = [held EXCEPT ![t] = held[t] - 1]
    /\ Goto(t, "condWait")
    /\ UNCHANGED <<owner, owned, count, todo, timed>>

\* ... until it is signalled or its deadline passes ...
Sleeping == {t \in Threads : pc[t] = "condWait"}

CondSignal ==
    \E t \in Sleeping :
        /\ Goto(t, "reacquire")
        /\ UNCHANGED <<h, owner, owned, count, todo, timed, held>>

CondBroadcast ==
    /\ Sleeping # {}
    /\ pc' = [t \in Threads |-> IF t \in Sleeping THEN "reacquire" ELSE pc[t]]
    /\ UNCHANGED <<h, owner, owned, count, todo, timed, held>>

CondTimeout(t) ==
    /\ pc[t] = "condWait"
    /\ timed[t]
    /\ Goto(t, "reacquire")
    /\ UNCHANGED <<h, owner, owned, count, todo, timed, held>>

\* ... and takes h again before it returns.
Reacquire(t) ==
    /\ pc[t] = "reacquire"
    /\ h = NoThread
    /\ h' = t
    /\ todo' = [todo EXCEPT ![t] = Fields]
    /\ Goto(t, "republish")
    /\ UNCHANGED <<owner, owned, count, timed, held>>

-----------------------------------------------------------------------------
\* A thread other than the sleepers exists that may signal at any time.
Signal == CondSignal \/ CondBroadcast

Unlock(t) == UnlockNested(t) \/ UnlockLast(t)

Wait(t) == \E forever \in BOOLEAN : WaitCall(t, forever)

\* The steps that t takes by itself once it has entered the shim.
Shim(t) ==
    \/ LoadOwned(t) \/ LoadOwner(t) \/ Recurse(t)
    \/ Store(t) \/ Return(t) \/ MutexUnlock(t) \/ CondSleep(t)

Step(t) ==
    \/ LockCall(t) \/ Unlock(t) \/ Wait(t)
    \/ Shim(t) \/ MutexLock(t) \/ MutexLockFails(t)
    \/ CondTimeout(t) \/ Reacquire(t)

Next == Signal \/ \E t \in Threads : Step(t)

Spec == Init /\ [][Next]_vars

(* A thread inside the shim keeps running, a client that holds the mutex     *)
(* unlocks it in the end, from whatever depth (it does not nest up and down  *)
(* between two levels for ever), the kernel hands a mutex that keeps becoming free  *)
(* to each thread that waits for it, and timed waits end.                    *)
Fairness ==
    \A t \in Threads :
        /\ WF_vars(Shim(t))
        /\ \A d \in 2..MaxDepth : SF_vars(held[t] = d /\ UnlockNested(t))
        /\ SF_vars(UnlockLast(t))
        /\ SF_vars(MutexLock(t))
        /\ SF_vars(Reacquire(t))
        /\ WF_vars(CondTimeout(t))

FairSpec == Spec /\ Fairness

-----------------------------------------------------------------------------
(* Properties *)

\* No two threads are inside the critical section, whether they got there by the
\* kernel mutex or by the recursion test of SDL_LockMutex (lines 93-96).
MutualExclusion ==
    \A t, u \in Threads : held[t] > 0 /\ held[u] > 0 => t = u

\* "only the owner can observe owned+owner==self" (line 91): a thread that takes the
\* recursive path of SDL_LockMutex holds the kernel mutex.
OnlyOwnerRecurses ==
    \A t \in Threads : pc[t] = "recurse" => h = t

\* While a client runs with the mutex, count is the number of locks it has to undo and
\* the owner fields name it: the recursion survives every condition wait in between.
BookkeepingMatches ==
    \A t \in Threads :
        pc[t] = "client" /\ held[t] > 0 => count = held[t] /\ owned /\ owner = t

\* A free kernel mutex is never advertised as owned: the next SDL_LockMutex of any
\* thread, the last owner included, has to go through mutexLock.
FreeIsNotOwned == h = NoThread => ~owned /\ count = 0

\* The invariant the proofs are by induction on.  t holds the kernel mutex from the
\* lock to the unlock, the fields have the values of its place in the shim, and a
\* thread that saw owned set by another thread will not find itself in owner.
Holding(t) == held[t] > 0 \/ pc[t] \in Publishing

ThreadInv(t) ==
    /\ h = t <=> Holding(t)
    /\ pc[t] \in Publishing \cup {"mutexLock", "condWait", "reacquire"} => held[t] = 0
    /\ pc[t] \in Clearing => held[t] = 1
    /\ pc[t] = "recurse" => held[t] > 0
    /\ pc[t] = "ownerLoad" => held[t] > 0 \/ owner # t
    /\ pc[t] # "ownedLoad"
    /\ pc[t] \in {"entry", "ownerLoad", "recurse"} => held[t] < MaxDepth
    /\ pc[t] \notin Publishing \cup Clearing => todo[t] = {}
    /\ held[t] > 0 /\ pc[t] \notin Clearing => owned /\ owner = t /\ count = held[t]
    /\ pc[t] \in Clearing =>
          /\ todo[t] \subseteq {"owned", "count"}
          /\ owner = t
          /\ owned <=> "owned" \in todo[t]
          /\ count = IF "count" \in todo[t] THEN 1 ELSE 0
    /\ pc[t] \in Publishing =>
          /\ owned <=> "owned" \notin todo[t]
          /\ owned => "owner" \notin todo[t]
          /\ "owner" \notin todo[t] => owner = t
          /\ count = IF "count" \in todo[t] THEN 0 ELSE 1

IInv == TypeOK /\ FreeIsNotOwned /\ \A t \in Threads : ThreadInv(t)

\* Seen by its clients the shim is a recursive mutex.
Promise == INSTANCE RecursiveMutex
ImplementsRecursiveMutex == Promise!Spec

\* SDL_LockMutex returns, no thread is left waiting in it for another one or for itself (the
\* hang of lines 53-54); and SDL_CondWaitTimeout returns with the mutex held, even if nobody
\* signals.
CallsReturn ==
    \A t \in Threads :
        /\ pc[t] = "entry" ~> pc[t] = "client"
        /\ (pc[t] = "condWait" /\ timed[t]) ~> (pc[t] = "client" /\ h = t)
=============================================================================
