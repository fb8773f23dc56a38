------------------------------ MODULE SdlProofs ------------------------------
(***************************************************************************)
(* Proofs about the two halves of the SDL shim, and about the feeder of    *)
(* the Quake ports' sound.                                                 *)
(*                                                                         *)
(* SdlMutex: any set of threads and any nesting depth, on a machine that   *)
(* shows plain accesses in program order.                                  *)
(*                                                                         *)
(* MutualExclusion is not inductive: it needs to know who holds the kernel *)
(* mutex, what the three fields hold at each point of the shim, and that a *)
(* thread which has seen owned set by another thread cannot find its own   *)
(* name in owner afterwards.                                               *)
(*                                                                         *)
(* SdlThread: any number of threads.                                       *)
(*                                                                         *)
(* SndFeeder, at the end: any ring, any chunk and any width of the         *)
(* position.                                                               *)
(***************************************************************************)
EXTENDS SdlMutex, SdlThread, SndFeeder, TLAPS

-----------------------------------------------------------------------------
\* What holds initially.
LEMMA InitIInv == Init => IInv
<1> SUFFICES ASSUME Init PROVE IInv
  OBVIOUS
<1>1. TypeOK
  <2>1. 0 \in 0..MaxDepth
    BY MaxDepthAssumption
  <2>2. timed \in [Threads -> BOOLEAN] /\ owned \in BOOLEAN
    BY Zenon DEF Init
  <2> QED
    BY <2>1, <2>2 DEF Init, TypeOK, Locations
<1>2. FreeIsNotOwned
  BY DEF Init, FreeIsNotOwned
<1>3. ASSUME NEW t \in Threads PROVE ThreadInv(t)
  BY NoThreadAssumption DEF Init, ThreadInv, Holding, Publishing, Clearing
<1> QED
  BY <1>1, <1>2, <1>3 DEF IInv

\* Every step of the shim preserves the invariant.
LEMMA StepIInv ==
    ASSUME Order = "program"
    PROVE  IInv /\ [Next]_vars => IInv'
<1> SUFFICES ASSUME IInv, [Next]_vars PROVE IInv'
  OBVIOUS
<1> USE NoThreadAssumption, MaxDepthAssumption
    DEF IInv, TypeOK, ThreadInv, Holding, FreeIsNotOwned, Locations, Publishing, Clearing, Fields, Goto
<1>1. CASE UNCHANGED vars
  BY <1>1 DEF vars
<1>2. ASSUME NEW t \in Threads, LockCall(t) PROVE IInv'
  BY <1>2 DEF LockCall
<1>3. ASSUME NEW t \in Threads, LoadOwned(t) PROVE IInv'
  BY <1>3 DEF LoadOwned
<1>4. ASSUME NEW t \in Threads, LoadOwner(t) PROVE IInv'
  BY <1>4 DEF LoadOwner
<1>5. ASSUME NEW t \in Threads, Recurse(t) PROVE IInv'
  BY <1>5 DEF Recurse
<1>6. ASSUME NEW t \in Threads, MutexLock(t) PROVE IInv'
  BY <1>6 DEF MutexLock
<1>7. ASSUME NEW t \in Threads, MutexLockFails(t) PROVE IInv'
  BY <1>7 DEF MutexLockFails
<1>8. ASSUME NEW t \in Threads, Store(t) PROVE IInv'
  <2>1. PICK f \in Fields :
             /\ pc[t] \in Publishing \cup Clearing
             /\ Visible(t, f)
             /\ owner' = IF f = "owner" THEN t ELSE owner
             /\ owned' = IF f = "owned" THEN pc[t] \in Publishing ELSE owned
             /\ count' = IF f # "count" THEN count ELSE IF pc[t] \in Publishing THEN 1 ELSE 0
             /\ todo' = [todo EXCEPT ![t] = todo[t] \ {f}]
             /\ UNCHANGED <<h, pc, timed, held>>
    BY <1>8 DEF Store
  <2>2. CASE f = "owner"
    BY <2>1, <2>2 DEF Visible
  <2>3. CASE f = "owned"
    <3>1. CASE pc[t] \in Publishing
      <4>1. owned' = TRUE
        BY <2>1, <2>3, <3>1
      <4> QED
        BY <2>1, <2>3, <3>1, <4>1 DEF Visible
    <3>2. CASE pc[t] \in Clearing
      <4>0. pc[t] \notin Publishing
        BY <3>2
      <4>1. ~owned'
        BY <2>1, <2>3, <4>0, Zenon
      <4> QED
        <5>1. TypeOK' /\ FreeIsNotOwned'
          BY <2>1, <2>3, <3>2, <4>1 DEF Visible
        <5>2. ASSUME NEW u \in Threads PROVE ThreadInv(u)'
          BY <2>1, <2>3, <3>2, <4>1 DEF Visible
        <5> QED
          BY <5>1, <5>2
    <3> QED
      BY <2>1, <3>1, <3>2
  <2>4. CASE f = "count"
    BY <2>1, <2>4 DEF Visible
  <2> QED
    BY <2>2, <2>3, <2>4
<1>9. ASSUME NEW t \in Threads, Return(t) PROVE IInv'
  BY <1>9 DEF Return
<1>10. ASSUME NEW t \in Threads, UnlockNested(t) PROVE IInv'
  BY <1>10 DEF UnlockNested
<1>11. ASSUME NEW t \in Threads, UnlockLast(t) PROVE IInv'
  BY <1>11 DEF UnlockLast
<1>12. ASSUME NEW t \in Threads, MutexUnlock(t) PROVE IInv'
  BY <1>12 DEF MutexUnlock
<1>13. ASSUME NEW t \in Threads, NEW forever \in BOOLEAN, WaitCall(t, forever) PROVE IInv'
  BY <1>13 DEF WaitCall
<1>14. ASSUME NEW t \in Threads, CondSleep(t) PROVE IInv'
  BY <1>14 DEF CondSleep
<1>15. CASE CondSignal
  BY <1>15 DEF CondSignal, Sleeping
<1>16. CASE CondBroadcast
  BY <1>16 DEF CondBroadcast, Sleeping
<1>17. ASSUME NEW t \in Threads, CondTimeout(t) PROVE IInv'
  BY <1>17 DEF CondTimeout
<1>18. ASSUME NEW t \in Threads, Reacquire(t) PROVE IInv'
  BY <1>18 DEF Reacquire
<1> QED
  BY <1>1, <1>2, <1>3, <1>4, <1>5, <1>6, <1>7, <1>8, <1>9, <1>10, <1>11, <1>12, <1>13,
     <1>14, <1>15, <1>16, <1>17, <1>18, SMTT(60)
  DEF Next, Signal, Step, Shim, Unlock, Wait

\* The induction.
LEMMA Invariance ==
    ASSUME Order = "program"
    PROVE  Spec => []IInv
  BY InitIInv, StepIInv, PTL DEF Spec

-----------------------------------------------------------------------------
\* TypeOK holds of every execution: in particular the unsigned field count never
\* underflows and never exceeds the nesting of the client.
THEOREM TypeCorrect ==
    ASSUME Order = "program"
    PROVE  Spec => []TypeOK
<1>1. IInv => TypeOK
  BY DEF IInv
<1> QED
  BY <1>1, Invariance, PTL

\* Two threads are never in the critical section together (SDL_LockMutex, lines 85-103).
THEOREM Exclusion ==
    ASSUME Order = "program"
    PROVE  Spec => []MutualExclusion
<1>1. IInv => MutualExclusion
  BY DEF IInv, ThreadInv, Holding, MutualExclusion
<1> QED
  BY <1>1, Invariance, PTL

\* What the comment of SDL_LockMutex claims, lines 91-92, in both directions: the
\* recursive path is for the holder, and the holder never goes to mutexLock.
THEOREM RecursionTest ==
    ASSUME Order = "program"
    PROVE  Spec => [](OnlyOwnerRecurses /\ \A t \in Threads : pc[t] = "mutexLock" => h # t)
<1>1. IInv => OnlyOwnerRecurses
  BY DEF IInv, ThreadInv, Holding, OnlyOwnerRecurses, Publishing
<1>2. IInv => \A t \in Threads : pc[t] = "mutexLock" => h # t
  BY DEF IInv, ThreadInv, Holding, Publishing
<1> QED
  BY <1>1, <1>2, Invariance, PTL

\* The fields of the mutex agree with the kernel mutex and with the client's nesting.
THEOREM Bookkeeping ==
    ASSUME Order = "program"
    PROVE  Spec => [](BookkeepingMatches /\ FreeIsNotOwned)
<1>1. IInv => BookkeepingMatches /\ FreeIsNotOwned
  BY DEF IInv, ThreadInv, Holding, BookkeepingMatches, Clearing
<1> QED
  BY <1>1, Invariance, PTL

\* SDL_LockMutex, SDL_UnlockMutex and sdlcompat_cond_wait implement a recursive mutex.
THEOREM Refinement ==
    ASSUME Order = "program"
    PROVE  Spec => ImplementsRecursiveMutex
<1>1. Init => Promise!Init
  BY DEF Init, Promise!Init
<1>2. ASSUME IInv, [Next]_vars PROVE [Promise!Next]_held
  <2> USE <1>2 DEF IInv, TypeOK, ThreadInv, Holding, Publishing, Clearing
  <2>1. ASSUME NEW t \in Threads, Recurse(t) \/ Return(t) PROVE Promise!Next
    <3>1. \A u \in Threads \ {t} : held[u] = 0
      BY <2>1 DEF Recurse, Return
    <3> QED
      BY <2>1, <3>1 DEF Recurse, Return, Promise!Next, Promise!Lock
  <2>2. ASSUME NEW t \in Threads, UnlockNested(t) \/ MutexUnlock(t) \/ CondSleep(t)
        PROVE Promise!Next
    BY <2>2 DEF UnlockNested, MutexUnlock, CondSleep, Promise!Next, Promise!Unlock
  <2>3. ASSUME NEW t \in Threads,
               \/ LockCall(t) \/ UnlockLast(t) \/ Wait(t) \/ LoadOwned(t) \/ LoadOwner(t)
               \/ Store(t) \/ MutexLock(t) \/ MutexLockFails(t) \/ CondTimeout(t) \/ Reacquire(t)
        PROVE UNCHANGED held
    BY <2>3 DEF LockCall, UnlockLast, Wait, WaitCall, LoadOwned, LoadOwner, Store, MutexLock,
                MutexLockFails, CondTimeout, Reacquire
  <2>4. CASE Signal
    BY <2>4 DEF Signal, CondSignal, CondBroadcast
  <2>5. CASE UNCHANGED vars
    BY <2>5 DEF vars
  <2> QED
    BY <2>1, <2>2, <2>3, <2>4, <2>5 DEF Next, Step, Shim, Unlock
<1> QED
  BY <1>1, <1>2, Invariance, PTL DEF Spec, ImplementsRecursiveMutex, Promise!Spec

-----------------------------------------------------------------------------
(* Threads *)

ThreadIInv == ThreadTypeOK /\ BlocksInv

\* No thread has been created.
LEMMA ThreadStarts == ThreadInit => ThreadIInv
BY DEF ThreadInit, ThreadIInv, ThreadTypeOK, Block, BlocksInv

\* One step per operation: each frees only what the creator's place in its call says is
\* allocated.
LEMMA ThreadStep == ThreadIInv /\ [ThreadNext]_threadVars => ThreadIInv'
<1> SUFFICES ASSUME ThreadIInv, [ThreadNext]_threadVars PROVE ThreadIInv'
    OBVIOUS
<1> USE DEF ThreadIInv, ThreadTypeOK, Block, BlocksInv, Free
<1>1. ASSUME NEW x \in Handles, Malloc(x) PROVE ThreadIInv'
    BY <1>1 DEF Malloc
<1>2. ASSUME NEW x \in Handles, MallocStack(x) PROVE ThreadIInv'
    <2>1. CASE UNCHANGED handle
        BY <1>2, <2>1 DEF MallocStack
    <2>2. CASE UNCHANGED stack
        BY <1>2, <2>2 DEF MallocStack
    <2> QED BY <1>2, <2>1, <2>2 DEF MallocStack
<1>3. ASSUME NEW x \in Handles, Begin(x) PROVE ThreadIInv'
    BY <1>3 DEF Begin
<1>4. ASSUME NEW x \in Handles, BeginFails(x) PROVE ThreadIInv'
    BY <1>4 DEF BeginFails
<1>5. ASSUME NEW x \in Handles, Start(x) PROVE ThreadIInv'
    BY <1>5 DEF Start
<1>6. ASSUME NEW x \in Handles, Trampoline(x) PROVE ThreadIInv'
    BY <1>6 DEF Trampoline
<1>7. ASSUME NEW x \in Handles, WaitThread(x) PROVE ThreadIInv'
    BY <1>7 DEF WaitThread
<1>8. ASSUME NEW x \in Handles, Join(x) PROVE ThreadIInv'
    BY <1>8 DEF Join
<1>9. ASSUME NEW x \in Handles, JoinFails(x) PROVE ThreadIInv'
    BY <1>9 DEF JoinFails
<1>10. ASSUME NEW x \in Handles, Detach(x) PROVE ThreadIInv'
    BY <1>10 DEF Detach
<1>11. CASE UNCHANGED threadVars
    BY <1>11 DEF threadVars
<1> QED BY <1>1, <1>2, <1>3, <1>4, <1>5, <1>6, <1>7, <1>8, <1>9, <1>10, <1>11 DEF ThreadNext

\* The inductive invariant holds in every reachable state.
LEMMA ThreadInvariance == ThreadSpec => []ThreadIInv
BY ThreadStarts, ThreadStep, PTL DEF ThreadSpec

\* No block is freed twice, by SDL_CreateThread or by SDL_WaitThread, whatever threadJoin
\* returns.
THEOREM ThreadTypes == ThreadSpec => []ThreadTypeOK
BY ThreadInvariance, PTL DEF ThreadIInv

\* A thread reads its handle and runs on its stack while both are allocated, however late
\* the scheduler starts it, detached or waited for, unless its threadJoin has failed.
THEOREM MemorySafety == ThreadSpec => []ThreadHasItsMemory
<1>1. ThreadIInv => ThreadHasItsMemory
    BY DEF ThreadIInv, ThreadTypeOK, BlocksInv, ThreadHasItsMemory, HasItsMemory
<1> QED BY <1>1, ThreadInvariance, PTL

\* Neither SDL_CreateThread that fails nor SDL_WaitThread leaves the handle or the stack
\* behind, whatever threadJoin returned.
THEOREM NoLeaks == ThreadSpec => []NoBlockLeaks
<1>1. ThreadIInv => NoBlockLeaks
    BY DEF ThreadIInv, ThreadTypeOK, BlocksInv, NoBlockLeaks
<1> QED BY <1>1, ThreadInvariance, PTL

-----------------------------------------------------------------------------
(* The audio feeder *)

SndInv == SndTypeOK /\ SndPhaseInv

\* A write asks for at least one sample, for a chunk at most, and stops at the ring's end.
LEMMA ToWriteBounds ==
    ASSUME NEW p \in Nat
    PROVE  ToWrite(p) \in 1..Chunk /\ (p % Ring) + ToWrite(p) <= Ring
<1>1. p % Ring \in 0..(Ring - 1)
    BY RingAssumption
<1> QED BY <1>1, RingAssumption, ChunkAssumption DEF ToWrite

\* The position stays inside its width.
LEMMA AdvanceWraps ==
    ASSUME NEW p \in Nat, NEW n \in Nat
    PROVE  Advance(p, n) \in 0..(Wrap - 1)
BY WrapAssumption DEF Advance

\* Sound is off.
LEMMA SndInitInv == SndInit => SndInv
<1> SUFFICES ASSUME SndInit PROVE SndInv
    OBVIOUS
<1>1. fd = FALSE /\ snd_run = FALSE
    BY DEF SndInit
<1>2. SndTypeOK
    <2>1. fd \in BOOLEAN /\ snd_run \in BOOLEAN
        BY <1>1, Zenon
    <2>2. 0 \in 0..(Wrap - 1) /\ 0 \in 0..Chunk /\ 0 \in 0..MaxTotal
        BY WrapAssumption, ChunkAssumption, MaxTotalAssumption
    <2> QED BY <2>1, <2>2, Zenon DEF SndInit, SndTypeOK
<1>3. SndPhaseInv
    <2>1. main = "off" <=> ~fd
        BY <1>1, Zenon DEF SndInit
    <2>2. ~snd_run
        BY <1>1, Zenon
    <2> QED BY <2>1, <2>2 DEF SndInit, SndPhaseInv
<1> QED BY <1>2, <1>3 DEF SndInv

\* One step per operation of the game and of the feeder.
LEMMA SndStepInv == SndInv /\ [SndNext]_sndVars => SndInv'
<1> SUFFICES ASSUME SndInv, [SndNext]_sndVars PROVE SndInv'
    OBVIOUS
<1> USE WrapAssumption, ChunkAssumption, MaxTotalAssumption DEF SndInv, SndTypeOK, SndPhaseInv
<1>1. CASE OpenDevice
    BY <1>1 DEF OpenDevice
<1>2. CASE AllocRing
    BY <1>2 DEF AllocRing
<1>3. CASE NoRing
    BY <1>3 DEF NoRing
<1>4. CASE StartFeeder
    BY <1>4 DEF StartFeeder
<1>5. CASE NoFeeder
    BY <1>5 DEF NoFeeder
<1>6. CASE FeederLoop
    <2>1. ToWrite(pos) \in 0..Chunk
        BY ToWriteBounds
    <2> QED BY <1>6, <2>1 DEF FeederLoop
<1>7. CASE FeederWritten
    <2>1. PICK n \in 1..want : total' = total + n /\ total + n <= MaxTotal
                               /\ pos' = Advance(pos, n) /\ playpos' = Advance(pos, n)
        BY <1>7 DEF FeederWritten
    <2>2. pos' \in 0..(Wrap - 1) /\ playpos' \in 0..(Wrap - 1)
        BY <2>1, AdvanceWraps
    <2> QED BY <1>7, <2>1, <2>2 DEF FeederWritten
<1>8. CASE FeederStalled
    BY <1>8 DEF FeederStalled
<1>9. CASE Stop
    BY <1>9 DEF Stop
<1>10. CASE JoinFeeder
    BY <1>10 DEF JoinFeeder
<1>11. CASE Release
    BY <1>11 DEF Release
<1>12. CASE UNCHANGED sndVars
    BY <1>12 DEF sndVars
<1> QED BY <1>1, <1>2, <1>3, <1>4, <1>5, <1>6, <1>7, <1>8, <1>9, <1>10, <1>11, <1>12
        DEF SndNext, Feeder

\* The inductive invariant holds in every reachable state.
LEMMA SndInvariance == SndSpec => []SndInv
BY SndInitInv, SndStepInv, PTL DEF SndSpec

\* pos and snd_playpos stay inside their width, and a write asks for a chunk at most.
THEOREM SndTypes == SndSpec => []SndTypeOK
BY SndInvariance, PTL DEF SndInv

\* The feeder writes from a ring that is allocated, inside its bounds, to a device that is
\* open, for every ring and every chunk.
THEOREM FeederSafety == SndSpec => []FeederIsSafe
<1>1. SndInv => FeederIsSafe
    BY ToWriteBounds, WrapAssumption DEF SndInv, SndTypeOK, SndPhaseInv, FeederIsSafe
<1> QED BY <1>1, SndInvariance, PTL

\* Sound that is off holds no device, no ring and no thread.
THEOREM Clean == SndSpec => []OffIsClean
<1>1. SndInv => OffIsClean
    BY DEF SndInv, SndTypeOK, SndPhaseInv, OffIsClean
<1> QED BY <1>1, SndInvariance, PTL
-----------------------------------------------------------------------------
(* The cursor *)

\* Division leaves a remainder below the divisor.
LEMMA DivMod ==
    ASSUME NEW a \in Nat, NEW m \in Nat \ {0}
    PROVE  \E q \in Nat, r \in 0..(m - 1) : a = m * q + r /\ r = a % m
<1>1. a = m * (a \div m) + (a % m) /\ a % m \in 0..(m - 1) /\ a \div m \in Nat
    OBVIOUS
<1> QED BY <1>1, Zenon

\* Only the remainder is what is left over a multiple.
LEMMA ModUnique ==
    ASSUME NEW q \in Nat, NEW m \in Nat \ {0}, NEW r \in 0..(m - 1)
    PROVE  (m * q + r) % m = r
OBVIOUS

\* Multiples do not show in a remainder.
LEMMA ModOfMultiple ==
    ASSUME NEW q \in Nat, NEW m \in Nat \ {0}, NEW c \in Nat
    PROVE  (m * q + c) % m = c % m
<1>1. PICK d \in Nat, r \in 0..(m - 1) : c = m * d + r /\ r = c % m
    BY DivMod
<1>2. PICK e \in Nat : e = q + d
    OBVIOUS
<1> DEFINE k == m * q
           l == m * d
<1>5. m * e = k + l
    BY <1>2
<1>6. k \in Nat /\ l \in Nat /\ r \in Nat /\ c = l + r
    BY <1>1
<1> HIDE DEF k, l
<1>7. k + c = m * e + r
    BY ONLY <1>5, <1>6
<1>3. m * q + c = m * e + r
    BY ONLY <1>7 DEF k
<1>4. (m * e + r) % m = r
    BY ModUnique, Zenon
<1> QED BY <1>1, <1>3, <1>4, Zenon

\* A counter that wraps after each step is the sum that wraps once.
LEMMA ModStep ==
    ASSUME NEW a \in Nat, NEW n \in Nat, NEW m \in Nat \ {0}
    PROVE  ((a % m) + n) % m = (a + n) % m
<1>1. PICK q \in Nat, b \in 0..(m - 1) : a = m * q + b /\ b = a % m
    BY DivMod
<1>2. PICK c \in Nat : c = b + n
    OBVIOUS
<1> DEFINE k == m * q
<1>5. k \in Nat
    OBVIOUS
<1>6. a = k + b /\ b \in Nat
    BY <1>1
<1> HIDE DEF k
<1>7. a + n = k + c
    BY ONLY <1>2, <1>5, <1>6, n \in Nat
<1>3. a + n = m * q + c
    BY ONLY <1>7 DEF k
<1>4. (m * q + c) % m = c % m
    BY ModOfMultiple, Zenon
<1> QED BY <1>1, <1>2, <1>3, <1>4, Zenon

\* A counter that wraps at a multiple of r is right modulo r.
LEMMA ModMod ==
    ASSUME NEW a \in Nat, NEW r \in Nat \ {0}, NEW w \in Nat \ {0}, w % r = 0
    PROVE  (a % w) % r = a % r
<1>1. PICK q \in Nat, b \in 0..(w - 1) : a = w * q + b /\ b = a % w
    BY DivMod
<1>2. PICK k \in Nat : w = r * k
    <2>1. PICK k \in Nat, e \in 0..(r - 1) : w = r * k + e /\ e = w % r
        BY DivMod
    <2>2. e = 0
        BY ONLY <2>1, w % r = 0, Zenon
    <2> DEFINE n == r * k
    <2>5. n \in Nat
        BY ONLY r \in Nat, k \in Nat
    <2>3. w = n + e
        BY ONLY <2>1, Zenon
    <2> HIDE DEF n
    <2>6. n + 0 = n
        BY ONLY <2>5
    <2>4. w = n
        BY ONLY <2>2, <2>3, <2>6, Zenon
    <2> QED BY ONLY <2>4, k \in Nat, Zenon DEF n
<1>3. PICK e \in Nat : e = k * q
    OBVIOUS
<1>4. a = r * e + b /\ b \in Nat
    BY <1>1, <1>2, <1>3
<1>5. (r * e + b) % r = b % r
    BY <1>4, ModOfMultiple, ZenonT(60)
<1> QED BY <1>1, <1>4, <1>5, Zenon

\* No sound, no cursor.
LEMMA InitCursor == SndInit => SndCursorInv
BY DEF SndInit, SndCursorInv

\* Both copies of the cursor move with what the device accepts.
LEMMA StepCursor == SndInv /\ SndCursorInv /\ [SndNext]_sndVars => SndCursorInv'
<1> SUFFICES ASSUME SndInv, SndCursorInv, [SndNext]_sndVars PROVE SndCursorInv'
    OBVIOUS
<1> USE WrapAssumption DEF SndInv, SndTypeOK, SndPhaseInv, SndCursorInv
<1>1. CASE OpenDevice
    BY <1>1 DEF OpenDevice
<1>2. CASE AllocRing
    BY <1>2 DEF AllocRing
<1>3. CASE NoRing
    BY <1>3 DEF NoRing
<1>4. CASE StartFeeder
    BY <1>4 DEF StartFeeder
<1>5. CASE NoFeeder
    BY <1>5 DEF NoFeeder
<1>6. CASE FeederLoop
    BY <1>6 DEF FeederLoop
<1>7. CASE FeederWritten
    <2>1. PICK n \in 1..want : total' = total + n
                               /\ pos' = Advance(pos, n) /\ playpos' = Advance(pos, n)
        BY <1>7 DEF FeederWritten
    <2>2. main' = main /\ feeder' = "loop" /\ main # "allocated" /\ pos = total % Wrap
        BY <1>7 DEF FeederWritten
    <2>3. ((total % Wrap) + n) % Wrap = (total + n) % Wrap
        <3>1. total \in Nat /\ n \in Nat
            BY <2>1, ChunkAssumption, MaxTotalAssumption
        <3> QED BY ONLY <3>1, WrapAssumption, ModStep, ZenonT(30)
    <2>4. pos' = total' % Wrap /\ playpos' = pos'
        BY ONLY <2>1, <2>2, <2>3 DEF Advance
    <2> QED BY <2>2, <2>4 DEF SndCursorInv
<1>8. CASE FeederStalled
    BY <1>8 DEF FeederStalled
<1>9. CASE Stop
    BY <1>9 DEF Stop
<1>10. CASE JoinFeeder
    BY <1>10 DEF JoinFeeder
<1>11. CASE Release
    BY <1>11 DEF Release
<1>12. CASE UNCHANGED sndVars
    BY <1>12 DEF sndVars
<1> QED BY <1>1, <1>2, <1>3, <1>4, <1>5, <1>6, <1>7, <1>8, <1>9, <1>10, <1>11, <1>12
        DEF SndNext, Feeder

\* SNDDMA_GetDMAPos is where the device is in the ring, however long the sound has played:
\* the counter wraps at a multiple of the ring.
THEOREM CursorTruth == SndSpec => []CursorIsTrue
<1>1. SndInv /\ SndCursorInv => CursorIsTrue
    <2> SUFFICES ASSUME SndInv, SndCursorInv, feeder \in {"loop", "write"}
                 PROVE  playpos % Ring = total % Ring
        BY DEF CursorIsTrue, SNDDMA_GetDMAPos
    <2>1. playpos = total % Wrap
        BY DEF SndCursorInv
    <2>2. total \in Nat
        BY MaxTotalAssumption DEF SndInv, SndTypeOK
    <2>3. (total % Wrap) % Ring = total % Ring
        BY <2>2, ModMod, RingAssumption, WrapAssumption
    <2> QED BY <2>1, <2>3, Zenon
<1> QED BY <1>1, InitCursor, StepCursor, SndInvariance, PTL DEF SndSpec
=============================================================================
