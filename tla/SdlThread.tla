------------------------------ MODULE SdlThread ------------------------------
(***************************************************************************)
(* SDL threads on Phoenix                                                  *)
(* (tools/vkquake-port/platform/pl_phoenix_sdlcompat.c): the handle and    *)
(* the stack of a thread are two heap blocks that its creator owns, while  *)
(* the thread itself starts, reads its handle and ends when the scheduler  *)
(* lets it.  The engine joins a thread or detaches it, once; a join frees  *)
(* both blocks, whether threadJoin did wait for the thread or failed.      *)
(*                                                                         *)
(* No name here is one of SdlMutex, so that SdlProofs can extend both.     *)
(***************************************************************************)
EXTENDS Naturals

CONSTANT Handles    \* the threads that are ever created

VARIABLES
    handle, \* handle[x]: the block of struct SDL_Thread, t in the source
    stack,  \* stack[x]: the block of its stack
    run,    \* run[x]: the thread
    call    \* call[x]: where its creator is

threadVars == <<handle, stack, run, call>>

Block == {"none", "allocated", "free"}

\* free(): a block that is not allocated is no longer a block.
Free(b) == IF b = "allocated" THEN "free" ELSE "corrupt"

\* No block is freed twice, or before it is allocated.
ThreadTypeOK ==
    /\ handle \in [Handles -> Block]
    /\ stack \in [Handles -> Block]
    /\ run \in [Handles -> {"none", "ready", "running", "ended"}]
    /\ call \in [Handles -> {"none", "malloc", "begin", "failed", "owned",
                             "joining", "joined", "unjoined", "detached"}]

ThreadInit ==
    /\ handle = [x \in Handles |-> "none"]
    /\ stack = [x \in Handles |-> "none"]
    /\ run = [x \in Handles |-> "none"]
    /\ call = [x \in Handles |-> "none"]

-----------------------------------------------------------------------------
(* Plausible slips, each a wrong version of the definition it is named after. *)
(* No specification uses them.                                                *)

\* The handle is freed by the detach, as SDL itself would.
Detach_Frees(x) ==
    /\ call[x] = "owned"
    /\ call' = [call EXCEPT ![x] = "detached"]
    /\ handle' = [handle EXCEPT ![x] = Free(@)]
    /\ UNCHANGED <<stack, run>>

\* The thread frees its own handle, so that a detached one does not leak it.
Trampoline_FreesHandle(x) ==
    /\ run[x] = "running"
    /\ run' = [run EXCEPT ![x] = "ended"]
    /\ handle' = [handle EXCEPT ![x] = Free(@)]
    /\ UNCHANGED <<stack, call>>

\* A failed beginthreadex frees the handle and forgets the stack.
BeginFails_KeepsStack(x) ==
    /\ call[x] = "begin"
    /\ handle' = [handle EXCEPT ![x] = Free(@)]
    /\ call' = [call EXCEPT ![x] = "failed"]
    /\ UNCHANGED <<stack, run>>

\* A join frees the handle alone: the stack is taken for a lifetime stack.
Join_KeepsStack(x) ==
    /\ call[x] = "joining"
    /\ run[x] = "ended"
    /\ handle' = [handle EXCEPT ![x] = Free(@)]
    /\ call' = [call EXCEPT ![x] = "joined"]
    /\ UNCHANGED <<stack, run>>

-----------------------------------------------------------------------------
(* SDL_CreateThread *)

\* The handle, and then the stack, or neither.
Malloc(x) ==
    /\ call[x] = "none"
    /\ handle' = [handle EXCEPT ![x] = "allocated"]
    /\ call' = [call EXCEPT ![x] = "malloc"]
    /\ UNCHANGED <<stack, run>>

MallocStack(x) ==
    /\ call[x] = "malloc"
    /\ \/ /\ stack' = [stack EXCEPT ![x] = "allocated"]
          /\ call' = [call EXCEPT ![x] = "begin"]
          /\ UNCHANGED handle
       \/ /\ handle' = [handle EXCEPT ![x] = Free(@)]
          /\ call' = [call EXCEPT ![x] = "failed"]
          /\ UNCHANGED stack
    /\ UNCHANGED run

\* beginthreadex: from here on the thread may run before its creator does.
Begin(x) ==
    /\ call[x] = "begin"
    /\ run' = [run EXCEPT ![x] = "ready"]
    /\ call' = [call EXCEPT ![x] = "owned"]
    /\ UNCHANGED <<handle, stack>>

BeginFails(x) ==
    /\ call[x] = "begin"
    /\ stack' = [stack EXCEPT ![x] = Free(@)]
    /\ handle' = [handle EXCEPT ![x] = Free(@)]
    /\ call' = [call EXCEPT ![x] = "failed"]
    /\ UNCHANGED run

-----------------------------------------------------------------------------
(* pl_thread_trampoline: t->fn and t->arg are read when the thread starts *)

Start(x) ==
    /\ run[x] = "ready"
    /\ run' = [run EXCEPT ![x] = "running"]
    /\ UNCHANGED <<handle, stack, call>>

Trampoline(x) ==
    /\ run[x] = "running"
    /\ run' = [run EXCEPT ![x] = "ended"]
    /\ UNCHANGED <<handle, stack, call>>

-----------------------------------------------------------------------------
(* SDL_WaitThread and SDL_DetachThread *)

WaitThread(x) ==
    /\ call[x] = "owned"
    /\ call' = [call EXCEPT ![x] = "joining"]
    /\ UNCHANGED <<handle, stack, run>>

\* threadJoin has waited for the thread, and both blocks are freed.
Join(x) ==
    /\ call[x] = "joining"
    /\ run[x] = "ended"
    /\ stack' = [stack EXCEPT ![x] = Free(@)]
    /\ handle' = [handle EXCEPT ![x] = Free(@)]
    /\ call' = [call EXCEPT ![x] = "joined"]
    /\ UNCHANGED run

\* threadJoin returns an error, wherever the thread is. Nobody looks at it: both blocks are
\* freed all the same.
JoinFails(x) ==
    /\ call[x] = "joining"
    /\ stack' = [stack EXCEPT ![x] = Free(@)]
    /\ handle' = [handle EXCEPT ![x] = Free(@)]
    /\ call' = [call EXCEPT ![x] = "unjoined"]
    /\ UNCHANGED run

\* Nothing: both blocks stay for the life of the process.
Detach(x) ==
    /\ call[x] = "owned"
    /\ call' = [call EXCEPT ![x] = "detached"]
    /\ UNCHANGED <<handle, stack, run>>

-----------------------------------------------------------------------------
ThreadNext ==
    \E x \in Handles :
        \/ Malloc(x) \/ MallocStack(x) \/ Begin(x) \/ BeginFails(x)
        \/ Start(x) \/ Trampoline(x)
        \/ WaitThread(x) \/ Join(x) \/ JoinFails(x) \/ Detach(x)

ThreadSpec == ThreadInit /\ [][ThreadNext]_threadVars

-----------------------------------------------------------------------------
(* Properties *)

\* Until the trampoline has read it the handle is there, and the stack for as long as the thread.
HasItsMemory(x) ==
    /\ run[x] = "ready" => handle[x] = "allocated"
    /\ run[x] \in {"ready", "running"} => stack[x] = "allocated"

\* "freeing t now is a use-after-free" (lines 347-348): a thread has its memory, created but
\* not started, detached or waited for. The exception is a thread whose threadJoin failed
\* (line 337), since SDL_WaitThread frees both blocks then too.
ThreadHasItsMemory == \A x \in Handles : call[x] # "unjoined" => HasItsMemory(x)

\* SDL_CreateThread that fails, and SDL_WaitThread, whatever threadJoin returned, leave
\* neither block behind. Only a detached thread keeps both, on purpose (lines 349-351).
NoBlockLeaks ==
    \A x \in Handles :
        call[x] \in {"failed", "joined", "unjoined"} =>
            handle[x] # "allocated" /\ stack[x] # "allocated"

\* Not so in the code, nor checked: the same without the exception. SDL_WaitThread ignores
\* the result of threadJoin, and may free the handle and the stack of a thread that runs.
MemoryOutlivesThread == \A x \in Handles : HasItsMemory(x)

\* What the proofs are by induction on: where the creator is tells which blocks there are.
BlocksInv ==
    \A x \in Handles :
        /\ call[x] = "none" => handle[x] = "none" /\ stack[x] = "none" /\ run[x] = "none"
        /\ call[x] = "malloc" => handle[x] = "allocated" /\ stack[x] = "none" /\ run[x] = "none"
        /\ call[x] = "begin" => handle[x] = "allocated" /\ stack[x] = "allocated" /\ run[x] = "none"
        /\ call[x] \in {"owned", "joining"} => handle[x] = "allocated" /\ stack[x] = "allocated"
        /\ call[x] = "failed" => handle[x] = "free" /\ stack[x] # "allocated" /\ run[x] = "none"
        /\ call[x] = "detached" => handle[x] = "allocated" /\ stack[x] = "allocated"
        /\ call[x] \in {"joined", "unjoined"} => handle[x] = "free" /\ stack[x] = "free"
        /\ call[x] = "joined" => run[x] = "ended"
=============================================================================
