------------------------------- MODULE PtyRun -------------------------------
(***************************************************************************)
(* pty-run (tools/pty-run/pty-run.c) runs a program on a pseudo terminal   *)
(* and carries bytes between it and the console.                           *)
(*                                                                         *)
(* One loop serves two directions and the death of the child.  The master  *)
(* does not block: what it does not take of the input is gone, and what    *)
(* the child has written when its death is seen is gone as well, and so is *)
(* what standard output does not take.                                     *)
(*                                                                         *)
(* Bytes are numbered, in each direction, in the order they are produced.  *)
(***************************************************************************)
EXTENDS Naturals, Sequences, Functions

CONSTANTS
    Chunk,          \* sizeof(buf)
    Room,           \* what the pty holds in each direction
    MaxTyped, MaxWritten    \* bounds: bytes in either direction

ASSUME SizeAssumption == Chunk \in Nat \ {0} /\ Room \in Nat \ {0}
ASSUME BoundsAssumption == MaxTyped \in Nat /\ MaxWritten \in Nat

VARIABLES
    parent,         \* where the parent is: "reap", "select", "stdin", "master"; "done"
    ready,          \* rfds, after select
    child,          \* "running", "zombie", "reaped"
    slave,          \* "unopened", "open" in the child or what it started, "closed"
    console,        \* typed and not read
    eof,            \* the console is closed
    toChild, toParent,      \* the pty
    typed, written, \* history: how many bytes were typed, and written to the slave
    got,            \* history: what was read from the slave
    out,            \* history: what standard output took
    refused         \* history: what it was given and did not take

ptyVars ==
    <<parent, ready, child, slave, console, eof, toChild, toParent, typed, written, got, out, refused>>
pty == <<slave, toChild, toParent, written, got>>
input == <<console, eof, typed>>
display == <<out, refused>>

PtyTypeOK ==
    /\ parent \in {"reap", "select", "stdin", "master", "done"}
    /\ ready \subseteq {"stdin", "master"}
    /\ child \in {"running", "zombie", "reaped"} /\ (child = "reaped" => parent = "done")
    /\ slave \in {"unopened", "open", "closed"}
    /\ console \in Seq(1..MaxTyped) /\ eof \in BOOLEAN
    /\ toChild \in Seq(1..MaxTyped) /\ Len(toChild) <= Room
    /\ toParent \in Seq(1..MaxWritten) /\ Len(toParent) <= Room
    /\ typed \in 0..MaxTyped /\ written \in 0..MaxWritten
    /\ got \in Seq(1..MaxTyped) /\ out \in Seq(1..MaxWritten) /\ refused \subseteq 1..MaxWritten

\* The parent has forked, and its master does not block.
PtyInit ==
    /\ parent = "reap" /\ ready = {}
    /\ child = "running" /\ slave = "unopened"
    /\ console = <<>> /\ eof = FALSE
    /\ toChild = <<>> /\ toParent = <<>>
    /\ typed = 0 /\ written = 0 /\ got = <<>> /\ out = <<>> /\ refused = {}

Taken(s, n) == SubSeq(s, 1, n)
Left(s, n) == SubSeq(s, n + 1, Len(s))
Smaller(a, b) == IF a < b THEN a ELSE b

-----------------------------------------------------------------------------
(* The parent *)

Waitpid ==
    /\ parent = "reap"
    /\ IF child = "zombie" THEN child' = "reaped" /\ parent' = "done"
       ELSE parent' = "select" /\ UNCHANGED child
    /\ UNCHANGED <<ready, input, pty, display>>

Readable ==
    {f \in {"stdin", "master"} : \/ f = "stdin" /\ (console # <<>> \/ eof)
                                 \/ f = "master" /\ (toParent # <<>> \/ slave = "closed")}

\* A timeout, or EINTR, leads back to waitpid; any other error ends the loop.
Select ==
    /\ parent = "select"
    /\ \/ Readable # {} /\ ready' = Readable /\ parent' = "stdin"
       \/ ready' = {} /\ parent' \in {"reap", "done"}
    /\ UNCHANGED <<child, input, pty, display>>

\* Slip: the pty takes all that is written to it.
Accepted_All(n) == 0..n

\* The master takes what it has room for, or less.
Accepted(n) == 0..Smaller(n, Room - Len(toChild))

\* Of n bytes that were read, of which the master took k, n are gone.
Consumed(n, k) == n

ReadStdin ==
    /\ parent = "stdin"
    /\ \/ /\ "stdin" \notin ready
          /\ parent' = "master" /\ UNCHANGED <<console, toChild>>
       \/ /\ "stdin" \in ready /\ console # <<>>
          /\ LET n == Smaller(Len(console), Chunk) IN
             \E k \in Accepted(n) :
                /\ toChild' = toChild \o Taken(console, k)
                /\ console' = Left(console, Consumed(n, k))
          /\ parent' = "master"
       \/ /\ "stdin" \in ready /\ console = <<>>
          /\ parent' = "done" /\ UNCHANGED <<console, toChild>>
    /\ UNCHANGED <<ready, child, slave, eof, toParent, typed, written, got, display>>

\* Slip: what standard output did not take is written again, from the start of the buffer.
Shown_Restarted(n, k) ==
    IF k = n THEN Taken(toParent, n) ELSE Taken(toParent, k) \o Taken(toParent, n)

\* What standard output gets of the n bytes that were read when its write takes k.
Shown(n, k) == Taken(toParent, k)

\* n bytes are read, and standard output takes all of them, a part, or none when the write
\* fails. Nobody looks at the result.
Copy ==
    LET n == Smaller(Len(toParent), Chunk) IN
    \E k \in 0..n :
        /\ out' = out \o Shown(n, k)
        /\ refused' = refused \cup {toParent[i] : i \in (k + 1)..n}
        /\ toParent' = Left(toParent, n)

\* Slip: an error of read goes straight back to select, and waitpid is left to the timeout.
ReadMaster_SkipsReap ==
    /\ parent = "master"
    /\ \/ /\ "master" \in ready /\ toParent # <<>>
          /\ Copy
          /\ parent' = "reap"
       \/ /\ "master" \in ready /\ toParent = <<>>
          /\ parent' \in {"done", "select"} /\ UNCHANGED <<toParent, display>>
       \/ /\ "master" \notin ready
          /\ parent' = "reap" /\ UNCHANGED <<toParent, display>>
    /\ UNCHANGED <<ready, child, slave, input, toChild, written, got>>

\* Without data, the closed slave is an end of file, or an error, which is ignored.
ReadMaster ==
    /\ parent = "master"
    /\ \/ /\ "master" \in ready /\ toParent # <<>>
          /\ Copy
          /\ parent' = "reap"
       \/ /\ "master" \in ready /\ toParent = <<>>
          /\ parent' \in {"done", "reap"} /\ UNCHANGED <<toParent, display>>
       \/ /\ "master" \notin ready
          /\ parent' = "reap" /\ UNCHANGED <<toParent, display>>
    /\ UNCHANGED <<ready, child, slave, input, toChild, written, got>>

Parent == Waitpid \/ Select \/ ReadStdin \/ ReadMaster

-----------------------------------------------------------------------------
(* The console, the child and what it started *)

Type ==
    /\ ~eof /\ typed < MaxTyped
    /\ typed' = typed + 1 /\ console' = Append(console, typed + 1)
    /\ UNCHANGED <<parent, ready, child, eof, pty, display>>

CloseConsole ==
    /\ ~eof /\ eof' = TRUE
    /\ UNCHANGED <<parent, ready, child, console, typed, pty, display>>

\* The child opens the slave on its standard descriptors and executes the program.
OpenSlave ==
    /\ child = "running" /\ slave = "unopened" /\ slave' = "open"
    /\ UNCHANGED <<parent, ready, child, input, toChild, toParent, written, got, display>>

\* What the child has started may go on to use the slave after it.
WriteSlave ==
    /\ slave = "open" /\ written < MaxWritten /\ Len(toParent) < Room
    /\ written' = written + 1 /\ toParent' = Append(toParent, written + 1)
    /\ UNCHANGED <<parent, ready, child, slave, input, toChild, got, display>>

ReadSlave ==
    /\ slave = "open" /\ toChild # <<>>
    /\ got' = Append(got, Head(toChild)) /\ toChild' = Tail(toChild)
    /\ UNCHANGED <<parent, ready, child, slave, input, toParent, written, display>>

CloseSlave ==
    /\ slave = "open" /\ slave' = "closed"
    /\ UNCHANGED <<parent, ready, child, input, toChild, toParent, written, got, display>>

\* setsid, open or exec may fail.
ChildExits ==
    /\ child = "running" /\ child' = "zombie"
    /\ UNCHANGED <<parent, ready, input, pty, display>>

-----------------------------------------------------------------------------
PtyNext ==
    \/ Parent
    \/ Type \/ CloseConsole
    \/ OpenSlave \/ WriteSlave \/ ReadSlave \/ CloseSlave \/ ChildExits

PtySpec == PtyInit /\ [][PtyNext]_ptyVars

\* The parent is scheduled, select has a timeout, and a write to standard output returns.
PtyFairSpec == PtySpec /\ WF_ptyVars(Parent)

-----------------------------------------------------------------------------
(* Properties *)

\* What the program writes reaches standard output once and in order, and nothing is missing
\* in the middle but what standard output did not take, a write being short or failing (line
\* 146); besides that only the end may be missing, read by nobody (lines 143-147). What the
\* program reads was typed in that order, and nothing of it twice: a master that is full costs
\* input and repeats none (line 137).
BytesAreFaithful ==
    LET shown == out \o toParent
        received == got \o toChild
    IN  /\ \A i, j \in DOMAIN shown : i < j => shown[i] < shown[j]
        /\ Range(shown) = (1..written) \ refused
        /\ \A i, j \in DOMAIN received : i < j => received[i] < received[j]

\* The parent sees the death of its child, typed at or not, though what the child has started
\* may hold the pty for ever (lines 112-115, 122-132), as long as each of its writes to
\* standard output, which may block (line 146), returns.
EndsWithChild == child = "zombie" ~> parent = "done"
=============================================================================
