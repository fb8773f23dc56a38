------------------------------ MODULE SndFeeder ------------------------------
(***************************************************************************)
(* The audio back end of the Quake ports                                   *)
(* (tools/vkquake-port/platform/pl_phoenix_snd.c and its twin in           *)
(* tools/quakespasm-port/platform): a feeder thread reads the mixer's ring *)
(* behind the paint cursor and writes it to /dev/audio0.  Its position is  *)
(* an unsigned int that the game reads, modulo the ring, without a lock.   *)
(***************************************************************************)
EXTENDS Naturals

CONSTANTS
    Ring,       \* SND_RING_SMP, the samples in the ring
    Chunk,      \* SND_CHUNK_SMP, the most that one write() asks for
    Wrap,       \* 2^32 for the code: where the position wraps
    MaxTotal    \* bound: samples that one session plays

ASSUME RingAssumption == Ring \in Nat \ {0}
ASSUME ChunkAssumption == Chunk \in Nat \ {0}
ASSUME WrapAssumption == Wrap \in Nat \ {0} /\ Wrap % Ring = 0
ASSUME MaxTotalAssumption == MaxTotal \in Nat

VARIABLES
    main,       \* where the game is: in no call while sound is "off" or "on"
    fd,         \* snd_fd is open
    ring,       \* snd_ring: "null" or "allocated"
    snd_run,        \* the feeder is to go on
    feeder,     \* where the feeder thread is
    pos, want,  \* its cursor, and what its write() asks for
    playpos,    \* snd_playpos
    total       \* samples that the device has accepted (a history variable)

sndVars == <<main, fd, ring, snd_run, feeder, pos, want, playpos, total>>

\* The position is an unsigned int, and a write asks for a chunk at most.
SndTypeOK ==
    /\ main \in {"off", "opened", "allocated", "on", "joining", "freeing"}
    /\ fd \in BOOLEAN /\ snd_run \in BOOLEAN
    /\ ring \in {"null", "allocated"}
    /\ feeder \in {"none", "loop", "write", "ended"}
    /\ pos \in 0..(Wrap - 1) /\ playpos \in 0..(Wrap - 1)
    /\ want \in 0..Chunk
    /\ total \in 0..MaxTotal

SndInit ==
    /\ main = "off"
    /\ fd = FALSE /\ ring = "null" /\ snd_run = FALSE
    /\ feeder = "none"
    /\ pos = 0 /\ want = 0 /\ playpos = 0 /\ total = 0

-----------------------------------------------------------------------------
(* Plausible slips, each a wrong version of the definition it is named after. *)
(* No specification uses them.                                                *)

\* A position that wraps where the ring does not.
Advance_ShortWrap(p, n) == (p + n) % (Wrap - 1)

\* The ring goes without a word to the feeder.
JoinFeeder_NotWaited ==
    /\ main = "joining"
    /\ main' = "freeing"
    /\ UNCHANGED <<fd, ring, snd_run, feeder, pos, want, playpos, total>>

\* No memory for the ring: the device stays open.
NoRing_KeepsDevice ==
    /\ main = "opened"
    /\ main' = "off"
    /\ UNCHANGED <<fd, ring, snd_run, feeder, pos, want, playpos, total>>

\* The feeder does not look at snd_run.
FeederLoop_Forever ==
    /\ feeder = "loop"
    /\ feeder' = "write"
    /\ want' = 1
    /\ UNCHANGED <<main, fd, ring, snd_run, pos, playpos, total>>

-----------------------------------------------------------------------------
(* SNDDMA_Init *)

OpenDevice ==
    /\ main = "off"
    /\ fd' = TRUE
    /\ main' = "opened"
    /\ UNCHANGED <<ring, snd_run, feeder, pos, want, playpos, total>>

AllocRing ==
    /\ main = "opened"
    /\ ring' = "allocated"
    /\ playpos' = 0
    /\ snd_run' = TRUE
    /\ main' = "allocated"
    /\ UNCHANGED <<fd, feeder, pos, want, total>>

NoRing ==
    /\ main = "opened"
    /\ fd' = FALSE
    /\ main' = "off"
    /\ UNCHANGED <<ring, snd_run, feeder, pos, want, playpos, total>>

StartFeeder ==
    /\ main = "allocated"
    /\ feeder' = "loop"
    /\ pos' = 0 /\ total' = 0
    /\ main' = "on"
    /\ UNCHANGED <<fd, ring, snd_run, want, playpos>>

NoFeeder ==
    /\ main = "allocated"
    /\ snd_run' = FALSE
    /\ ring' = "null"
    /\ fd' = FALSE
    /\ main' = "off"
    /\ UNCHANGED <<feeder, pos, want, playpos, total>>

-----------------------------------------------------------------------------
(* snd_feeder_fn *)

Advance(p, n) == (p + n) % Wrap

\* No write wraps around the end of the ring.
ToWrite(p) == LET toEnd == Ring - (p % Ring) IN IF Chunk < toEnd THEN Chunk ELSE toEnd

FeederLoop ==
    /\ feeder = "loop"
    /\ IF snd_run THEN feeder' = "write" /\ want' = ToWrite(pos)
       ELSE feeder' = "ended" /\ UNCHANGED want
    /\ UNCHANGED <<main, fd, ring, snd_run, pos, playpos, total>>

\* write() returns; the device has accepted n samples, perhaps fewer than asked for.
FeederWritten ==
    /\ feeder = "write"
    /\ \E n \in 1..want :
         /\ total + n <= MaxTotal
         /\ total' = total + n
         /\ pos' = Advance(pos, n)
         /\ playpos' = Advance(pos, n)
    /\ feeder' = "loop"
    /\ UNCHANGED <<main, fd, ring, snd_run, want>>

\* write() fails: back off, keep the cursor.
FeederStalled ==
    /\ feeder = "write"
    /\ feeder' = "loop"
    /\ UNCHANGED <<main, fd, ring, snd_run, pos, want, playpos, total>>

-----------------------------------------------------------------------------
(* SNDDMA_Shutdown *)

Stop ==
    /\ main = "on"
    /\ snd_run' = FALSE
    /\ main' = "joining"
    /\ UNCHANGED <<fd, ring, feeder, pos, want, playpos, total>>

JoinFeeder ==
    /\ main = "joining"
    /\ feeder = "ended"
    /\ feeder' = "none"
    /\ main' = "freeing"
    /\ UNCHANGED <<fd, ring, snd_run, pos, want, playpos, total>>

Release ==
    /\ main = "freeing"
    /\ ring' = "null"
    /\ fd' = FALSE
    /\ main' = "off"
    /\ UNCHANGED <<snd_run, feeder, pos, want, playpos, total>>

SNDDMA_GetDMAPos == playpos % Ring

-----------------------------------------------------------------------------
Feeder == FeederLoop \/ FeederWritten \/ FeederStalled

SndNext ==
    \/ OpenDevice \/ AllocRing \/ NoRing \/ StartFeeder \/ NoFeeder
    \/ Feeder
    \/ Stop \/ JoinFeeder \/ Release

SndSpec == SndInit /\ [][SndNext]_sndVars

\* write() returns, with data accepted at the playback rate or with an error.
SndFairSpec == SndSpec /\ WF_sndVars(Feeder) /\ WF_sndVars(JoinFeeder) /\ WF_sndVars(Release)

-----------------------------------------------------------------------------
(* Properties *)

\* The feeder's write() reads the ring, inside its bounds, and the device is open: neither
\* a shutdown nor a failed start takes them away under it.
FeederIsSafe ==
    feeder = "write" => ring = "allocated" /\ fd /\ (pos % Ring) + want <= Ring

\* "Hardware play cursor in mono samples, mod the ring" (line 116): the position the game
\* reads is where the device is in the ring, also after the counter has wrapped.
CursorIsTrue ==
    feeder \in {"loop", "write"} => SNDDMA_GetDMAPos = total % Ring

\* Sound that is off owns nothing, however SNDDMA_Init or SNDDMA_Shutdown got there.
OffIsClean == main = "off" => ~fd /\ ring = "null" /\ ~snd_run /\ feeder = "none"

\* What the proofs are by induction on: where the game is tells what exists, and the
\* feeder lives only between its start and its join.
SndPhaseInv ==
    /\ main \in {"off", "opened", "allocated", "freeing"} => feeder = "none"
    /\ main \in {"allocated", "on", "joining", "freeing"} <=> ring = "allocated"
    /\ main = "off" <=> ~fd
    /\ main \in {"off", "opened", "joining", "freeing"} => ~snd_run
    /\ feeder = "write" => want = ToWrite(pos)

\* The feeder's cursor is what the device has accepted, modulo the width of the counter, and
\* the game's copy of it is never behind.
SndCursorInv ==
    /\ main = "allocated" => playpos = 0
    /\ feeder \in {"loop", "write"} => pos = total % Wrap /\ playpos = pos

\* SNDDMA_Shutdown returns.
ShutdownReturns == main = "joining" ~> main = "off"
=============================================================================
