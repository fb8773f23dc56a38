# Verification of phoenix-rpi

TLA+ models, TLC runs and TLAPS proofs for the concurrent parts of this
repository, the Raspberry Pi 4 port of Phoenix-RTOS. The kernel, libphoenix and
the device drivers are git submodules and not part of the tree; what is here is
the software built around them: ports with their platform layers, launchers,
probes, the scripts of the test lab, and, under `docs/misc`, one complete
version of the kernel's AF_UNIX socket layer.

`PROJECT.json` lists the components, the source lines behind every definition,
the runs, the mutants, the findings, the hazards and the theorems.

## Inventory

| Component | State | Operations | What is hard | What makes it correct |
|---|---|---|---|---|
| SDL mutex and condition shim (`pl_phoenix_sdlcompat.c`) | kernel mutex `h`, plain fields `owner`, `owned`, `count` | lock, unlock, wait, timed wait, signal, broadcast | the fields are read before the mutex is held; a wait gives the mutex away | mutual exclusion, a holder recognises itself, bookkeeping survives a wait |
| SDL thread shim (same file) | two heap blocks per thread | create, start, end, join, detach | the thread runs when the scheduler lets it | memory outlives its use, failures leak nothing |
| Audio feeder (`pl_phoenix_snd.c`, two identical copies) | device, ring, `snd_run`, 32-bit position | init, feeder loop, position, shutdown | a thread inside `write()` while sound is shut down; wrap of the position | no access after free, a true cursor, shutdown returns |
| X session launcher (`pl_phoenix_xlaunch.c`) | pids, loop counters, a signal flag | start daemon, server and clients; supervise; tear down | any process exits at any time; SIGALRM anywhere; vfork fails | signals only its own children, leaves nobody behind, ends when it should |
| AF_UNIX sockets (`docs/misc/2026-09-02-unix-connecting-ref-attempt.c.txt`) | a tree of counted structures, lists of connecting sockets, weak pointers between peers, wait queues, buffers | socket, socketpair, bind, listen, accept, connect, close, shutdown; send, recv, poll, SO_RCVBUF | two kinds of lock that do not exclude each other, ids that are reused at once, check-then-wait | no use after free, balanced counts, mutual peers, no lost wakeup |
| Lab scripts (`scripts/test-cycle-netboot.sh` and others) | a lock on the board, captures, verdicts | power, boot, capture, judge | retries, partial captures | a verdict belongs to its run |
| X server DDX (`ddx/fbdev.c`) | texture, shadow, `/dev/fb0`, damage accumulator, flush timer, cursor sprite | damage callback, tick, idle flush, cursor set, move and hide | whole rows are written of which a part was read back; the sprite lives only on the screen; writes are cut short | the screen catches up, never goes back, and shows one whole cursor |
| Wi-Fi probe (`wifi-probe.c`) | one FIFO of answers, events and data; join status; DHCP state | commands, join with retries, DISCOVER and REQUEST rounds | each loop starts with what the one before it left; late and refused commands, events of earlier attempts, late, repeated and foreign replies | no late answer is taken for another, an ACK for the probe binds a lease, every loop ends |
| Pseudo terminal runner (`pty-run.c`) | a loop over console, pty and child | reap, select, copy in, copy out | the child's death against its last output; a full pty; short writes; a slave that outlives the child | bytes in order and once; it ends with its child |
| FFmpeg players (`e4_x11_play.c`, `e4_play.c`) | decoder, screen, sound device | decode, present, play | one sequential loop each | what FFmpeg makes correct |
| Loader, HEVC, PWM/DMA, allocator harness, back ends | see `PROJECT.json` | | sequential, or state in hardware | |

How they meet: the X launcher probes the server through AF_UNIX `connect()` and
supervises it; the server and its clients talk through AF_UNIX `send`, `recv`
and `poll`, and what the server draws reaches the screen through the DDX; the Quake
ports run their workers on the SDL shim and their sound on the feeder thread.

The AF_UNIX file is the version the workorder
`docs/misc/2026-09-02-kernel-heap-corruption-workorder.md` describes as an
attempt ("the connecting list owns a reference") and keeps for reference. It is
the only version of that code in the repository, and its fast paths are those of
the version in use. What the models show about it is about this text.

## Modules

| Module | Models | Reads as |
|---|---|---|
| `RecursiveMutex` | the promise of an SDL mutex | abstract specification |
| `SdlMutex` | lines 56-206 of `pl_phoenix_sdlcompat.c` | one step per load, store and system call |
| `SdlThread` | lines 295-355 of the same file | one step per allocation, start, end, join |
| `SndFeeder` | `pl_phoenix_snd.c` | the game's calls and the feeder's loop |
| `SdlProofs` | | theorems of these three: exclusion, refinement, the blocks of a thread, the ring and its cursor |
| `Xlaunch` | `pl_phoenix_xlaunch.c` | one sequential program, its children and the alarm |
| `PtyRun` | `pty-run.c` | one step per system call of the loop; console, pty and child |
| `LauncherProofs` | | theorems of these two: pids, orphans, bytes in order |
| `Rendezvous` | the promise of listen, accept and connect | abstract specification |
| `UnixSock` | life of a socket, accept and connect | one step per section under a lock |
| `UnixSockStepProofs` | | what each step does to sockets and calls, types, what a call owns |
| `UnixSockCountProofs` | | the counts of references, sockets in limbo, peers |
| `UnixSockProofs` | | the rendezvous, sleepers, leaks |
| `UnixStream`, `UnixStreamProofs` | send, recv and poll on one connection | one step per section under a lock |
| `Display` | the promise of the X server's display | abstract specification |
| `Fbdev`, `FbdevProofs` | damage, flush timer and cursor of `ddx/fbdev.c` | one step per callback of the dispatch thread |
| `WifiProbe`, `WifiProbeProofs` | mode `jointxcnt` of `wifi-probe.c` | one step per poll of the FIFO; the firmware, the air and the servers |
| `MC...` | | symmetry and start states for TLC |

Each model has a section of *slips*: wrong versions of single definitions, used
by no specification, one for each property, which TLC must catch.

### SdlMutex

`h` is the Phoenix mutex, `owner`, `owned` and `count` the fields of `struct
SDL_mutex`; `pc[t]` is the place of a thread in the shim and `held[t]` what its
client believes (a history variable). `SDL_LockMutex` is `LockCall`,
`LoadOwned`, `LoadOwner`, then `Recurse` or `MutexLock`, `Store` (once per field)
and `Return`. With `Order = "program"` the stores happen in the order of the
text, which is what one core shows; with `"relaxed"` in any order between two
system calls, which ARMv8 allows between cores. A new mutex is free and its `owner`
names nobody; memory that `malloc` did not clear would be one more way to find oneself
there, and is not needed for what `sdl_mutex_relaxed` shows. Clients wait on a condition only
with a count of one, as the comment of `sdlcompat_cond_wait` demands, and unlock
only what they hold.

### SdlThread

`t[x]` and `stack[x]` are heap blocks; `free()` of anything else than an
allocated block makes it `"corrupt"`, which the type invariant excludes. A client
joins or detaches a thread once, which is the rule of SDL. `Join` is a `threadJoin`
that waited for the thread; `JoinFails` one that returned an error, at any moment: the
code ignores the result (line 337) and frees both blocks. `ThreadHasItsMemory` excepts
the threads of such joins and no others, and `NoBlockLeaks` covers them.

### SndFeeder

Samples are counted, not stored. The device may accept fewer samples than asked
for, but whole ones. `Wrap` stands for 2^32; the assumption `Wrap % Ring = 0`
holds for 2^32 and the ring of 32768 samples. `MaxTotal` bounds one session.

### Xlaunch

`pc` is the place in `main()`. The twelve kinds of session that the argument
parser knows are reduced to their number of clients, `SessionSize`. A process is
`none`, `running`, `zombie` or `reaped`; a failed `execve` is an exit. The alarm
of `--quit-after` is split by where it arrives: in the `waitpid` of the loop, in
a `waitpid` of the teardown, or elsewhere. The branch for a `waitpid` error other
than EINTR (lines 883-884) cannot be taken, since the server is a child as long
as the loop runs, which `PhaseInv` proves. `server_accepting()` (lines 101-116) is two
steps: `PollAccepting` gives up at once if there is nobody to connect to, and else enters
`connect()`, which `Connected` leaves when the server accepts. The AF_UNIX of this
repository has no timeout for it, so that with a server that listens and never accepts,
or dies first, the launcher stays in it for good. The order in which
`kill` and `waitpid` alternate over the clients is kept.

### UnixSock

`sock[s]` is a `unixsock_t`; addresses are never used twice, so that a pointer to
freed memory can be recognised, while ids are reused the way the gap search of
`unixsock_alloc` does. `th[p]` is a call in progress with its local pointers, and
`todo` what it has still to drop: `unixsock_put` is one step under
`unix_common.lock`, and the last drop adds the detaching of the queued sockets
and the `vm_kfree`. `open` names the files; a file is looked up by id on every
call, so that after `shutdown` it may find a stranger, as in the code.

Abstracted: buffers and data (in `UnixStream`), `US_ACCEPTING`, which is written
and never read, broadcasts to pollers (in `UnixStream`), `US_BOUND` as an atomic
update. The update of `state` is split into load and store only in `connect`,
where it can meet `unixsock_put`. Not modelled: `SOCK_DGRAM`, `unix_setfl`,
descriptor passing.

`Rendezvous` knows who waits for whom in which order (`queue`), who was taken off a
queue and has no answer yet (`taken`), and who is connected to whom (`peer`). A socket
that connects comes out of it in one way: connected, refused because its listener is
gone, or given up while it still waits. In `UnixSock` the queues are the lists of the
sockets (`RQueue`); a socket is taken from the step that removes it from a list to the
step that gives it a peer, or to its `detach` when the listener was torn down
(`RTaken`); a peer is the weak pointer of a structure that is not freed (`RPeer`).
`ImplementsRendezvous` is the refinement.

### UnixStream

One direction of one connection. `buf` is the ring, cell by cell: a byte of data
is a 0, and a packet is a cell with its length followed by its bytes, as `_cbuffer`
holds a header and the data (the header counts `Header` bytes of the room). `up[e]` says that end `e` has not been torn down;
`Settle` is the effect of the last `unixsock_put`. `pending[q]` is the kernel's
`wakeupPending` sentinel. `unix_poll` is one step: its several locks are not
separated, and its references are not counted. The close of a file while a
thread is in a call on it leaves the call its reference, as `unixsock_get` does.
`resized` is a history variable: `SO_RCVBUF` has replaced the buffer. The last
`unixsock_put` of an end sets US_PEER_CLOSED in the other and wakes nobody (lines
294-302), so that a `recv` or `send` asleep there stays asleep: `NoLostWakeup` is about
data and room.

### Display and Fbdev

`Display` knows cells, the number of the drawing each shows, the cells damage was
reported for (`owed`) and those the device refused. Its steps allow anything but
going back, inventing pixels, and forgetting; its liveness says that what is owed
is shown or refused in the end. `Fbdev` instantiates it with the texture (or the
shadow, without glamor) as `content`, `/dev/fb0` as `shown`, and damage that is
reported or accumulated as `owed`; `ImplementsDisplay` is the refinement.

All callbacks run on the dispatch thread (lines 643-646), hence one step each.
Regions are sets of cells. `ShippedRows` and `ReadBack` say what
`fbdevNextSpan` and `fbdevPresentRegion` compute from the bands: bands with less
than `Gap` clean rows between them are one span, which is as wide as its widest
part, and more than `MaxBands` spans are shipped as one box. The spans of one
tick are one step; a cursor that reaches into several is drawn after each, and
over the same shadow after the last. `Flush` reads the columns of the damage back
into the shadow, writes whole rows, or a part of them if the device cuts a write
short, and paints the cursor over what it wrote. `sprite` is the set of cells of
`/dev/fb0` that show the cursor, so that a trail is visible. `silent` and `lost`
are history: what was drawn without damage or was refused and is not shown yet.
`Redraw` is an animation that draws again the picture it has drawn and reports damage, as
often as it likes; a tick that finds damage starts the count of quiet ticks anew (lines
724-726), so that the idle flush comes only once damage has stopped. That is a premise of
`SilentIsShown`, which the behaviours of the run do not meet by themselves: `Loops` is not
empty, and `MaxDraws` does not bound damage.

Not modelled: keyboard and mouse (lines 1080-1360), claiming and restoring the
console, server regeneration, glamor together with a shadow of another stride
("not a v1 target", line 407), failures of `lseek`, and writes of the cursor's
rows that are cut short.

### WifiProbe

The probe is one thread, `pc` the loop it is in. Every loop polls one FIFO
(`diag_f2RecvFrame`): nothing there, an error that may cost the frame, or a
frame. `diag_bcdcCmd` takes control frames with its own id and drops the rest;
the join loop takes events; `diag_wifiRxDhcp` takes data. `reqid` numbers the
commands, `cmds` are those the firmware has still to answer, in order, however
late. The firmware joins, fails or completes the handshake whenever it likes, and
a command that is sent again restarts it. Any command may be refused: the answer then
carries something else (`Refusal`), which the code takes all the same, since it ignores
the status. `air` and `net` are sets: what is in
them may be received never, once, often, and in any order. A server follows RFC
2131 as far as the probe's messages go: it offers, leases what it has offered,
withdraws when another is named, refuses otherwise. What it, or a server of `Others`, sends to
other clients, or in another exchange (`Foreign`, replies that are not `ours`), may be received at any
time; the code tells it from a reply to the probe neither by xid nor by chaddr, nor by the address,
and `ours` is there for the properties to speak of.

Setup is cut to `Setup` commands, since the code does the same with each: it
counts on and looks at no result. Left out: firmware and CLM upload, WLC_E_LINK,
which is only printed, sequence numbers and credits, which the probe observes and
does not obey, the packet counters that are read and printed between the address
and the first DISCOVER, scanning, and the modes `jointx` and `glom`.

### PtyRun

Bytes are numbered in each direction. `Room` is what the pty holds; a write to
the full master takes what fits or less, and the rest is lost, as in the code,
which looks at no result (line 137). The child, or what it has started, opens the
slave, reads, writes and closes it, and the child exits at any moment. A write to
standard output takes all it is given, a part, or nothing (`Copy`), and the code looks
at no result (line 146): what it did not take is in the history variable `refused`, and
those are the gaps that `BytesAreFaithful` allows. Left out: an error of reading the
console, and a failed `F_SETFL`.

## Runs

`tlc -config <cfg> <module>`; times on two cores.

| Run | Bounds | Shows |
|---|---|---|
| `sdl_mutex` | 2 threads, depth 3 | recursion test, refinement of `RecursiveMutex`; lock, wait and timed wait return |
| `sdl_mutex_relaxed` | 2 threads, depth 2, stores in any order | *fails:* the recursion test needs program order |
| `sdl_thread` | 2 threads, joins that fail | no double free, no use after free but by a failed join, no leak |
| `snd_feeder` | ring 4, chunk 3, wrap 8, 24 samples | no write from a freed ring, a true cursor over three wraps and short writes, nothing kept after a failed start; shutdown returns |
| `xlaunch` | sessions of 1, 2 and 4 clients, 2 ticks, with and without alarm | own children only; nobody left but after an unserved alarm, and then only the dying; applications may exit; the session comes up, unless the probe of the server hangs, and ends |
| `unix_sock` | 2 threads, 3 sockets, non-blocking connect, from nothing (about 30 s) | no use after free, no leak |
| `unix_rendezvous` | 3 threads, 4 sockets, timeout, one client, from a listening server, symmetry | counts, mutual peers, nobody asleep beside a connection or with a peer, refinement of `Rendezvous` |
| `unix_sequential` | 1 thread, 4 sockets, every call, blocking | nothing is left in the end, shutdown and the reuse of ids included |
| `unix_stream` | both types; 1 sender, 1 receiver, 1 poller, buffers 2 and 3, header 1, length 2, close and SO_RCVBUF | no wakeup by data or room is lost, no futile wait at the boundary; poll returns |
| `fbdev` | 5 rows, 2 columns, gap 1, 2 bands, 2 drawings, 1 cut write, 2 idle ticks, an animation without end, with and without glamor, equal strides or not (about 2.5 minutes) | nothing stale without a reason, a whole cursor, refinement of `Display`, the idle flush once damage stops |
| `wifi` | 1 server, 1 that answers other clients, 1 setup command, 2 attempts, 1 DISCOVER round, 2 REQUEST rounds, 2 polls per loop, FIFO of 1 (about 40 s) | no late answer, no early stop without a handshake, an ACK for the probe binds what it asked for and was leased, the probe ends |
| `pty_run` | 4 bytes each way, buffer 2, pty of 3 | bytes in order and once, missing only what standard output refused; the parent ends with its child |

Why the bounds are enough: two threads on a mutex give a holder and a thread with
a stale view of it, which waits, recurses wrongly or is signalled; the proofs
carry the safety half to any number. Depth three has a nesting that is neither
first nor last. Two clients are a leader and an application, four a teardown in
which one wait is interrupted between others. Around a listener the cases are an
acceptor, a connector and a closer, hence three threads; four sockets are the
listener, the client and two accepted ones. With one client a list never holds two
sockets of different clients, so that first come, first served is a matter of the
theorem `RendezvousIsKept`; the run is about one answer for each. A buffer of two or
three with writes and reads of two has partial writes, full buffers, and what is left of
one write in front of the next; a packet of 2 with a header of 1 fits a buffer of 3
exactly and a buffer of 2 not at all, and SO_RCVBUF changes the one into the other. On a
screen of five rows one drawing is two spans, which both bands hold, and with the other
three, which exceed them; the two columns tell the columns that were read back from
those that were only rewritten; one place of the cursor is on a span's edge, one off the
screen. A cursor wider than `RowBuf`, and any other shape, is left to the theorem
`CursorSafety`. The probe needs two polls for a loop that drops one frame and takes the
next, which one place in the FIFO gives it, two attempts for events of the first in the
second, a server and another that answers other clients for replies that
mix, and two REQUEST rounds for a server that changed in between; any number of servers is
left to the theorem `LeaseSafety`. A pty of three with chunks of two fills in the middle of a chunk.

Two bounds are assumptions about the callers rather than about size. With two
receivers on one socket `ReceiverIsWoken` fails (one wakeup per `send`, and the
woken receiver may leave data), and with two senders of packets of different
length `SenderIsWoken` does (the woken one may need more room than the other): the
file promises nothing about either. Two pollers share one sentinel, and
`PollerIsWoken` holds for one. `SharedConnect = FALSE` says that one thread
at a time connects a socket; see below for what happens otherwise. `unlink` and
`shutdown` are in `unix_sequential` only. The first takes away a name, which the theorems
allow at any time; the second drops the tree's reference of a file that stays open,
which is one too many: even a single thread's file then finds no socket, or a stranger
that was given its id, and with a second thread, or a connection in progress, a socket is
freed that something points at (below). What `unix_sequential` checks is what is left:
whomever such a close hits, the tree is empty in the end.

Deadlock checking is off where the system may stop: all files closed, all threads
created, calls that wait for a peer that does nothing.

### Fairness

- `SdlMutex`: weak for a thread inside the shim; strong for obtaining the kernel
  mutex, because the kernel queues waiters by priority and arrival and hands the
  mutex over; clients that hold the mutex unwind every nesting level in the end
  (strong for each depth, since a client may nest up and down); timers expire.
- `SndFeeder`: threads are scheduled; a thread that is joined
  returns; `write()` returns, because the device drains at the sample rate or
  fails.
- `Xlaunch`: the launcher is scheduled, a pending alarm fires, and a process that
  got SIGTERM exits. No exit without a SIGTERM is assumed, nor that the server
  accepts: `SessionEnds` speaks of sessions that came up.
- `Fbdev`: the block handler reports damage before the server waits, and the timer
  expires. Nobody has to draw, or to stop drawing.
- `WifiProbe`: the probe's own steps only. The firmware may say nothing, and a
  server may answer nothing.
- `PtyRun`: the parent's own steps only: `select` has a timeout (line 122), and the
  writes to standard output (line 146), which may block, are assumed to return.
- `UnixSock`, `UnixStream`: a thread in the kernel that can go on does. No client
  has to make a call. The timer of `unix_pollWait` expires; `connect` has none in
  the default configuration.

### Disagreements

One run is expected to fail: what a comment says is not what the code does.
`sdl_mutex_relaxed` shows that the unlocked recursion test needs program order,
which four cores do not give; it is the finding in `PROJECT.json`, with the quotes.

**Other disagreements.** The following hold of the comments and not of the code
either. They are kept as definitions of the modules without a run of their own; a
cfg with the constants given shows each of them in seconds.

| Definition | Start from | In short |
|---|---|---|
| `Xlaunch!NoOrphans` | `Xlaunch.cfg`, `Sessions = {"explicit"}`, `QuitAfter = {TRUE}` | the teardown restores the console and psh resumes (lines 903-905); an alarm interrupts its `waitpid` (line 934), whose result nobody looks at, and the server is left behind |
| `Xlaunch!ClientsOutliveEachOther` | the same, `Sessions = {"desktop"}`, `QuitAfter = {FALSE}` | the header (lines 32-33) promises that any client may exit; the exit of the first ends the session (line 924) |
| `Xlaunch!QuitIsServed` | `Sessions = {"explicit"}`, `QuitAfter = {TRUE}` | an alarm outside `waitpid`, or with a leader whose vfork failed, is forgotten (line 875) |
| `Xlaunch!NoClientsEndsSession` | `Sessions = {"explicit"}`, `QuitAfter = {FALSE}` | when every vfork fails, the launcher waits behind an empty server (line 924) |
| `Xlaunch!ProbeReturns` | `Sessions = {"explicit"}`, `QuitAfter = {FALSE}` | "not accepting within %d ms; launching clients anyway" (lines 819-820): the polls are counted, and one of them has no bound: the `connect()` of line 113 waits for a server that listens and does not accept |
| `SdlThread!MemoryOutlivesThread` | `SdlThread.cfg` | "freeing t now is a use-after-free" (lines 347-348) is what SDL_WaitThread does when `threadJoin` fails (lines 337-341) |
| `UnixSock!ConnectStopsWaiting` | `MCUnixSock!FairRendezvousSpec`, 2 threads, 2 sockets, `HasTimeout = FALSE`, `Nonblocking = {FALSE}`, `SharedConnect = FALSE`, `Ops = {"connect", "close"}`, no symmetry | "so it stops waiting for an accept that will never come" (lines 331-332); the loop tests only `s->remote` (line 783) and waits again without a deadline |
| `UnixSock!SleepingConnectIsWaiting` | `RendezvousSpec`, 2 threads, 3 sockets, `HasTimeout = FALSE`, `Nonblocking = {FALSE}`, `SharedConnect = FALSE`, `Ops = {"accept", "connect", "close"}`, no symmetry | accept takes a socket, wakes its connect, and the new socket is closed: `remote` is NULL again when connect looks (line 783), which then sleeps on no list |
| `UnixSock!FilesKeepTheirSocket` | `Spec`, 1 thread, 2 sockets, `Nonblocking = {FALSE}`, `Ops = {"socket", "close", "shutdown"}` | after shutdown the id of an open file is free, and `close` drops the socket that was given it (line 1233); the workorder knows of it (lines 467-470) |
| `UnixSock!NoUseAfterFree` | `RendezvousSpec`, 1 thread, 2 sockets, `Nonblocking = {TRUE}`, `Ops = {"connect", "close", "shutdown"}` | shutdown drops one reference too many (line 1233), and a queued socket is freed on its list; the workorder knows of it (line 467) |
| `UnixSock!RemoteIsMutual` | `RendezvousSpec`, 2 threads, 4 sockets, `Nonblocking = {TRUE}`, `SharedConnect = TRUE`, `Ops = {"accept", "connect", "close"}` | two connects of one socket queue it twice (lines 673, 763 and 775) |
| `UnixSock!PeerClosedStays` | `RendezvousSpec`, 2 threads, 3 sockets, `Nonblocking = {FALSE}`, `Ops = {"accept", "connect", "close"}` | the read-modify-write of line 775 loses the US_PEER_CLOSED that line 299 sets under another lock |
| `UnixSock!InProgressMeansQueued` | the same, `Nonblocking = {TRUE}` | US_CONNECTING is set (line 775) after accept has cleared it |
| `UnixStream!EosMeansEnd` | `UnixStream.cfg`, `Types = {"stream"}` | recv tests US_PEER_CLOSED (line 982) after it released the lock: it reports the end with data left |
| `UnixStream!CloseEndsSleep` | `UnixStream.cfg`, `Types = {"stream"}`, `Ops = {"send", "recv", "close"}` | "every unix-socket state change (..., peer close) wakes pollQueue" (lines 81-82); `unixsock_put` wakes nobody (lines 294-302), and a `recv` or `send` that sleeps then sleeps for good |
| `UnixStream!NoLostWakeup` | `UnixStream.cfg`, `Pollers = {p1, p2}`, `Ops = {"send", "recv", "poll"}` | two pollers share one sentinel (line 1433) |
| `Fbdev!StaticIsShown` | `Fbdev.cfg` | "to guarantee static content reaches the display we re-blit the ENTIRE shadow buffer to /dev/fb0 on a timer, independent of damage" (lines 637-638); with damage in every tick the idle flush never comes (lines 724-726) |
| `WifiProbe!BoundIsOurs` | `WifiProbe.cfg` | "BOUND (full DHCP lease over WiFi)" (line 2388): any ACK binds, that of another client too, since xid, chaddr and the address go unchecked (lines 1902-1941) |
| `WifiProbe!MacIsTheDevices` | `WifiProbe.cfg` | "use the MAC read earlier" (line 1995): what a refusal carries is used as well (lines 1386-1397, 2323-2328) |
| `WifiProbe!ConnectedMeansUp` | `WifiProbe.cfg` | "Stop as soon as connected" (line 2234): the handshake may be that of an attempt the firmware was made to start again, whose events are still in the FIFO |
| `WifiProbe!RequestNamesOneServer` | `WifiProbe.cfg` | "a late OFFER while we wait for the ACK must not stop us" (lines 1937-1938): it replaces the server id of the next REQUEST (line 1929), which then names one server and the address of another |

The comment before the flush timer of the DDX (lines 628-641), the one `StaticIsShown`
quotes, describes an earlier design, a whole-screen flush on every tick that overdraws the
console "immediately"; the code flushes the whole screen once, after 20 quiet ticks.
`SilentIsShown` states the weaker promise, that of lines 735-740 and 954-955.

## Proofs

All by TLAPS, for every value of the constants that the named assumptions allow.

- **SdlProofs**, assuming `Order = "program"` for the mutex. `MutualExclusion` is
  not inductive: whether a thread may pass the recursion test depends on what the
  fields say at each place of every other thread. `IInv` says it: the thread that
  holds `h` is the one that holds locks or is storing the fields; outside those
  stores `owned`, `owner` and `count` agree with `held`; inside them each field
  has the old or the new value according to `todo`; and a thread that saw `owned`
  set by another will not find itself in `owner`. From it follow `Exclusion`,
  `RecursionTest`, `Bookkeeping` and `Refinement`, the last step by step against
  `RecursiveMutex`. For the threads, `BlocksInv`: the creator's place in its call
  determines which of the two blocks are allocated; `ThreadTypes` says that no block
  is freed twice, `MemorySafety` that none is freed under a thread but by a join that
  failed, and `NoLeaks` that no join, failed or not, leaves one.

  For the feeder, `SndPhaseInv`: the feeder lives only between its start and
  its join, and a ring exists exactly then or around it. With `ToWriteBounds`
  this gives `FeederSafety` for every ring and chunk. `CursorTruth`: both copies of
  the position are the samples played modulo `Wrap` (`ModStep`: wrapping after each
  step is wrapping once), and since `Wrap` is a multiple of the ring, the cursor
  that the game reads is right modulo the ring (`ModMod`). Without the assumption
  `Wrap % Ring = 0` it is false.
- **LauncherProofs**. `PhaseInv` ties the place in `main()` to the processes that
  exist and the pids that are kept. `PidSafety` and `AppExit` (an action
  property) follow, whatever `--quit-after` says. `Orphans` needs a second
  invariant, `NoAlarmInv`: unless an alarm is unserved, every child is one whose
  pid is still kept. `DyingInv` covers the rest: a child whose pid is forgotten was
  told to stop. Together they give `OrphansAreExplained`; `NoOrphans` without the
  alarm's exception is false (above).

  For the pseudo terminal runner, `OutputInv`: what was shown and what is under way
  increase, one before the other, and together are what the child wrote, 1 to `written`,
  without what standard output refused. `InputInv`: what was read, what is in the
  pty and what is still on the console increase, each before the next, since a byte that
  does not fit is lost and never put back.
- **UnixSockStepProofs**, **UnixSockCountProofs** and **UnixSockProofs** are one
  development in three files, which tlapm checks apart. Threads are finitely many
  (`ThreadsAssumption`), sockets `MaxSocks`; what a count counts is added up thread by
  thread and list by list (`PairsChange`), so that a step has to account for its own call
  only. In layers:
  - `TypeCorrect`: `ShapeInv` says at which places of a call each of its pointers is
    set. No hypothesis.
  - `RefsAreBalanced` and `NoUseAfterFreeHolds`, from `Accounts`: the count of a
    socket in the tree is the number of its owners, and one that is not has none
    (`AccountInv`) and no list (`EmptyInv`); what a call is about to free has left the
    tree (`FreeInv`); an id names one socket (`IdsInv`), so that `close` finds the
    socket it was opened for; and the tree's reference has one heir at most, a call
    or the open file (`TitleInv`). Hypothesis: nobody calls `shutdown`, which drops the
    tree's reference (line 1233) of a file that stays open; with it the balance is
    false (above).
  - `RemotesAreMutual`, from `Peers`: a socket is in limbo, on a list, in the hands of
    an accept or about to be detached, at most once, and has no peer then
    (`LimboInv`); nobody knows a socket that no file is open for (`NewInv`); what
    connect has checked still holds when it queues (`ConnectInv`), because one call at
    a time sets a socket up (`SetUpInv`). The last is the hypothesis
    `~SharedConnect`; without it the property is false (above).
  - `RendezvousIsKept`: `UnixSock` implements `Rendezvous`. Each step of a call is a step
    of `Rendezvous` or changes none of `RQueue`, `RTaken` and `RPeer`: `ConnectAdd`
    queues, `AcceptTake` takes, `AcceptPair` answers, `Detach` refuses, `ConnectUnlink`
    gives up, `PairSecond` pairs, the last `Put` of a socket lets it vanish, and all
    others stutter (`Stutters`), which is a fact about counts again: what a step adds to
    or takes from the tasks of its own call decides who is taken (`HeldChange`). That
    the guards of `Rendezvous` hold is what `Peers` and `Accounts` are for. A socket that
    connect queues, or accept hands out, is not in limbo, so it waits nowhere
    (`SettledIs`) and has no peer; a list owns a reference to what waits on it, so that
    what leaves the tree is not in limbo either (`SettledInv`) and may vanish
    (`PutLastVanishes`); and the peer that loses its pointer is the one that pointed back
    (`RemoteIsMutual`). Hypotheses: those of
    `RemotesAreMutual`.
  - `NoWakeupIsLost`: who accepts on a socket finds it listening and who connects one
    does not (`ListenInv`), so the two never sleep on the same queue; while an accept
    sleeps, there are as many others awake at the list as there are sockets on it
    (`AcceptSleepInv`, a count again); and accept wakes the one connect that sleeps on
    the socket it gives a peer (`ConnectSleepInv`). Of a peer that is gone before the
    connect looks it says nothing (above).
  - `NothingIsLeaked`: a socket that outlives all files and calls is on a list, so its
    listener is in the tree too, and on a list itself. Chains of listeners that wait
    for each other do occur; circles do not (`ChainInv`: among any sockets there
    is one that does not both listen and wait for another of them), because a socket is
    queued only where somebody listens (`TargetInv`), and connect refuses a socket that
    listens.
- **UnixStreamProofs**. `TypeCorrect` bounds the buffer by its size whatever is
  written. The wakeup theorems follow one sentinel each: with data in the buffer, a
  receiver that found it empty has a sentinel left for it or a sender on its way to
  leave it (`ReceiverInv`); a sender that did not fit, and fits now, has one or a
  receiver on its way (`SenderInv`); a poller to whose end something has happened
  has one or any thread on its way (`PollerInv`). Hypothesis: at most one thread of
  the kind that waits, since one sentinel and one wakeup serve one thread (above). The
  close of the peer, which wakes nobody, is excepted.
- **FbdevProofs**. `StaleIsExplained` needs the order of the three copies:
  `OrderInv` says that no cell of the screen is newer than the shadow, none of the
  shadow newer than what was drawn, and that without glamor the shadow is what was
  drawn. `FlushCells` says what one flush does to one cell, `ShipsDamage` and
  `ReadsDamage` that all damage is shipped and read back, whatever the gap and the
  number of bands. From these follow `NothingIsForgotten` and `DisplaySafety`, the
  safety half of the refinement. `CursorInv` adds to `CursorIsWhole` that a drawn
  cursor is drawn where and as large as it is now.
- **WifiProbeProofs**. `TypeCorrect`: the ids count the commands, one for each of
  the setup, each attempt and the address (`Numbers`), and a round that is begun is one
  of those there are (`Rounds`). `LeaseSafety`: every REQUEST asks for the one address
  the probe has chosen, whichever server it names, so that every ACK there is
  acknowledges that address and leases it (`Chosen`); a reply in the FIFO was sent to the
  probe or is foreign (`Queued`), and the reply that ends the wait has the wanted type,
  and was sent if it is an ACK for the probe (`Heard`). For a foreign ACK nothing is
  claimed, and `BoundIsOurs` is false.
  `MacSafety`: an answer in the FIFO is older than the present
  command or belongs to it, refusals included. `KeyedSafety`: the handshake event exists only after a
  handshake.

Every invariant, action property and refinement of the runs has a theorem, the
refinement of `Display` for its safety half (`DisplaySafety`). Only model-checked is what
the prover cannot reach: all liveness (fairness and ENABLED), so `CallsReturn`,
`ShutdownReturns`, `SessionEnds`, `PollReturns`, `SilentIsShown`, `ProbeEnds`,
`EndsWithChild` and the liveness half of `ImplementsDisplay`; and what
`unix_sequential` checks of `shutdown`, which the theorems about
references exclude. Packets in `UnixStream` are framed by their headers; that every
packet read is one that was sent would be an induction over the buffer's data and is
not stated.

## Plan

1. Done: SDL mutex, SDL threads, audio feeder, launcher, AF_UNIX for
   connection-oriented sockets, the DDX's display path, the Wi-Fi probe's join and
   DHCP, the pseudo terminal runner, and their theorems.
2. Done: a theorem for every invariant that a run checks, and the refinements of
   `RecursiveMutex`, `Display` (safety) and `Rendezvous`. Left: weaker hypotheses
   where the code allows them (one sender and one receiver in `UnixStreamProofs`;
   peers and leaks of threads that call shutdown).
3. AF_UNIX: datagram sockets (the `connected` lists), `unix_setfl`; an abstract
   connection (a pair of FIFO channels with end of stream) that `UnixStream`
   implements as far as `EosMeansEnd` lets it.
4. The DDX's keyboard and mouse drain, and the console it claims and restores.

## Not modelled

Most of the repository's lines are data: video frames and bit streams of the HEVC
probe and compiled shaders, kept as C headers, so that the share of lines behind the
models is small whatever is modelled. Of the code, what keeps its state in hardware
registers is left out (PWM/DMA, HEVC, the register half of the Wi-Fi probe), and so
are drawing and decoding, the FFmpeg players and the dynamic loader, which are
sequential and keep no state between calls that a later one could meet wrongly; the
SDL semaphore and delay shims, single calls into a libphoenix that is not in this
repository; the test drivers of its allocator; vendored sources; and the scripts of
the lab, whose state is processes, files and text on a serial line. Within the modelled files:
messages, paths and environments of the launcher, destruction of SDL objects,
descriptor passing, MSG_PEEK and SOCK_DGRAM of AF_UNIX, and what is named under
each module above.
