------------------------------- MODULE Xlaunch -------------------------------
(***************************************************************************)
(* The session launcher of the X11 port, startx                            *)
(* (tools/x11-port/launcher/pl_phoenix_xlaunch.c): it starts the GPU       *)
(* daemon if the session needs it, the X server and the clients, and then  *)
(* supervises them from a waitpid loop until the session is over.          *)
(*                                                                         *)
(* The launcher is one sequential process; what makes it hard is what the  *)
(* other processes do meanwhile.  Each of them may exit at any time (an    *)
(* execve that failed is an exit, too), and SIGALRM of --quit-after may    *)
(* arrive anywhere.                                                        *)
(***************************************************************************)
EXTENDS Naturals

CONSTANTS
    Sessions,   \* the session names that argv may ask for
    QuitAfter,  \* what argv may say of --quit-after: a set of Booleans
    MaxTicks    \* bound: POLL_MAX_TICKS

\* Most clients in one session, MAX_CLIENTS.
MaxClients == 6

\* The number of clients of each session.
SessionSize ==
    [explicit |-> 1, wmaker |-> 1, client |-> 1,
     desktop |-> 2, term |-> 2, browse |-> 2, glwin |-> 2,
     gpudesk |-> 4, wmmedia |-> 4, mediadesk |-> 4,
     showcase |-> 5, deskapps |-> 5, action |-> 6]

ASSUME SessionsAssumption == Sessions \subseteq DOMAIN SessionSize
ASSUME SessionsFit == \A s \in DOMAIN SessionSize : SessionSize[s] \in 1..MaxClients
ASSUME QuitAfterAssumption == QuitAfter \subseteq BOOLEAN
ASSUME MaxTicksAssumption == MaxTicks \in Nat \ {0}

VARIABLES
    pc,         \* where the launcher is in main()
    tick, c,    \* its loop counters
    nClients,   \* n_clients
    gpu,        \* invoked as startx_gpu
    cliPid,     \* cliPid[i]: cli_pid[i] holds a pid (FALSE: -1)
    srvGone,    \* the server was reaped: the teardown of line 887
    armed,      \* alarm() is pending
    quit,       \* xlaunch_quitRequested
    srv, daemon, cli,   \* the processes
    srvTerm, cliTerm,   \* SIGTERM was sent to them
    node,       \* /dev/v3d-srv exists
    sock,       \* /tmp/.X11-unix/X0 exists
    listening,  \* the server listens: a connect() is queued and waits
    accepting   \* the server is in its dispatch loop and accepts what is queued

launcher == <<pc, tick, c, nClients, gpu, cliPid, srvGone>>
signals == <<armed, quit>>
procs == <<srv, daemon, cli, srvTerm, cliTerm>>
files == <<node, sock, listening, accepting>>
vars == <<launcher, signals, procs, files>>

ProcState == {"none", "running", "zombie", "reaped"}
Child(p) == p \in {"running", "zombie"}

Slots == 0..(MaxClients - 1)
Clients == 0..(nClients - 1)

Locations ==
    {"gpu", "daemonPoll", "argv", "fork", "socketPoll", "acceptPoll", "connect", "settle",
     "forkClients", "arm", "wait", "eintr", "teardown", "reapClient", "reapServer", "exit"}

\* The part of main() that runs with every client started.
Supervising == {"wait", "eintr", "teardown", "reapClient", "reapServer"}

\* The variables of main() and the processes; the loop over cli_pid stays inside n_clients.
TypeOK ==
    /\ pc \in Locations
    /\ tick \in 0..MaxTicks
    /\ c \in 0..nClients
    /\ nClients \in 1..MaxClients
    /\ gpu \in BOOLEAN /\ srvGone \in BOOLEAN /\ armed \in BOOLEAN /\ quit \in BOOLEAN
    /\ srv \in ProcState /\ daemon \in ProcState
    /\ cli \in [Slots -> ProcState] /\ cliPid \in [Slots -> BOOLEAN]
    /\ srvTerm \in BOOLEAN /\ cliTerm \in [Slots -> BOOLEAN]
    /\ node \in BOOLEAN /\ sock \in BOOLEAN /\ listening \in BOOLEAN /\ accepting \in BOOLEAN

\* An earlier session may have left the daemon running and the socket node behind.
Init ==
    /\ pc = "gpu"
    /\ tick = 0 /\ c = 0
    /\ nClients \in {SessionSize[s] : s \in Sessions}
    /\ gpu \in BOOLEAN
    /\ cliPid = [i \in Slots |-> FALSE]
    /\ srvGone = FALSE
    /\ armed = FALSE /\ quit = FALSE
    /\ srv = "none" /\ daemon = "none" /\ cli = [i \in Slots |-> "none"]
    /\ srvTerm = FALSE /\ cliTerm = [i \in Slots |-> FALSE]
    /\ node \in BOOLEAN /\ sock \in BOOLEAN /\ listening = FALSE /\ accepting = FALSE

Goto(l) == pc' = l

-----------------------------------------------------------------------------
(* Plausible slips, each a wrong version of the definition it is named after. *)
(* No specification uses them.                                                *)

\* One client too many is forked.
ForkClient_OffByOne ==
    /\ pc = "forkClients"
    /\ c <= nClients
    /\ cli' = [cli EXCEPT ![c] = "running"]
    /\ cliPid' = [cliPid EXCEPT ![c] = TRUE]
    /\ c' = c + 1
    /\ UNCHANGED <<pc, tick, nClients, gpu, srvGone, signals, srv, daemon, srvTerm, cliTerm, files>>

\* Any exit ends the session; only the last one does.
SessionOver_AnyClient(leaderGone, pids) == TRUE
SessionOver_LastClient(leaderGone, pids) == \A j \in Clients : ~pids[j]

\* cli_pid keeps the pid of a client that was reaped.
ReapClient_KeepsPid(i) ==
    /\ pc = "wait"
    /\ cli[i] = "zombie"
    /\ cli' = [cli EXCEPT ![i] = "reaped"]
    /\ IF i = 0 THEN Goto("teardown") /\ c' = 0 ELSE UNCHANGED <<pc, c>>
    /\ UNCHANGED <<tick, nClients, gpu, cliPid, srvGone, signals, srv, daemon, srvTerm, cliTerm, files>>

\* The teardown returns without waiting for the server.
KillServer_NoWait ==
    /\ pc = "teardown"
    /\ c = nClients
    /\ srvTerm' = ~srvGone
    /\ Goto("exit")
    /\ UNCHANGED <<tick, c, nClients, gpu, cliPid, srvGone, signals, srv, daemon, cli, cliTerm, files>>

-----------------------------------------------------------------------------
(* Bringing the session up *)

\* Nothing to do for plain startx, nor when an earlier session left the daemon running.
GpuReady ==
    /\ pc = "gpu"
    /\ ~gpu \/ node
    /\ Goto("argv")
    /\ UNCHANGED <<tick, c, nClients, gpu, cliPid, srvGone, signals, procs, files>>

\* No daemon binary, or vfork failed.
DaemonMissing ==
    /\ pc = "gpu"
    /\ gpu /\ ~node
    /\ Goto("exit")
    /\ UNCHANGED <<tick, c, nClients, gpu, cliPid, srvGone, signals, procs, files>>

StartDaemon ==
    /\ pc = "gpu"
    /\ gpu /\ ~node
    /\ daemon' = "running"
    /\ tick' = 0
    /\ Goto("daemonPoll")
    /\ UNCHANGED <<c, nClients, gpu, cliPid, srvGone, signals, srv, cli, srvTerm, cliTerm, files>>

\* The node is looked for once more after the last tick.
PollDaemon ==
    /\ pc = "daemonPoll"
    /\ IF node THEN Goto("argv") /\ UNCHANGED tick
       ELSE IF tick < MaxTicks THEN tick' = tick + 1 /\ UNCHANGED pc
       ELSE Goto("exit") /\ UNCHANGED tick
    /\ UNCHANGED <<c, nClients, gpu, cliPid, srvGone, signals, procs, files>>

\* The argument vectors and the environment are built before any client exists.
BuildArgv ==
    /\ pc = "argv"
    /\ Goto("fork")
    /\ UNCHANGED <<tick, c, nClients, gpu, cliPid, srvGone, signals, procs, files>>

OutOfMemory ==
    /\ pc = "argv"
    /\ Goto("exit")
    /\ UNCHANGED <<tick, c, nClients, gpu, cliPid, srvGone, signals, procs, files>>

StartServer ==
    /\ pc = "fork"
    /\ srv' = "running"
    /\ tick' = 0
    /\ Goto("socketPoll")
    /\ UNCHANGED <<c, nClients, gpu, cliPid, srvGone, signals, daemon, cli, srvTerm, cliTerm, files>>

ServerForkFails ==
    /\ pc = "fork"
    /\ Goto("exit")
    /\ UNCHANGED <<tick, c, nClients, gpu, cliPid, srvGone, signals, procs, files>>

\* waitpid(srv_pid, WNOHANG) in either readiness poll.
ServerDiedInInit ==
    /\ pc \in {"socketPoll", "acceptPoll"}
    /\ tick < MaxTicks
    /\ srv = "zombie"
    /\ srv' = "reaped"
    /\ Goto("exit")
    /\ UNCHANGED <<tick, c, nClients, gpu, cliPid, srvGone, signals, daemon, cli, srvTerm, cliTerm, files>>

\* A poll that sees no sign of the server goes on to the next stage all the same.
PollSocket ==
    /\ pc = "socketPoll"
    /\ IF tick = MaxTicks THEN Goto("acceptPoll") /\ tick' = 0
       ELSE /\ srv # "zombie"
            /\ IF sock THEN Goto("acceptPoll") /\ tick' = 0
               ELSE tick' = tick + 1 /\ UNCHANGED pc
    /\ UNCHANGED <<c, nClients, gpu, cliPid, srvGone, signals, procs, files>>

\* server_accepting(): it fails at once if there is no socket to be had or nobody listens.
\* With a listener its connect() blocks.
PollAccepting ==
    /\ pc = "acceptPoll"
    /\ IF tick = MaxTicks THEN Goto("settle") /\ tick' = 0
       ELSE /\ srv # "zombie"
            /\ \/ tick' = tick + 1 /\ UNCHANGED pc
               \/ listening /\ Goto("connect") /\ UNCHANGED tick
    /\ UNCHANGED <<c, nClients, gpu, cliPid, srvGone, signals, procs, files>>

\* The connect() of the probe returns once the server accepts. The AF_UNIX of this repository
\* has no timeout for it and does not end it when the listener is closed (lines 783-795 of
\* docs/misc/2026-09-02-unix-connecting-ref-attempt.c.txt): otherwise it never returns.
Connected ==
    /\ pc = "connect"
    /\ accepting
    /\ tick' = 0
    /\ Goto("settle")
    /\ UNCHANGED <<c, nClients, gpu, cliPid, srvGone, signals, procs, files>>

Settle ==
    /\ pc = "settle"
    /\ c' = 0
    /\ Goto("forkClients")
    /\ UNCHANGED <<tick, nClients, gpu, cliPid, srvGone, signals, procs, files>>

\* A vfork that fails leaves -1 in cli_pid and the session goes on.
ForkClient ==
    /\ pc = "forkClients"
    /\ c < nClients
    /\ \/ /\ cli' = [cli EXCEPT ![c] = "running"]
          /\ cliPid' = [cliPid EXCEPT ![c] = TRUE]
       \/ UNCHANGED <<cli, cliPid>>
    /\ c' = c + 1
    /\ UNCHANGED <<pc, tick, nClients, gpu, srvGone, signals, srv, daemon, srvTerm, cliTerm, files>>

AllForked ==
    /\ pc = "forkClients"
    /\ c = nClients
    /\ Goto("arm")
    /\ UNCHANGED <<tick, c, nClients, gpu, cliPid, srvGone, signals, procs, files>>

\* sigaction and alarm, when argv says --quit-after.
Arm ==
    /\ pc = "arm"
    /\ armed' \in QuitAfter
    /\ Goto("wait")
    /\ UNCHANGED <<tick, c, nClients, gpu, cliPid, srvGone, quit, procs, files>>

-----------------------------------------------------------------------------
(* The supervise loop: w = waitpid(-1, &status, 0) *)

\* The server exited: its clients are killed, and then the launcher returns.
ReapServer ==
    /\ pc = "wait"
    /\ srv = "zombie"
    /\ srv' = "reaped"
    /\ srvGone' = TRUE
    /\ c' = 0
    /\ Goto("teardown")
    /\ UNCHANGED <<tick, nClients, gpu, cliPid, signals, daemon, cli, srvTerm, cliTerm, files>>

\* The session is over when client[0], its leader, has gone, or when no client is left.
SessionOver(leaderGone, pids) == leaderGone \/ \A j \in Clients : ~pids[j]

ReapClient(i) ==
    /\ pc = "wait"
    /\ cli[i] = "zombie"
    /\ cli' = [cli EXCEPT ![i] = "reaped"]
    /\ cliPid' = [cliPid EXCEPT ![i] = FALSE]
    /\ IF SessionOver(cliPid[i] /\ i = 0, cliPid')
         THEN Goto("teardown") /\ c' = 0
         ELSE UNCHANGED <<pc, c>>
    /\ UNCHANGED <<tick, nClients, gpu, srvGone, signals, srv, daemon, srvTerm, cliTerm, files>>

\* waitpid(-1) also returns the daemon that StartDaemon left running.
ReapDaemon ==
    /\ pc = "wait"
    /\ daemon = "zombie"
    /\ daemon' = "reaped"
    /\ IF SessionOver(FALSE, cliPid)
         THEN Goto("teardown") /\ c' = 0
         ELSE UNCHANGED <<pc, c>>
    /\ UNCHANGED <<tick, nClients, gpu, cliPid, srvGone, signals, srv, cli, srvTerm, cliTerm, files>>

\* waitpid returned EINTR.
Interrupted ==
    /\ pc = "eintr"
    /\ IF quit /\ cliPid[0]
         THEN quit' = FALSE /\ cliTerm' = [cliTerm EXCEPT ![0] = TRUE]
         ELSE UNCHANGED <<quit, cliTerm>>
    /\ Goto("wait")
    /\ UNCHANGED <<tick, c, nClients, gpu, cliPid, srvGone, armed, srv, daemon, cli, srvTerm, files>>

-----------------------------------------------------------------------------
(* The teardown: kill and wait for each client, and then for the server *)

KillClient ==
    /\ pc = "teardown"
    /\ c < nClients
    /\ IF cliPid[c]
         THEN cliTerm' = [cliTerm EXCEPT ![c] = TRUE] /\ Goto("reapClient") /\ UNCHANGED c
         ELSE c' = c + 1 /\ UNCHANGED <<pc, cliTerm>>
    /\ UNCHANGED <<tick, nClients, gpu, cliPid, srvGone, signals, srv, daemon, cli, srvTerm, files>>

\* (void)waitpid(cli_pid[c], NULL, 0) returns, and cli_pid[c] = -1.
NextClient ==
    /\ cliPid' = [cliPid EXCEPT ![c] = FALSE]
    /\ c' = c + 1
    /\ Goto("teardown")

WaitClient ==
    /\ pc = "reapClient"
    /\ cli[c] = "zombie"
    /\ cli' = [cli EXCEPT ![c] = "reaped"]
    /\ NextClient
    /\ UNCHANGED <<tick, nClients, gpu, srvGone, signals, srv, daemon, srvTerm, cliTerm, files>>

KillServer ==
    /\ pc = "teardown"
    /\ c = nClients
    /\ IF srvGone THEN Goto("exit") /\ UNCHANGED srvTerm
       ELSE srvTerm' = TRUE /\ Goto("reapServer")
    /\ UNCHANGED <<tick, c, nClients, gpu, cliPid, srvGone, signals, srv, daemon, cli, cliTerm, files>>

WaitServer ==
    /\ pc = "reapServer"
    /\ srv = "zombie"
    /\ srv' = "reaped"
    /\ Goto("exit")
    /\ UNCHANGED <<tick, c, nClients, gpu, cliPid, srvGone, signals, daemon, cli, srvTerm, cliTerm, files>>

-----------------------------------------------------------------------------
(* The alarm.  A system call is interrupted only while it blocks; the flag is *)
(* set in any case.                                                           *)

Alarm ==
    /\ armed
    /\ armed' = FALSE
    /\ quit' = TRUE

AlarmElsewhere ==
    /\ Alarm
    /\ UNCHANGED <<launcher, procs, files>>

AlarmInWait ==
    /\ pc = "wait"
    /\ \A p \in {srv, daemon} \cup {cli[i] : i \in Clients} : p # "zombie"
    /\ Alarm
    /\ Goto("eintr")
    /\ UNCHANGED <<tick, c, nClients, gpu, cliPid, srvGone, procs, files>>

\* The waits of the teardown ignore EINTR.
AlarmInTeardown ==
    /\ Alarm
    /\ \/ /\ pc = "reapClient" /\ cli[c] = "running"
          /\ NextClient
       \/ /\ pc = "reapServer" /\ srv = "running"
          /\ Goto("exit") /\ UNCHANGED <<c, cliPid>>
    /\ UNCHANGED <<tick, nClients, gpu, srvGone, procs, files>>

-----------------------------------------------------------------------------
(* The other processes *)

DaemonUp ==
    /\ daemon = "running"
    /\ ~node
    /\ node' = TRUE
    /\ UNCHANGED <<launcher, signals, procs, sock, listening, accepting>>

\* The node of an earlier session does not keep the server from binding its own.
ServerListens ==
    /\ srv = "running"
    /\ ~listening
    /\ sock' = TRUE
    /\ listening' = TRUE
    /\ UNCHANGED <<launcher, signals, procs, node, accepting>>

ServerAccepts ==
    /\ srv = "running"
    /\ listening
    /\ ~accepting
    /\ accepting' = TRUE
    /\ UNCHANGED <<launcher, signals, procs, node, sock, listening>>

ServerExits ==
    /\ srv = "running"
    /\ srv' = "zombie"
    /\ listening' = FALSE
    /\ accepting' = FALSE
    /\ UNCHANGED <<launcher, signals, daemon, cli, srvTerm, cliTerm, node, sock>>

DaemonExits ==
    /\ daemon = "running"
    /\ daemon' = "zombie"
    /\ UNCHANGED <<launcher, signals, srv, cli, srvTerm, cliTerm, files>>

ClientExits(i) ==
    /\ cli[i] = "running"
    /\ cli' = [cli EXCEPT ![i] = "zombie"]
    /\ UNCHANGED <<launcher, signals, srv, daemon, srvTerm, cliTerm, files>>

-----------------------------------------------------------------------------
BringUp ==
    \/ GpuReady \/ DaemonMissing \/ StartDaemon \/ PollDaemon
    \/ BuildArgv \/ OutOfMemory \/ StartServer \/ ServerForkFails
    \/ ServerDiedInInit \/ PollSocket \/ PollAccepting \/ Connected
    \/ Settle \/ ForkClient \/ AllForked \/ Arm

Supervise ==
    \/ ReapServer \/ ReapDaemon \/ \E i \in Clients : ReapClient(i)
    \/ Interrupted

Teardown == KillClient \/ WaitClient \/ KillServer \/ WaitServer

Launcher == BringUp \/ Supervise \/ Teardown

Sigalrm == AlarmElsewhere \/ AlarmInWait \/ AlarmInTeardown

Environment ==
    \/ DaemonUp \/ ServerListens \/ ServerAccepts \/ ServerExits \/ DaemonExits
    \/ \E i \in Clients : ClientExits(i)

\* The launcher has returned, or its probe waits for a server that has gone.
Finished ==
    /\ pc = "exit" \/ (pc = "connect" /\ srv = "zombie")
    /\ UNCHANGED vars

Next == Launcher \/ Sigalrm \/ Environment \/ Finished

Spec == Init /\ [][Next]_vars

(* The launcher is scheduled, a pending alarm fires, and a process that was *)
(* sent SIGTERM exits: no program of the session ignores it.                *)
Fairness ==
    /\ WF_vars(Launcher)
    /\ WF_vars(Sigalrm)
    /\ WF_vars(srvTerm /\ ServerExits)
    /\ \A i \in Slots : WF_vars(cliTerm[i] /\ ClientExits(i))

FairSpec == Spec /\ Fairness

-----------------------------------------------------------------------------
(* Properties *)

\* A pid that main() keeps names a child that was not reaped: the kernel hands out the
\* lowest free pid, so a kill() of a reaped one would hit a stranger (lines 743-745),
\* and -1 would hit everybody (line 890).
PidsAreOurs ==
    /\ \A i \in Slots : cliPid[i] => Child(cli[i])
    /\ pc \in Supervising /\ ~srvGone => Child(srv)

\* "Tear the server down so the fbdev DDX restores the text console ... and psh resumes"
\* (lines 903-905): when psh gets the console back, no client and no server of the session
\* is left behind.
NoOrphans ==
    pc = "exit" => ~Child(srv) /\ \A i \in Slots : ~Child(cli[i])

\* What the code does keep of it, whatever the way out of main() (lines 887-936, and the
\* early returns): somebody is left behind only if SIGALRM came and was not acted upon, and
\* then it is somebody who was told to stop.
OrphansAreExplained ==
    pc = "exit" =>
        /\ Child(srv) => quit /\ srvTerm
        /\ \A i \in Slots : Child(cli[i]) => quit /\ cliTerm[i]

\* What the proofs are by induction on.  Where main() is tells which processes exist and
\* which pids it still holds.
PhaseInv ==
    /\ \A i \in Slots : cliPid[i] => Child(cli[i]) /\ i < nClients
    /\ pc \in {"gpu", "daemonPoll", "argv", "fork"} => srv = "none"
    /\ pc \in {"socketPoll", "acceptPoll", "connect", "settle", "forkClients", "arm",
              "wait", "eintr", "reapServer"} => Child(srv)
    /\ pc \in {"teardown", "reapClient"} => Child(srv) \/ (srvGone /\ srv = "reaped")
    /\ pc \notin {"teardown", "reapClient", "exit"} => ~srvGone
    /\ pc \in {"teardown", "reapClient"} /\ srvGone => srv = "reaped"
    /\ pc \in {"reapClient"} => c < nClients /\ cliPid[c]
    /\ pc \in {"teardown", "reapClient"} => \A i \in Slots : i < c => ~cliPid[i]
    /\ pc \in {"gpu", "daemonPoll", "argv", "fork", "socketPoll", "acceptPoll", "connect",
              "settle", "reapServer", "exit"} => \A i \in Slots : ~cliPid[i]
    /\ pc = "forkClients" => \A i \in Slots : cliPid[i] => i < c
    /\ pc \notin {"teardown", "reapClient", "reapServer", "exit"} =>
          \A i \in Slots : Child(cli[i]) => cliPid[i]
    /\ pc \in {"teardown", "reapClient"} /\ ~srvGone => ~Child(cli[0])

\* Unless an alarm is unserved, every wait of the teardown ends with the child reaped, so
\* that the pids main() holds are all the children there are.
NoAlarmInv == ~quit =>
    /\ \A i \in Slots : Child(cli[i]) => cliPid[i]
    /\ pc = "exit" => ~Child(srv)

\* A child whose pid main() has forgotten was told to stop before.
DyingInv ==
    /\ \A i \in Slots : Child(cli[i]) => cliPid[i] \/ cliTerm[i]
    /\ pc = "reapClient" => cliTerm[c]
    /\ pc = "reapServer" => srvTerm
    /\ pc = "exit" /\ Child(srv) => srvTerm

\* An application that exits does not end the session: while client[0] and the server
\* live, nobody is told to stop, except client[0] by --quit-after (lines 875-879, 924).
AppExitIsHarmless ==
    [][\A i \in Slots :
          cliTerm'[i] /\ ~cliTerm[i] /\ Child(srv) /\ Child(cli[0]) => i = 0 /\ quit]_vars

\* The session comes up or gives up, whatever the daemon does, and it ends when its leader
\* exits (lines 901-907) and when the server dies (lines 778-784, 805-810, 887-899). The one
\* exception in bringing it up is the connect() of server_accepting() (line 113): a server
\* that listens and never accepts, or dies before it does, holds the launcher there for ever.
\* (What may hold it in the supervise loop is NoClientsEndsSession, below.)
SessionEnds ==
    /\ <>(pc \in {"wait", "exit"}) \/ <>[](pc = "connect" /\ ~accepting)
    /\ (srv = "zombie" /\ pc # "connect") ~> pc = "exit"
    /\ (pc = "wait" /\ cliPid[0] /\ cli[0] = "zombie") ~> pc = "exit"

-----------------------------------------------------------------------------
(* What the comments of the file say and the code does not do.  The README names the *)
(* constants that show each of them violated.                                        *)

\* "The supervisor keeps the server (and the other clients) alive when any single client
\* exits" (lines 32-33): a client is told to stop only if the server has gone.
ClientsOutliveEachOther ==
    [][\A i \in Slots : cliTerm'[i] /\ ~cliTerm[i] => ~Child(srv)]_vars

\* "server not accepting within %d ms; launching clients anyway" (lines 819-820), and the
\* polls are "watching for early death" (line 773): the probe is bounded in time.
ProbeReturns == pc = "connect" ~> pc # "connect"

\* "End the session when ... all clients are gone" (lines 901-902).
NoClientsEndsSession ==
    (pc = "wait" /\ \A i \in Clients : ~Child(cli[i])) ~> pc = "exit"

\* "--quit-after <secs>: SIGTERM the window manager after that many seconds"
\* (lines 301-302): the alarm is followed by the SIGTERM or by the end of the session.
QuitIsServed == quit ~> (cliTerm[0] \/ pc = "exit")
=============================================================================
