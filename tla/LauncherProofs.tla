--------------------------- MODULE LauncherProofs ---------------------------
(***************************************************************************)
(* Proofs about the two programs that start others and outlive them.       *)
(*                                                                         *)
(* Xlaunch: every choice of sessions, of --quit-after and of the poll      *)
(* budget.  One invariant, PhaseInv, says which processes and which pids   *)
(* there are at each place of main(); it holds with or without the alarm.  *)
(* A second, NoAlarmInv, says what the teardown keeps as long as no alarm  *)
(* is unserved, and a third, DyingInv, what it keeps anyway.               *)
(*                                                                         *)
(* PtyRun, in the second half: any capacity of the pty and any chunk,      *)
(* however much is typed and written.                                      *)
(***************************************************************************)
EXTENDS Xlaunch, PtyRun, SequenceTheorems, TLAPS

\* Every session has at least one client and at most MAX_CLIENTS.
LEMMA SessionSizes == \A s \in Sessions : SessionSize[s] \in 1..MaxClients
  BY SessionsAssumption, SessionsFit

\* main() starts with no process and no pid.
LEMMA InitInv == Init => TypeOK /\ PhaseInv
<1> SUFFICES ASSUME Init PROVE TypeOK /\ PhaseInv
  OBVIOUS
<1>1. nClients \in 1..6
  BY SessionSizes DEF Init, MaxClients
<1>2. TypeOK
  <2>1. /\ cliPid \in [Slots -> BOOLEAN] /\ cliTerm \in [Slots -> BOOLEAN]
        /\ srvGone \in BOOLEAN /\ armed \in BOOLEAN /\ quit \in BOOLEAN
        /\ srvTerm \in BOOLEAN /\ listening \in BOOLEAN /\ accepting \in BOOLEAN
    BY Zenon DEF Init
  <2> QED
    BY <1>1, <2>1, MaxTicksAssumption DEF Init, TypeOK, Locations, ProcState, MaxClients
<1>3. PhaseInv
  BY <1>1 DEF Init, PhaseInv, Child, Slots, MaxClients
<1> QED
  BY <1>2, <1>3

\* Every step of the launcher, the alarm and the other processes preserves the invariant.
LEMMA StepInv == TypeOK /\ PhaseInv /\ [Next]_vars => TypeOK' /\ PhaseInv'
<1> SUFFICES ASSUME TypeOK, PhaseInv, [Next]_vars PROVE TypeOK' /\ PhaseInv'
  OBVIOUS
<1> USE MaxTicksAssumption, QuitAfterAssumption
    DEF TypeOK, PhaseInv, Child, Slots, Clients, MaxClients, ProcState, Locations, Goto,
        launcher, signals, procs, files
<1>1. CASE UNCHANGED vars
  BY <1>1 DEF vars
<1>2. CASE BringUp
  <2>1. CASE GpuReady
    BY <2>1 DEF GpuReady
  <2>2. CASE DaemonMissing
    BY <2>2 DEF DaemonMissing
  <2>3. CASE StartDaemon
    BY <2>3 DEF StartDaemon
  <2>4. CASE PollDaemon
    BY <2>4 DEF PollDaemon
  <2>5. CASE BuildArgv
    BY <2>5 DEF BuildArgv
  <2>6. CASE OutOfMemory
    BY <2>6 DEF OutOfMemory
  <2>7. CASE StartServer
    BY <2>7 DEF StartServer
  <2>8. CASE ServerForkFails
    BY <2>8 DEF ServerForkFails
  <2>9. CASE ServerDiedInInit
    BY <2>9 DEF ServerDiedInInit
  <2>10. CASE PollSocket
    BY <2>10 DEF PollSocket
  <2>11. CASE PollAccepting
    BY <2>11 DEF PollAccepting
  <2>12. CASE Connected
    BY <2>12 DEF Connected
  <2>13. CASE Settle
    BY <2>13 DEF Settle
  <2>14. CASE ForkClient
    <3>1. TypeOK'
      <4>1. CASE UNCHANGED <<cli, cliPid>>
        BY <2>14, <4>1 DEF ForkClient
      <4>2. CASE /\ cli' = [cli EXCEPT ![c] = "running"]
                 /\ cliPid' = [cliPid EXCEPT ![c] = TRUE]
        BY <2>14, <4>2 DEF ForkClient
      <4> QED
        BY <2>14, <4>1, <4>2 DEF ForkClient
    <3>2. PhaseInv'
      BY <2>14 DEF ForkClient
    <3> QED
      BY <3>1, <3>2
  <2>15. CASE AllForked
    BY <2>15 DEF AllForked
  <2>16. CASE Arm
    BY <2>16 DEF Arm
  <2> QED
    BY <1>2, <2>1, <2>2, <2>3, <2>4, <2>5, <2>6, <2>7, <2>8, <2>9, <2>10, <2>11, <2>12,
       <2>13, <2>14, <2>15, <2>16, SMTT(60) DEF BringUp
<1>3. CASE Supervise
  <2>1. CASE ReapServer
    BY <2>1 DEF ReapServer
  <2>2. CASE ReapDaemon
    <3>1. CASE SessionOver(FALSE, cliPid)
      <4>1. pc' = "teardown" /\ c' = 0
        BY <2>2, <3>1 DEF ReapDaemon
      <4>2. ~cliPid[0]
        BY <3>1 DEF SessionOver
      <4> QED
        BY <2>2, <4>1, <4>2 DEF ReapDaemon
    <3>2. CASE ~SessionOver(FALSE, cliPid)
      <4>1. UNCHANGED <<pc, c>>
        BY <2>2, <3>2 DEF ReapDaemon
      <4> QED
        BY <2>2, <4>1 DEF ReapDaemon
    <3> QED
      BY <3>1, <3>2
  <2>3. ASSUME NEW i \in Clients, ReapClient(i) PROVE TypeOK' /\ PhaseInv'
    <3> DEFINE over == SessionOver(cliPid[i] /\ i = 0, cliPid')
    <3>1. /\ pc = "wait" /\ cli[i] = "zombie"
          /\ cli' = [cli EXCEPT ![i] = "reaped"]
          /\ cliPid' = [cliPid EXCEPT ![i] = FALSE]
          /\ UNCHANGED <<tick, nClients, gpu, srvGone, signals, srv, daemon, srvTerm, cliTerm, files>>
      BY <2>3 DEF ReapClient
    <3>2. CASE over
      <4>1. pc' = "teardown" /\ c' = 0
        BY <2>3, <3>2 DEF ReapClient
      <4>2. i = 0 \/ ~cliPid[0]
        BY <3>1, <3>2 DEF SessionOver
      <4>3. ~Child(cli'[0])
        BY <3>1, <4>2
      <4>4. TypeOK'
        BY <3>1, <4>1
      <4> QED
        BY <3>1, <4>1, <4>3, <4>4
    <3>3. CASE ~over
      <4>1. UNCHANGED <<pc, c>>
        BY <2>3, <3>3 DEF ReapClient
      <4>2. TypeOK'
        BY <3>1, <4>1
      <4> QED
        BY <3>1, <4>1, <4>2
    <3> QED
      BY <3>2, <3>3
  <2>4. CASE Interrupted
    <3>1. /\ pc = "eintr" /\ pc' = "wait"
          /\ UNCHANGED <<tick, c, nClients, gpu, cliPid, srvGone, srv, daemon, cli>>
          /\ UNCHANGED <<armed, srvTerm, node, sock, listening, accepting>>
      BY <2>4 DEF Interrupted
    <3>2. quit' \in BOOLEAN /\ cliTerm' \in [Slots -> BOOLEAN]
      <4>1. CASE quit /\ cliPid[0]
        BY <2>4, <4>1 DEF Interrupted
      <4>2. CASE ~(quit /\ cliPid[0])
        BY <2>4, <4>2 DEF Interrupted
      <4> QED
        BY <4>1, <4>2
    <3>3. TypeOK'
      BY ONLY TypeOK, <3>1, <3>2 DEF TypeOK, Locations
    <3>4. PhaseInv'
      BY ONLY PhaseInv, <3>1 DEF PhaseInv, Child, Slots
    <3> QED
      BY <3>3, <3>4
  <2> QED
    BY <1>3, <2>1, <2>2, <2>3, <2>4 DEF Supervise
<1>4. CASE Teardown
  <2>1. CASE KillClient
    <3>1. TypeOK'
      <4>1. UNCHANGED <<tick, nClients, gpu, cliPid, srvGone, armed, quit, srv, daemon, cli,
                        srvTerm, node, sock, listening, accepting>>
        BY <2>1 DEF KillClient
      <4>2. pc' \in Locations /\ c' \in 0..nClients /\ cliTerm' \in [Slots -> BOOLEAN]
        <5>1. CASE cliPid[c]
          BY <2>1, <5>1 DEF KillClient
        <5>2. CASE ~cliPid[c]
          BY <2>1, <5>2 DEF KillClient
        <5> QED
          BY <5>1, <5>2
      <4> QED
        BY ONLY TypeOK, <4>1, <4>2 DEF TypeOK
    <3>2. PhaseInv'
      BY <2>1 DEF KillClient
    <3> QED
      BY <3>1, <3>2
  <2>2. CASE WaitClient
    BY <2>2 DEF WaitClient, NextClient
  <2>3. CASE KillServer
    <3>1. CASE srvGone
      <4>1. /\ pc = "teardown" /\ pc' = "exit" /\ c = nClients
            /\ UNCHANGED <<tick, c, nClients, gpu, cliPid, srvGone, signals, procs, files>>
        BY <2>3, <3>1 DEF KillServer
      <4>2. TypeOK'
        BY <4>1
      <4>3. PhaseInv'
        BY <4>1
      <4> QED
        BY <4>2, <4>3
    <3>2. CASE ~srvGone
      <4>1. /\ pc = "teardown" /\ pc' = "reapServer" /\ c = nClients /\ srvTerm' = TRUE
            /\ UNCHANGED <<tick, c, nClients, gpu, cliPid, srvGone, signals, srv, daemon, cli,
                          cliTerm, files>>
        BY <2>3, <3>2 DEF KillServer
      <4>2. TypeOK'
        BY <4>1
      <4>3. PhaseInv'
        BY <3>2, <4>1
      <4> QED
        BY <4>2, <4>3
    <3> QED
      BY <3>1, <3>2
  <2>4. CASE WaitServer
    BY <2>4 DEF WaitServer
  <2> QED
    BY <1>4, <2>1, <2>2, <2>3, <2>4 DEF Teardown
<1>5. CASE Sigalrm
  <2>1. CASE AlarmElsewhere
    <3> USE DEF AlarmElsewhere, Alarm
    <3>1. UNCHANGED <<pc, tick, c, nClients, gpu, cliPid, srvGone>>
      BY <2>1
    <3>2. UNCHANGED <<srv, daemon, cli, srvTerm, cliTerm>>
      BY <2>1
    <3>3. UNCHANGED <<node, sock, listening, accepting>>
      BY <2>1
    <3>4. armed' \in BOOLEAN /\ quit' \in BOOLEAN
      BY <2>1, Zenon
    <3>5. TypeOK'
      BY ONLY TypeOK, <3>1, <3>2, <3>3, <3>4 DEF TypeOK
    <3>6. PhaseInv'
      BY ONLY PhaseInv, <3>1, <3>2, <3>3 DEF PhaseInv, Child, Slots
    <3> QED
      BY <3>5, <3>6
  <2>2. CASE AlarmInWait
    BY <2>2, ZenonT(60) DEF AlarmInWait, Alarm
  <2>3. CASE AlarmInTeardown
    <3>1. TypeOK'
      <4>1. armed' = FALSE /\ quit' = TRUE /\ UNCHANGED <<tick, nClients, gpu, srvGone, procs, files>>
        BY <2>3 DEF AlarmInTeardown, Alarm
      <4>2. CASE pc = "reapClient"
        <5>1. /\ cliPid' = [cliPid EXCEPT ![c] = FALSE]
              /\ c' = c + 1 /\ c < nClients
              /\ pc' = "teardown"
          BY <2>3, <4>2 DEF AlarmInTeardown, NextClient
        <5>2. cliPid' \in [Slots -> BOOLEAN] /\ c' \in 0..nClients /\ pc' \in Locations
          BY <5>1
        <5>3. armed' \in BOOLEAN /\ quit' \in BOOLEAN
          BY <4>1
        <5> QED
          BY <4>1, <5>2, <5>3
      <4>3. CASE pc = "reapServer"
        BY <2>3, <4>1, <4>3, ZenonT(60) DEF AlarmInTeardown
      <4> QED
        BY <2>3, <4>2, <4>3 DEF AlarmInTeardown
    <3>2. PhaseInv'
      BY <2>3 DEF AlarmInTeardown, Alarm, NextClient
    <3> QED
      BY <3>1, <3>2
  <2> QED
    BY <1>5, <2>1, <2>2, <2>3 DEF Sigalrm
<1>6. CASE Environment
  <2>1. CASE DaemonUp \/ ServerListens \/ ServerAccepts
    <3>1. TypeOK'
      <4>1. CASE DaemonUp
        BY <4>1 DEF DaemonUp
      <4>2. CASE ServerListens
        BY <4>2 DEF ServerListens
      <4>3. CASE ServerAccepts
        BY <4>3 DEF ServerAccepts
      <4> QED
        BY <2>1, <4>1, <4>2, <4>3
    <3>2. PhaseInv'
      BY <2>1 DEF DaemonUp, ServerListens, ServerAccepts
    <3> QED
      BY <3>1, <3>2
  <2>2. CASE ServerExits
    <3>1. TypeOK'
      <4>1. UNCHANGED <<pc, tick, c, nClients, gpu, cliPid, srvGone, armed, quit, daemon, cli,
                        srvTerm, cliTerm, node, sock>>
        BY <2>2 DEF ServerExits
      <4>2. srv' \in ProcState /\ listening' \in BOOLEAN /\ accepting' \in BOOLEAN
        BY <2>2 DEF ServerExits
      <4> QED
        BY ONLY TypeOK, <4>1, <4>2 DEF TypeOK
    <3>2. PhaseInv'
      BY <2>2 DEF ServerExits
    <3> QED
      BY <3>1, <3>2
  <2>3. CASE DaemonExits
    BY <2>3 DEF DaemonExits
  <2>4. ASSUME NEW i \in Clients, ClientExits(i) PROVE TypeOK' /\ PhaseInv'
    BY <2>4 DEF ClientExits
  <2> QED
    BY <1>6, <2>1, <2>2, <2>3, <2>4 DEF Environment
<1> QED
  BY <1>1, <1>2, <1>3, <1>4, <1>5, <1>6 DEF Next, Launcher, Finished

\* The inductive invariant holds in every reachable state.
LEMMA Invariance == Spec => [](TypeOK /\ PhaseInv)
  BY InitInv, StepInv, PTL DEF Spec

-----------------------------------------------------------------------------
\* TypeOK for every session; c, the index into cli_pid, stays within the session's clients
\* and so within the MAX_CLIENTS entries of the array.
THEOREM TypeCorrect == Spec => []TypeOK
  BY Invariance, PTL

\* No signal of the launcher can reach a process that is not its child: the pids it holds
\* at lines 875-879, 892-893 and 927-933 are those of children it has not reaped.
THEOREM PidSafety == Spec => []PidsAreOurs
<1>1. TypeOK /\ PhaseInv => PidsAreOurs
  BY DEF PhaseInv, PidsAreOurs, Supervising
<1> QED
  BY <1>1, Invariance, PTL

\* While the leader and the server live, the launcher tells nobody to stop, except the
\* leader when --quit-after asks for it.
THEOREM AppExit == Spec => AppExitIsHarmless
<1>1. TypeOK /\ PhaseInv /\ [Next]_vars =>
        [\A i \in Slots :
            cliTerm'[i] /\ ~cliTerm[i] /\ Child(srv) /\ Child(cli[0]) => i = 0 /\ quit]_vars
  <2> SUFFICES ASSUME TypeOK, PhaseInv, Next, NEW i \in Slots,
                      cliTerm'[i], ~cliTerm[i], Child(srv), Child(cli[0])
               PROVE  i = 0 /\ quit
    OBVIOUS
  <2>1. CASE KillClient
    BY <2>1 DEF KillClient, PhaseInv, Child
  <2>2. CASE Interrupted
    BY <2>2 DEF Interrupted, TypeOK
  <2>3. CASE ~KillClient /\ ~Interrupted
    <3>1. UNCHANGED cliTerm
      BY <2>3 DEF Next, Launcher, BringUp, Supervise, Teardown, Sigalrm, Environment, Finished,
           GpuReady, DaemonMissing, StartDaemon, PollDaemon, BuildArgv, OutOfMemory, StartServer,
           ServerForkFails, ServerDiedInInit, PollSocket, PollAccepting, Connected, Settle,
           ForkClient, AllForked, Arm, ReapServer, ReapDaemon, ReapClient, WaitClient, KillServer, WaitServer,
           AlarmElsewhere, AlarmInWait, AlarmInTeardown, DaemonUp, ServerListens, ServerAccepts,
           ServerExits, DaemonExits, ClientExits, procs, vars
    <3> QED
      BY <3>1
  <2> QED
    BY <2>1, <2>2, <2>3
<1> QED
  BY <1>1, Invariance, PTL DEF Spec, AppExitIsHarmless

\* Unless an alarm is unserved, no step leaves a child unreaped whose pid main() has
\* forgotten.
LEMMA NoAlarmStep ==
    TypeOK /\ PhaseInv /\ NoAlarmInv /\ [Next]_vars => NoAlarmInv'
<1> SUFFICES ASSUME TypeOK, PhaseInv, NoAlarmInv, [Next]_vars PROVE NoAlarmInv'
  OBVIOUS
<1> USE DEF NoAlarmInv, Child, Goto, launcher, signals, procs, files
<1>1. CASE BringUp
  <2>1. CASE \/ GpuReady \/ DaemonMissing \/ StartDaemon \/ PollDaemon \/ BuildArgv \/ OutOfMemory
             \/ StartServer \/ ServerForkFails \/ ServerDiedInInit \/ Settle \/ AllForked
    BY <2>1 DEF GpuReady, DaemonMissing, StartDaemon, PollDaemon, BuildArgv, OutOfMemory, StartServer,
                ServerForkFails, ServerDiedInInit, Settle, AllForked, PhaseInv
  <2>2. CASE PollSocket \/ PollAccepting \/ Connected
    BY <2>2 DEF PollSocket, PollAccepting, Connected
  <2>3. CASE ForkClient
    BY <2>3 DEF ForkClient, TypeOK, Slots
  <2>4. CASE Arm
    BY <2>4 DEF Arm
  <2> QED
    BY <1>1, <2>1, <2>2, <2>3, <2>4 DEF BringUp
<1>2. CASE Supervise
  <2>1. CASE ReapServer \/ ReapDaemon
    <3>1. UNCHANGED <<quit, cli, cliPid>> /\ pc' # "exit"
      BY <2>1 DEF ReapServer, ReapDaemon
    <3> QED
      BY <3>1
  <2>3. CASE Interrupted
    \* quit may be cleared here, where PhaseInv knows of every child.
    <3>1. UNCHANGED <<cli, cliPid>> /\ pc = "eintr" /\ pc' # "exit"
      BY <2>3 DEF Interrupted
    <3> QED
      BY <3>1 DEF PhaseInv
  <2>2. ASSUME NEW i \in Clients, ReapClient(i) PROVE NoAlarmInv'
    BY <2>2 DEF ReapClient, TypeOK, Slots
  <2> QED
    BY <1>2, <2>1, <2>2, <2>3 DEF Supervise
<1>3. CASE Teardown
  <2>1. CASE KillClient
    BY <2>1 DEF KillClient
  <2>2. CASE WaitClient
    BY <2>2 DEF WaitClient, NextClient, TypeOK
  <2>3. CASE KillServer \/ WaitServer
    BY <2>3 DEF KillServer, WaitServer, PhaseInv
  <2> QED
    BY <1>3, <2>1, <2>2, <2>3 DEF Teardown
<1>4. CASE Sigalrm
  BY <1>4 DEF Sigalrm, AlarmElsewhere, AlarmInWait, AlarmInTeardown, Alarm
<1>5. CASE Environment
  <2>1. CASE DaemonUp \/ ServerListens \/ ServerAccepts \/ ServerExits \/ DaemonExits
    BY <2>1 DEF DaemonUp, ServerListens, ServerAccepts, ServerExits, DaemonExits
  <2>2. ASSUME NEW i \in Clients, ClientExits(i) PROVE NoAlarmInv'
    BY <2>2 DEF ClientExits, TypeOK
  <2> QED
    BY <1>5, <2>1, <2>2 DEF Environment
<1>6. CASE UNCHANGED vars
  BY <1>6 DEF vars
<1> QED
  BY <1>1, <1>2, <1>3, <1>4, <1>5, <1>6 DEF Next, Launcher, Finished

\* No step forgets the pid of a child that was not told to stop.
LEMMA DyingStep ==
    TypeOK /\ PhaseInv /\ DyingInv /\ [Next]_vars => DyingInv'
<1> SUFFICES ASSUME TypeOK, PhaseInv, DyingInv, [Next]_vars PROVE DyingInv'
  OBVIOUS
<1> USE DEF DyingInv, Child, Goto, launcher, signals, procs, files
<1>1. CASE BringUp
  <2>1. CASE \/ GpuReady \/ DaemonMissing \/ StartDaemon \/ PollDaemon \/ BuildArgv \/ OutOfMemory
             \/ StartServer \/ ServerForkFails \/ ServerDiedInInit \/ Settle \/ AllForked
    BY <2>1 DEF GpuReady, DaemonMissing, StartDaemon, PollDaemon, BuildArgv, OutOfMemory, StartServer,
                ServerForkFails, ServerDiedInInit, Settle, AllForked, PhaseInv
  <2>2. CASE PollSocket \/ PollAccepting \/ Connected
    BY <2>2 DEF PollSocket, PollAccepting, Connected
  <2>3. CASE ForkClient
    BY <2>3 DEF ForkClient, TypeOK, Slots
  <2>4. CASE Arm
    BY <2>4 DEF Arm
  <2> QED
    BY <1>1, <2>1, <2>2, <2>3, <2>4 DEF BringUp
<1>2. CASE Supervise
  <2>1. CASE ReapServer \/ ReapDaemon
    <3>1. UNCHANGED <<cli, cliPid, cliTerm>> /\ pc' \in {"wait", "teardown"}
      BY <2>1 DEF ReapServer, ReapDaemon
    <3> QED
      BY <3>1
  <2>2. ASSUME NEW i \in Clients, ReapClient(i) PROVE DyingInv'
    <3>1. pc' \in {"wait", "teardown"}
      BY <2>2 DEF ReapClient
    <3> QED
      BY <2>2, <3>1 DEF ReapClient, TypeOK
  <2>3. CASE Interrupted
    <3>1. pc' = "wait" /\ UNCHANGED <<cli, cliPid>>
      BY <2>3 DEF Interrupted
    <3>2. \A i \in Slots : cliTerm[i] => cliTerm'[i]
      <4>1. CASE quit /\ cliPid[0]
        BY <2>3, <4>1 DEF Interrupted, TypeOK
      <4>2. CASE ~(quit /\ cliPid[0])
        BY <2>3, <4>2 DEF Interrupted
      <4> QED
        BY <4>1, <4>2
    <3> QED
      BY <3>1, <3>2
  <2> QED
    BY <1>2, <2>1, <2>2, <2>3 DEF Supervise
<1>3. CASE Teardown
  <2>1. CASE KillClient
    <3>1. c \in Slots
      BY <2>1 DEF KillClient, TypeOK, Slots, MaxClients
    <3>2. UNCHANGED <<cli, cliPid>>
      BY <2>1 DEF KillClient
    <3>3. CASE cliPid[c]
      BY <2>1, <3>1, <3>2, <3>3 DEF KillClient, TypeOK
    <3>4. CASE ~cliPid[c]
      BY <2>1, <3>2, <3>4 DEF KillClient
    <3> QED
      BY <3>3, <3>4
  <2>2. CASE WaitClient
    BY <2>2 DEF WaitClient, NextClient, TypeOK
  <2>3. CASE KillServer
    <3>1. CASE srvGone
      BY <2>3, <3>1 DEF KillServer, PhaseInv
    <3>2. CASE ~srvGone
      BY <2>3, <3>2 DEF KillServer
    <3> QED
      BY <3>1, <3>2
  <2>4. CASE WaitServer
    BY <2>4 DEF WaitServer
  <2> QED
    BY <1>3, <2>1, <2>2, <2>3, <2>4 DEF Teardown
<1>4. CASE Sigalrm
  <2>1. CASE AlarmElsewhere \/ AlarmInWait
    BY <2>1 DEF AlarmElsewhere, AlarmInWait
  <2>2. CASE AlarmInTeardown
    BY <2>2 DEF AlarmInTeardown, NextClient, TypeOK
  <2> QED
    BY <1>4, <2>1, <2>2 DEF Sigalrm
<1>5. CASE Environment
  <2>1. CASE DaemonUp \/ ServerListens \/ ServerAccepts \/ ServerExits \/ DaemonExits
    BY <2>1 DEF DaemonUp, ServerListens, ServerAccepts, ServerExits, DaemonExits
  <2>2. ASSUME NEW i \in Clients, ClientExits(i) PROVE DyingInv'
    BY <2>2 DEF ClientExits, TypeOK
  <2> QED
    BY <1>5, <2>1, <2>2 DEF Environment
<1>6. CASE UNCHANGED vars
  BY <1>6 DEF vars
<1> QED
  BY <1>1, <1>2, <1>3, <1>4, <1>5, <1>6 DEF Next, Launcher, Finished

\* Neither a client nor the server survives the launcher, unless SIGALRM was left unserved,
\* and then it has been told to stop: for every session, and whenever the alarm comes.
THEOREM Orphans == Spec => []OrphansAreExplained
<1>1. Init => NoAlarmInv /\ DyingInv
  BY DEF Init, NoAlarmInv, DyingInv, Child
<1>2. TypeOK /\ PhaseInv /\ NoAlarmInv /\ DyingInv => OrphansAreExplained
  <2> SUFFICES ASSUME TypeOK, PhaseInv, NoAlarmInv, DyingInv, pc = "exit"
               PROVE  /\ Child(srv) => quit /\ srvTerm
                      /\ \A i \in Slots : Child(cli[i]) => quit /\ cliTerm[i]
    BY DEF OrphansAreExplained
  <2>1. \A i \in Slots : ~cliPid[i]
    BY DEF PhaseInv
  <2> QED
    BY <2>1 DEF NoAlarmInv, DyingInv
<1> QED
  BY <1>1, <1>2, NoAlarmStep, DyingStep, Invariance, PTL DEF Spec

-----------------------------------------------------------------------------
(* Taking from the front of a queue *)

LEMMA TakenLeft ==
    ASSUME NEW E, NEW s \in Seq(E), NEW n \in 0..Len(s)
    PROVE  /\ Taken(s, n) \in Seq(E) /\ Len(Taken(s, n)) = n
           /\ \A i \in 1..n : Taken(s, n)[i] = s[i]
           /\ Left(s, n) \in Seq(E) /\ Len(Left(s, n)) = Len(s) - n
           /\ \A i \in 1..(Len(s) - n) : Left(s, n)[i] = s[n + i]
<1>1. Len(s) \in Nat /\ n \in Nat /\ n <= Len(s) /\ \A i \in 1..Len(s) : s[i] \in E
    OBVIOUS
<1> DEFINE m == Len(s)
<1>2. m \in Nat /\ n \in 0..m /\ \A i \in 1..m : s[i] \in E
    BY <1>1
<1>3. Taken(s, n) = SubSeq(s, 1, n) /\ Left(s, n) = SubSeq(s, n + 1, m)
    BY DEF Taken, Left
<1> HIDE DEF m
<1>4. (\A i \in 1..n : s[i] \in E) /\ (\A i \in (n + 1)..m : s[i] \in E)
    BY <1>2
<1>5. /\ Taken(s, n) \in Seq(E) /\ Len(Taken(s, n)) = (IF 1 <= n THEN n - 1 + 1 ELSE 0)
      /\ \A i \in 1..(n - 1 + 1) : Taken(s, n)[i] = s[1 + i - 1]
    BY <1>2, <1>3, <1>4, SubSeqProperties
<1>6. n + 1 \in Int /\ m \in Int
    BY <1>2
<1>7. /\ Left(s, n) \in Seq(E) /\ Len(Left(s, n)) = (IF n + 1 <= m THEN m - (n + 1) + 1 ELSE 0)
      /\ \A i \in 1..(m - (n + 1) + 1) : Left(s, n)[i] = s[n + 1 + i - 1]
    BY <1>3, <1>4, <1>6, SubSeqProperties
<1>8. (IF 1 <= n THEN n - 1 + 1 ELSE 0) = n /\ n - 1 + 1 = n /\ m - (n + 1) + 1 = m - n
      /\ (IF n + 1 <= m THEN m - (n + 1) + 1 ELSE 0) = m - n
    BY <1>2
<1>9. \A i \in 1..n : 1 + i - 1 = i
    BY <1>2
<1>10. \A i \in 1..(m - n) : n + 1 + i - 1 = n + i
    BY <1>2
<1>11. Len(Taken(s, n)) = n /\ \A i \in 1..n : Taken(s, n)[i] = s[i]
    BY <1>5, <1>8, <1>9
<1>12. Len(Left(s, n)) = m - n /\ \A i \in 1..(m - n) : Left(s, n)[i] = s[n + i]
    BY <1>7, <1>8, <1>10
<1> QED BY <1>5, <1>7, <1>11, <1>12 DEF m

-----------------------------------------------------------------------------
(* Increasing numbers *)

Increasing(s) == \A i, j \in DOMAIN s : i < j => s[i] < s[j]
Before(s, u) == \A i \in DOMAIN s, j \in DOMAIN u : s[i] < u[j]
UpTo(s, n) == \A i \in DOMAIN s : s[i] <= n

\* The elements of a are n consecutive ones of s.
Segment(a, s) == \E m \in Nat : \A i \in DOMAIN a : i + m \in DOMAIN s /\ a[i] = s[i + m]

\* A run of consecutive elements of a sequence is ordered and bounded as the sequence is.
LEMMA SegmentKeeps ==
    ASSUME NEW a \in Seq(Nat), NEW s \in Seq(Nat), Segment(a, s)
    PROVE  /\ Increasing(s) => Increasing(a)
           /\ \A u : Before(s, u) => Before(a, u)
           /\ \A u : Before(u, s) => Before(u, a)
           /\ \A n \in Nat : UpTo(s, n) => UpTo(a, n)
<1>1. PICK m \in Nat : \A i \in DOMAIN a : i + m \in DOMAIN s /\ a[i] = s[i + m]
    BY DEF Segment
<1>2. \A i \in DOMAIN a : i \in Nat
    OBVIOUS
<1>3. Increasing(s) => Increasing(a)
    <2>1. SUFFICES ASSUME Increasing(s), NEW i \in DOMAIN a, NEW j \in DOMAIN a, i < j
                   PROVE  a[i] < a[j]
        BY DEF Increasing
    <2>2. i + m < j + m
        BY <1>2, <2>1
    <2>3. s[i + m] < s[j + m]
        BY <1>1, <2>1, <2>2 DEF Increasing
    <2> QED BY <1>1, <2>3
<1>4. \A u : Before(s, u) => Before(a, u)
    BY <1>1 DEF Before
<1>5. \A u : Before(u, s) => Before(u, a)
    BY <1>1 DEF Before
<1>6. \A n \in Nat : UpTo(s, n) => UpTo(a, n)
    BY <1>1 DEF UpTo
<1> QED BY <1>3, <1>4, <1>5, <1>6

\* An element of a concatenation comes from one of its two parts, at a place of that part.
LEMMA ConcatCases ==
    ASSUME NEW a \in Seq(Nat), NEW b \in Seq(Nat), NEW i \in DOMAIN (a \o b)
    PROVE  \/ i \in DOMAIN a /\ (a \o b)[i] = a[i]
           \/ i \notin DOMAIN a /\ i - Len(a) \in DOMAIN b /\ (a \o b)[i] = b[i - Len(a)]
<1>1. /\ a \o b \in Seq(Nat) /\ Len(a \o b) = Len(a) + Len(b)
      /\ \A k \in 1..(Len(a) + Len(b)) : (a \o b)[k] = IF k <= Len(a) THEN a[k] ELSE b[k - Len(a)]
    BY ConcatProperties
<1> DEFINE x == Len(a)
           y == Len(b)
<1>2. /\ DOMAIN a = 1..x /\ DOMAIN b = 1..y /\ DOMAIN (a \o b) = 1..(x + y)
      /\ x \in Nat /\ y \in Nat
    BY <1>1
<1>3. (a \o b)[i] = IF i <= x THEN a[i] ELSE b[i - x]
    BY <1>1, <1>2
<1> HIDE DEF x, y
<1>4. CASE i <= x
    <2>1. i \in DOMAIN a
        BY <1>2, <1>4
    <2> QED BY <2>1, <1>3, <1>4
<1>5. CASE ~(i <= x)
    <2>1. i \notin DOMAIN a /\ i - x \in DOMAIN b
        BY <1>2, <1>5
    <2> QED BY <2>1, <1>3, <1>5 DEF x
<1> QED BY <1>4, <1>5

\* What is read in order and appended in order stays in order: the loop of the runner
\* moves bytes from one buffer to the end of the next.
LEMMA ConcatKeeps ==
    ASSUME NEW a \in Seq(Nat), NEW b \in Seq(Nat)
    PROVE  /\ Increasing(a) /\ Increasing(b) /\ Before(a, b) => Increasing(a \o b)
           /\ \A u : Before(a, u) /\ Before(b, u) => Before(a \o b, u)
           /\ \A u : Before(u, a) /\ Before(u, b) => Before(u, a \o b)
           /\ \A n : UpTo(a, n) /\ UpTo(b, n) => UpTo(a \o b, n)
<1>1. \A i \in DOMAIN (a \o b) :
        \/ i \in DOMAIN a /\ (a \o b)[i] = a[i]
        \/ i \notin DOMAIN a /\ i - Len(a) \in DOMAIN b /\ (a \o b)[i] = b[i - Len(a)]
    BY ConcatCases
<1>2. a \o b \in Seq(Nat) /\ DOMAIN a = 1..Len(a) /\ Len(a) \in Nat
    BY ConcatProperties
<1> DEFINE v == a \o b
           x == Len(a)
<1>3. /\ v \in Seq(Nat) /\ DOMAIN a = 1..x /\ x \in Nat
      /\ \A i \in DOMAIN v : \/ i \in DOMAIN a /\ v[i] = a[i]
                             \/ i \notin DOMAIN a /\ i - x \in DOMAIN b /\ v[i] = b[i - x]
    BY <1>1, <1>2
<1> HIDE DEF v, x
<1>4. \A i \in DOMAIN v : i \in Nat /\ i > 0
    BY <1>3
<1>5. Increasing(a) /\ Increasing(b) /\ Before(a, b) => Increasing(v)
    <2>1. SUFFICES ASSUME Increasing(a), Increasing(b), Before(a, b),
                          NEW i \in DOMAIN v, NEW j \in DOMAIN v, i < j
                   PROVE  v[i] < v[j]
        BY DEF Increasing
    <2>2. CASE i \in DOMAIN a /\ j \in DOMAIN a
        BY <1>3, <2>1, <2>2 DEF Increasing
    <2>3. CASE i \in DOMAIN a /\ j \notin DOMAIN a
        BY <1>3, <2>1, <2>3 DEF Before
    <2>4. CASE i \notin DOMAIN a /\ j \in DOMAIN a
        BY <1>3, <1>4, <2>1, <2>4
    <2>5. CASE i \notin DOMAIN a /\ j \notin DOMAIN a
        <3>1. i - x < j - x
            BY <1>3, <1>4, <2>1
        <3>2. i - x \in DOMAIN b /\ j - x \in DOMAIN b /\ v[i] = b[i - x] /\ v[j] = b[j - x]
            BY <1>3, <2>5
        <3> QED BY <2>1, <3>1, <3>2 DEF Increasing
    <2> QED BY <2>2, <2>3, <2>4, <2>5
<1>6. \A u : Before(a, u) /\ Before(b, u) => Before(v, u)
    BY <1>3 DEF Before
<1>7. \A u : Before(u, a) /\ Before(u, b) => Before(u, v)
    BY <1>3 DEF Before
<1>8. \A n : UpTo(a, n) /\ UpTo(b, n) => UpTo(v, n)
    BY <1>3 DEF UpTo
<1> QED BY <1>5, <1>6, <1>7, <1>8 DEF v

-----------------------------------------------------------------------------
(* Type correctness *)

\* One step per action.
LEMMA SizeOfPart ==
    ASSUME NEW E, NEW s \in Seq(E), NEW v \in Nat \ {0}
    PROVE  /\ Smaller(Len(s), v) \in 0..Len(s)
           /\ s # <<>> => Smaller(Len(s), v) > 0
<1>1. Len(s) \in Nat /\ (s # <<>> => Len(s) > 0)
    OBVIOUS
<1> QED BY <1>1 DEF Smaller

\* What reading the console does to the input.
LEMMA StdinTakes ==
    ASSUME PtyTypeOK, ReadStdin
    PROVE  \/ UNCHANGED <<console, toChild>>
           \/ \E n \in 0..Len(console) : \E k \in 0..n :
                /\ k + Len(toChild) <= Room
                /\ toChild' = toChild \o Taken(console, k)
                /\ console' = Left(console, n)
<1>1. CASE console # <<>> /\ "stdin" \in ready
    <2> DEFINE n == Smaller(Len(console), Chunk)
               w == Len(toChild)
    <2>1. PICK k \in Accepted(n) : toChild' = toChild \o Taken(console, k) /\ console' = Left(console, n)
        BY <1>1 DEF ReadStdin, Consumed
    <2>2. console \in Seq(1..MaxTyped) /\ w \in Nat /\ w <= Room
        BY DEF PtyTypeOK
    <2>3. n \in 0..Len(console)
        BY <2>2, SizeOfPart, SizeAssumption
    <2>4. k \in 0..Smaller(n, Room - w)
        BY <2>1 DEF Accepted
    <2>5. Len(console) \in Nat
        BY <2>2
    <2> HIDE DEF n, w
    <2>6. k \in 0..n /\ k + w <= Room
        BY <2>2, <2>3, <2>4, <2>5, SizeAssumption DEF Smaller
    <2> QED BY <2>1, <2>3, <2>6 DEF w
<1>2. CASE ~(console # <<>> /\ "stdin" \in ready)
    BY <1>2 DEF ReadStdin
<1> QED BY <1>1, <1>2

\* What copying the child's output does: the n bytes that were read leave the pty, the first k
\* of them are shown and the others refused.
LEMMA CopyTakes ==
    ASSUME NEW E, toParent \in Seq(E), Copy
    PROVE  \E n \in 0..Len(toParent) : \E k \in 0..n :
                /\ out' = out \o Taken(toParent, k)
                /\ refused' = refused \cup {toParent[i] : i \in (k + 1)..n}
                /\ toParent' = Left(toParent, n)
<1> DEFINE n == Smaller(Len(toParent), Chunk)
<1>1. n \in 0..Len(toParent)
    BY SizeOfPart, SizeAssumption
<1>2. \E k \in 0..n :
        /\ out' = out \o Taken(toParent, k)
        /\ refused' = refused \cup {toParent[i] : i \in (k + 1)..n}
        /\ toParent' = Left(toParent, n)
    BY DEF Copy, Shown
<1> HIDE DEF n
<1> QED BY <1>1, <1>2

\* Every step of the runner, of its child and of the terminal leaves the buffers typed and
\* within their size.
LEMMA PtyStepType == PtyTypeOK /\ [PtyNext]_ptyVars => PtyTypeOK'
<1> SUFFICES ASSUME PtyTypeOK, [PtyNext]_ptyVars PROVE PtyTypeOK'
    OBVIOUS
<1>1. CASE Waitpid
    BY <1>1 DEF Waitpid, PtyTypeOK, input, pty, display
<1>2. CASE Select
    BY <1>2 DEF Select, Readable, PtyTypeOK, input, pty, display
<1>3. CASE ReadStdin
    <2>1. /\ UNCHANGED <<ready, child, slave, eof, toParent, typed, written, got, display>>
          /\ parent = "stdin" /\ parent' \in {"master", "done"}
        BY <1>3 DEF ReadStdin
    <2>2. console' \in Seq(1..MaxTyped) /\ toChild' \in Seq(1..MaxTyped) /\ Len(toChild') <= Room
        <3>1. CASE UNCHANGED <<console, toChild>>
            BY <3>1 DEF PtyTypeOK
        <3>2. CASE \E n \in 0..Len(console) : \E k \in 0..n :
                /\ k + Len(toChild) <= Room
                /\ toChild' = toChild \o Taken(console, k)
                /\ console' = Left(console, n)
            <4>8. PICK n \in 0..Len(console) : \E k \in 0..n :
                    /\ k + Len(toChild) <= Room
                    /\ toChild' = toChild \o Taken(console, k)
                    /\ console' = Left(console, n)
                BY <3>2
            <4>1. PICK k \in 0..n :
                    /\ k + Len(toChild) <= Room
                    /\ toChild' = toChild \o Taken(console, k)
                    /\ console' = Left(console, n)
                BY <4>8
            <4>2. console \in Seq(1..MaxTyped) /\ toChild \in Seq(1..MaxTyped)
                BY DEF PtyTypeOK
            <4>3. k \in 0..Len(console) /\ k \in Nat /\ Len(toChild) \in Nat
                BY <4>2
            <4>4. Taken(console, k) \in Seq(1..MaxTyped) /\ Len(Taken(console, k)) = k
                BY <4>2, <4>3, TakenLeft
            <4>5. Left(console, n) \in Seq(1..MaxTyped)
                BY <4>2, TakenLeft
            <4>6. toChild' \in Seq(1..MaxTyped) /\ Len(toChild') = Len(toChild) + Len(Taken(console, k))
                BY <4>1, <4>2, <4>4, ConcatProperties
            <4>7. Len(toChild') = k + Len(toChild)
                BY <4>3, <4>4, <4>6
            <4> QED BY <4>1, <4>5, <4>6, <4>7
        <3> QED BY <1>3, <3>1, <3>2, StdinTakes
    <2> QED BY <2>1, <2>2 DEF PtyTypeOK, display
<1>4. CASE ReadMaster
    <2>1. UNCHANGED <<ready, child, slave, input, toChild, written, got>> /\ parent = "master"
          /\ parent' \in {"reap", "done"}
        BY <1>4 DEF ReadMaster
    <2>2. /\ toParent \in Seq(1..MaxWritten) /\ out \in Seq(1..MaxWritten)
          /\ refused \subseteq 1..MaxWritten /\ Len(toParent) <= Room /\ Len(toParent) \in Nat
        BY DEF PtyTypeOK
    <2>3. /\ out' \in Seq(1..MaxWritten) /\ refused' \subseteq 1..MaxWritten
          /\ toParent' \in Seq(1..MaxWritten) /\ Len(toParent') <= Room
        <3>1. CASE UNCHANGED <<toParent, display>>
            BY <2>2, <3>1 DEF display
        <3>2. CASE Copy
            <4>1. PICK n \in 0..Len(toParent) : \E k \in 0..n :
                    /\ out' = out \o Taken(toParent, k)
                    /\ refused' = refused \cup {toParent[i] : i \in (k + 1)..n}
                    /\ toParent' = Left(toParent, n)
                BY <2>2, <3>2, CopyTakes
            <4>2. PICK k \in 0..n :
                    /\ out' = out \o Taken(toParent, k)
                    /\ refused' = refused \cup {toParent[i] : i \in (k + 1)..n}
                    /\ toParent' = Left(toParent, n)
                BY <4>1
            <4>3. k \in 0..Len(toParent)
                BY <2>2
            <4>4. /\ Taken(toParent, k) \in Seq(1..MaxWritten)
                  /\ Left(toParent, n) \in Seq(1..MaxWritten)
                  /\ Len(Left(toParent, n)) = Len(toParent) - n
                BY <2>2, <4>3, TakenLeft, ZenonT(60)
            <4>5. out' \in Seq(1..MaxWritten)
                BY <2>2, <4>2, <4>4, ConcatProperties
            <4>6. Len(toParent) - n <= Room
                BY <2>2, SizeAssumption
            <4>7. ASSUME NEW i \in (k + 1)..n PROVE toParent[i] \in 1..MaxWritten
                <5>1. i \in 1..Len(toParent)
                    BY <2>2
                <5> QED BY <2>2, <5>1, ElementOfSeq
            <4> QED BY <2>2, <4>2, <4>4, <4>5, <4>6, <4>7
        <3> QED BY <1>4, <3>1, <3>2 DEF ReadMaster
    <2> QED BY <2>1, <2>3 DEF PtyTypeOK, input
<1>5. CASE Type
    <2>1. typed + 1 \in 1..MaxTyped /\ console \in Seq(1..MaxTyped)
        BY <1>5, BoundsAssumption DEF Type, PtyTypeOK
    <2>2. console' \in Seq(1..MaxTyped) /\ typed' \in 0..MaxTyped
        BY <2>1, <1>5 DEF Type
    <2> QED BY <2>2, <1>5 DEF Type, PtyTypeOK, pty, display
<1>6. CASE CloseConsole
    BY <1>6 DEF CloseConsole, PtyTypeOK, pty, display
<1>7. CASE OpenSlave
    BY <1>7 DEF OpenSlave, PtyTypeOK, input, display
<1>8. CASE WriteSlave
    <2>1. /\ written + 1 \in 1..MaxWritten /\ toParent \in Seq(1..MaxWritten)
          /\ Len(toParent) \in Nat /\ Len(toParent) + 1 <= Room
        BY <1>8, BoundsAssumption, SizeAssumption DEF WriteSlave, PtyTypeOK
    <2>2. toParent' = Append(toParent, written + 1)
        BY <1>8 DEF WriteSlave
    <2>3. toParent' \in Seq(1..MaxWritten) /\ Len(toParent') = Len(toParent) + 1
        BY <2>1, <2>2
    <2>4. written' \in 0..MaxWritten
        BY <2>1, <1>8 DEF WriteSlave
    <2> QED BY <2>1, <2>3, <2>4, <1>8 DEF WriteSlave, PtyTypeOK, input, display
<1>9. CASE ReadSlave
    <2>1. /\ toChild \in Seq(1..MaxTyped) /\ toChild # <<>> /\ got \in Seq(1..MaxTyped)
          /\ Len(toChild) <= Room /\ Len(toChild) \in Nat
          /\ got' = Append(got, Head(toChild)) /\ toChild' = Tail(toChild)
        BY <1>9 DEF ReadSlave, PtyTypeOK
    <2>2. Head(toChild) \in 1..MaxTyped /\ Tail(toChild) \in Seq(1..MaxTyped)
          /\ Len(Tail(toChild)) = Len(toChild) - 1
        BY <2>1, HeadTailProperties
    <2>3. got' \in Seq(1..MaxTyped)
        BY <2>1, <2>2
    <2>4. Len(toChild') <= Room
        BY <2>1, <2>2, SizeAssumption
    <2> QED BY <2>1, <2>2, <2>3, <2>4, <1>9 DEF ReadSlave, PtyTypeOK, input, display
<1>10. CASE CloseSlave
    BY <1>10 DEF CloseSlave, PtyTypeOK, input, display
<1>11. CASE ChildExits
    BY <1>11 DEF ChildExits, PtyTypeOK, input, pty, display
<1>12. CASE UNCHANGED ptyVars
    BY <1>12 DEF ptyVars, PtyTypeOK
<1> QED BY <1>1, <1>2, <1>3, <1>4, <1>5, <1>6, <1>7, <1>8, <1>9, <1>10, <1>11, <1>12
        DEF PtyNext, Parent

\* The runner starts typed, with its buffers empty.
LEMMA PtyInitType == PtyInit => PtyTypeOK
<1>1. SUFFICES ASSUME PtyInit PROVE PtyTypeOK
    OBVIOUS
<1>2. /\ console = <<>> /\ toChild = <<>> /\ toParent = <<>> /\ got = <<>> /\ out = <<>>
      /\ refused = {} /\ parent = "reap" /\ ready = {} /\ child = "running" /\ slave = "unopened" /\ eof = FALSE
      /\ typed = 0 /\ written = 0
    BY <1>1 DEF PtyInit
<1>3. \A n : <<>> \in Seq(1..n)
    OBVIOUS
<1>4. Len(toChild) <= Room /\ Len(toParent) <= Room
    BY <1>2, SizeAssumption
<1>5. typed \in 0..MaxTyped /\ written \in 0..MaxWritten
    BY <1>2, BoundsAssumption
<1> QED BY ONLY <1>2, <1>3, <1>4, <1>5 DEF PtyTypeOK

\* However much the master refuses and however the reads are cut, neither direction of the pty
\* holds more than it can, and the loop ends once, after the child's death (lines 108-150).
THEOREM PtyTypes == PtySpec => []PtyTypeOK
<1> QED BY PtyInitType, PtyStepType, PTL DEF PtySpec

-----------------------------------------------------------------------------
(* The bytes *)

\* What was shown and what is under way increase, and are all that was written and not refused.
OutputInv ==
    /\ Increasing(out) /\ Increasing(toParent) /\ Before(out, toParent)
    /\ UpTo(out, written) /\ UpTo(toParent, written)
    /\ Range(out) \cup Range(toParent) = (1..written) \ refused
    /\ refused \subseteq 1..written

\* What was typed and not lost increases, from what was read to what is still to be read.
InputInv ==
    /\ Increasing(got) /\ Increasing(toChild) /\ Increasing(console)
    /\ Before(got, toChild) /\ Before(got, console) /\ Before(toChild, console)
    /\ UpTo(got, typed) /\ UpTo(toChild, typed) /\ UpTo(console, typed)

\* A sequence over a set is one over a larger set.
LEMMA SeqOfMore ==
    ASSUME NEW A, NEW B, A \subseteq B, NEW s \in Seq(A)
    PROVE  s \in Seq(B)
<1>1. Len(s) \in Nat /\ DOMAIN s = 1..Len(s) /\ \A i \in 1..Len(s) : s[i] \in A
    OBVIOUS
<1>2. s = [i \in 1..Len(s) |-> s[i]]
    OBVIOUS
<1> DEFINE n == Len(s)
<1>3. s \in [1..n -> B]
    BY <1>1, <1>2
<1> HIDE DEF n
<1>4. n \in Nat
    BY <1>1 DEF n
<1> QED BY <1>3, <1>4

\* A queue that hands its first n elements on, of which the first k arrive.
LEMMA HandOver ==
    ASSUME NEW s \in Seq(Nat), NEW n \in 0..Len(s), NEW k \in 0..n
    PROVE  /\ Taken(s, k) \in Seq(Nat) /\ Segment(Taken(s, k), s)
           /\ Left(s, n) \in Seq(Nat) /\ Segment(Left(s, n), s)
           /\ Increasing(s) => Before(Taken(s, k), Left(s, n))
<1> DEFINE m == Len(s)
           a == Taken(s, k)
           b == Left(s, n)
<1>1. m \in Nat /\ n \in 0..m /\ k \in 0..m /\ k <= n /\ DOMAIN s = 1..m
    OBVIOUS
<1>2. /\ a \in Seq(Nat) /\ Len(a) = k /\ \A i \in 1..k : a[i] = s[i]
      /\ b \in Seq(Nat) /\ Len(b) = m - n /\ \A i \in 1..(m - n) : b[i] = s[n + i]
    BY <1>1, TakenLeft, ZenonT(60)
<1>3. DOMAIN a = 1..k /\ DOMAIN b = 1..(m - n)
    BY <1>2
<1> HIDE DEF a, b, m
<1>4. Segment(a, s)
    <2>1. 0 \in Nat /\ \A i \in DOMAIN a : i + 0 \in DOMAIN s /\ a[i] = s[i + 0]
        BY <1>1, <1>2, <1>3
    <2> QED BY <2>1 DEF Segment
<1>5. Segment(b, s)
    <2>1. n \in Nat
        BY <1>1
    <2>2. ASSUME NEW i \in DOMAIN b PROVE i + n \in DOMAIN s /\ b[i] = s[i + n]
        <3>1. i \in 1..(m - n) /\ i + n = n + i /\ i + n \in 1..m
            BY <1>1, <1>3
        <3> QED BY <1>1, <1>2, <3>1
    <2> QED BY <2>1, <2>2 DEF Segment
<1>6. ASSUME Increasing(s), NEW i \in DOMAIN a, NEW j \in DOMAIN b PROVE a[i] < b[j]
    <2>1. i \in 1..m /\ n + j \in 1..m /\ i < n + j
        BY <1>1, <1>3
    <2>2. s[i] < s[n + j]
        BY <1>1, <1>6, <2>1 DEF Increasing
    <2> QED BY <1>2, <1>3, <2>2
<1> QED BY <1>2, <1>4, <1>5, <1>6 DEF a, b, Before

\* Of an increasing queue that hands n elements on, of which the first k arrive, just those
\* between are missing.
LEMMA HandOverAll ==
    ASSUME NEW s \in Seq(Nat), NEW n \in 0..Len(s), NEW k \in 0..n, Increasing(s)
    PROVE  Range(Taken(s, k)) \cup Range(Left(s, n)) = Range(s) \ {s[i] : i \in (k + 1)..n}
<1> DEFINE m == Len(s)
           a == Taken(s, k)
           b == Left(s, n)
           d == {s[i] : i \in (k + 1)..n}
<1>1. /\ m \in Nat /\ n \in 0..m /\ k \in 0..m /\ k <= n /\ DOMAIN s = 1..m
      /\ \A i \in 1..m : s[i] \in Nat
    OBVIOUS
<1>2. /\ a \in Seq(Nat) /\ Len(a) = k /\ \A i \in 1..k : a[i] = s[i]
      /\ b \in Seq(Nat) /\ Len(b) = m - n /\ \A i \in 1..(m - n) : b[i] = s[n + i]
    BY <1>1, TakenLeft, ZenonT(60)
<1>3. DOMAIN a = 1..k /\ DOMAIN b = 1..(m - n)
    BY <1>2
<1> HIDE DEF a, b, m
<1>4. ASSUME NEW i \in 1..m, i \notin (k + 1)..n PROVE s[i] \in Range(s) \ d
    <2>1. ASSUME NEW j \in (k + 1)..n PROVE s[i] # s[j]
        <3>1. j \in 1..m /\ (i < j \/ j < i)
            BY <1>1, <1>4
        <3>2. s[i] < s[j] \/ s[j] < s[i]
            BY <1>1, <3>1 DEF Increasing
        <3> QED BY <1>1, <3>1, <3>2
    <2> QED BY <1>1, <2>1 DEF Range
<1>5. Range(a) \cup Range(b) \subseteq Range(s) \ d
    <2>1. ASSUME NEW i \in 1..k PROVE a[i] \in Range(s) \ d
        <3>1. i \in 1..m /\ i \notin (k + 1)..n
            BY <1>1
        <3> HIDE DEF d
        <3> QED BY <1>2, <1>4, <3>1
    <2>2. ASSUME NEW i \in 1..(m - n) PROVE b[i] \in Range(s) \ d
        <3>1. n + i \in 1..m /\ n + i \notin (k + 1)..n
            BY <1>1
        <3> HIDE DEF d
        <3> QED BY <1>2, <1>4, <3>1
    <2> HIDE DEF d
    <2>3. \A x \in Range(a) : x \in Range(s) \ d
        BY <1>3, <2>1 DEF Range
    <2>4. \A x \in Range(b) : x \in Range(s) \ d
        BY <1>3, <2>2 DEF Range
    <2> QED BY <2>3, <2>4
<1>6. Range(s) \ d \subseteq Range(a) \cup Range(b)
    <2>1. SUFFICES ASSUME NEW i \in 1..m, s[i] \notin d PROVE s[i] \in Range(a) \cup Range(b)
        BY <1>1 DEF Range
    <2>2. i \notin (k + 1)..n
        BY <2>1
    <2>3. CASE i <= k
        <3>1. i \in 1..k
            BY <1>1, <2>3
        <3> QED BY <1>2, <1>3, <3>1 DEF Range
    <2>4. CASE i > n
        <3>1. i - n \in 1..(m - n) /\ n + (i - n) = i
            BY <1>1, <2>4
        <3>2. b[i - n] = s[i]
            BY <1>2, <3>1
        <3> QED BY <1>3, <3>1, <3>2 DEF Range
    <2> QED BY <1>1, <2>2, <2>3, <2>4
<1> HIDE DEF d
<1>7. Range(a) \cup Range(b) = Range(s) \ d
    BY <1>5, <1>6
<1> QED BY <1>7 DEF a, b, d

\* The elements of a concatenation are those of its two parts.
LEMMA RangeOfBoth ==
    ASSUME NEW a \in Seq(Nat), NEW b \in Seq(Nat)
    PROVE  Range(a \o b) = Range(a) \cup Range(b)
<1> DEFINE x == Len(a)
           y == Len(b)
           v == a \o b
<1>1. /\ x \in Nat /\ y \in Nat /\ DOMAIN a = 1..x /\ DOMAIN b = 1..y
      /\ v \in Seq(Nat) /\ Len(v) = x + y
      /\ \A k \in 1..(x + y) : v[k] = IF k <= x THEN a[k] ELSE b[k - x]
    BY ConcatProperties
<1>2. DOMAIN v = 1..(x + y)
    BY <1>1
<1> HIDE DEF x, y, v
<1>3. ASSUME NEW i \in 1..(x + y) PROVE v[i] \in Range(a) \cup Range(b)
    <2>1. CASE i <= x
        <3>1. i \in 1..x /\ v[i] = a[i]
            BY <1>1, <2>1
        <3> QED BY <1>1, <3>1 DEF Range
    <2>2. CASE ~(i <= x)
        <3>1. i - x \in 1..y
            BY <1>1, <2>2
        <3>2. v[i] = b[i - x]
            BY <1>1, <2>2
        <3> QED BY <1>1, <3>1, <3>2 DEF Range
    <2> QED BY <2>1, <2>2
<1>4. ASSUME NEW i \in 1..x PROVE a[i] \in Range(v)
    <2>1. i \in 1..(x + y) /\ v[i] = a[i]
        BY <1>1
    <2> QED BY <1>2, <2>1 DEF Range
<1>5. ASSUME NEW i \in 1..y PROVE b[i] \in Range(v)
    <2>1. i + x \in 1..(x + y) /\ ~(i + x <= x) /\ (i + x) - x = i
        BY <1>1
    <2>2. v[i + x] = b[i]
        BY <1>1, <2>1
    <2> QED BY <1>2, <2>1, <2>2 DEF Range
<1>6. \A z \in Range(v) : z \in Range(a) \cup Range(b)
    BY <1>2, <1>3 DEF Range
<1>7. (\A z \in Range(a) : z \in Range(v)) /\ (\A z \in Range(b) : z \in Range(v))
    BY <1>1, <1>4, <1>5 DEF Range
<1>8. Range(v) = Range(a) \cup Range(b)
    BY <1>6, <1>7
<1> QED BY <1>8 DEF v

\* The output's buffers hold numbers.
LEMMA OutputTypes ==
    ASSUME PtyTypeOK
    PROVE  toParent \in Seq(Nat) /\ out \in Seq(Nat) /\ written \in Nat
<1>1. toParent \in Seq(1..MaxWritten) /\ out \in Seq(1..MaxWritten) /\ written \in 0..MaxWritten
    BY DEF PtyTypeOK
<1>2. 1..MaxWritten \subseteq Nat /\ 0..MaxWritten \subseteq Nat
    BY BoundsAssumption
<1>3. written \in Nat
    BY <1>1, <1>2
<1> QED BY <1>1, <1>2, <1>3, SeqOfMore

\* Every step keeps the child's output in order on its way through the master to standard
\* output, and counts what is refused there.
LEMMA OutputStep ==
    ASSUME PtyTypeOK, OutputInv, PtyNext
    PROVE  OutputInv'
<1>1. toParent \in Seq(Nat) /\ out \in Seq(Nat) /\ written \in Nat
    BY OutputTypes
<1>2. CASE UNCHANGED <<out, refused, toParent, written>>
    BY <1>2 DEF OutputInv, Increasing, Before, UpTo, Range
<1>3. CASE Copy /\ written' = written
    <2>1. PICK n \in 0..Len(toParent) : \E k \in 0..n :
            /\ out' = out \o Taken(toParent, k)
            /\ refused' = refused \cup {toParent[i] : i \in (k + 1)..n}
            /\ toParent' = Left(toParent, n)
        BY <1>1, <1>3, CopyTakes
    <2>2. PICK k \in 0..n :
            /\ out' = out \o Taken(toParent, k)
            /\ refused' = refused \cup {toParent[i] : i \in (k + 1)..n}
            /\ toParent' = Left(toParent, n)
        BY <2>1
    <2> DEFINE a == Taken(toParent, k)
               b == Left(toParent, n)
               d == {toParent[i] : i \in (k + 1)..n}
    <2>3. /\ a \in Seq(Nat) /\ b \in Seq(Nat) /\ Segment(a, toParent) /\ Segment(b, toParent)
          /\ Before(a, b)
        BY <1>1, HandOver DEF OutputInv
    <2>4. Range(a) \cup Range(b) = Range(toParent) \ d
        BY <1>1, HandOverAll DEF OutputInv
    <2>5. d \subseteq Range(toParent)
        BY <1>1 DEF Range
    <2>6. Range(out) \cap Range(toParent) = {}
        <3>1. \A i \in DOMAIN out, j \in DOMAIN toParent : out[i] # toParent[j]
            BY <1>1 DEF OutputInv, Before
        <3> QED BY <3>1 DEF Range
    <2> HIDE DEF a, b, d
    <2>7. /\ Increasing(a) /\ Increasing(b) /\ Before(out, a) /\ Before(out, b)
          /\ UpTo(a, written) /\ UpTo(b, written)
        BY <1>1, <2>3, SegmentKeeps DEF OutputInv
    <2>8. /\ Increasing(out \o a) /\ Before(out \o a, b) /\ UpTo(out \o a, written)
          /\ Range(out \o a) = Range(out) \cup Range(a)
        BY <1>1, <2>3, <2>7, ConcatKeeps, RangeOfBoth DEF OutputInv
    <2>9. Range(out) \cup Range(a) \cup Range(b) = (1..written) \ (refused \cup d)
        BY <2>4, <2>5, <2>6 DEF OutputInv
    <2>10. refused \cup d \subseteq 1..written
        BY <2>5 DEF OutputInv
    <2> DEFINE v == out'
               u == toParent'
               q == refused'
    <2>11. v = out \o a /\ u = b /\ q = refused \cup d
        BY <2>2 DEF a, b, d
    <2> HIDE DEF v, u, q
    <2>12. /\ Increasing(v) /\ Increasing(u) /\ Before(v, u) /\ UpTo(v, written) /\ UpTo(u, written)
           /\ Range(v) \cup Range(u) = (1..written) \ q /\ q \subseteq 1..written
        BY <2>7, <2>8, <2>9, <2>10, <2>11
    <2> QED BY <1>3, <2>12 DEF v, u, q, OutputInv, Increasing, Before, UpTo, Range
<1>4. CASE WriteSlave
    <2> DEFINE w == written + 1
               a == <<w>>
               b == toParent \o a
    <2>1. toParent' = Append(toParent, w) /\ written' = w /\ out' = out /\ refused' = refused
        BY <1>4 DEF WriteSlave, display
    <2>2. w \in Nat /\ w > written
        BY <1>1
    <2>3. /\ (1..w) \ refused = ((1..written) \ refused) \cup {w}
          /\ refused \subseteq 1..w
        <3>1. 1..w = (1..written) \cup {w} /\ w \notin 1..written
            BY <1>1
        <3> QED BY <3>1 DEF OutputInv
    <2> HIDE DEF w
    <2>4. Append(toParent, w) = b
        BY <1>1, <2>2
    <2>5. a \in Seq(Nat) /\ DOMAIN a = {1} /\ a[1] = w
        BY <2>2
    <2> HIDE DEF a
    <2>6. \A s \in Seq(Nat) : UpTo(s, written) => Before(s, a) /\ UpTo(s, w)
        <3>1. ASSUME NEW s \in Seq(Nat), UpTo(s, written), NEW i \in DOMAIN s
              PROVE  s[i] < w /\ s[i] <= w
            <4>1. s[i] \in Nat /\ s[i] <= written
                BY <3>1 DEF UpTo
            <4> QED BY <1>1, <2>2, <4>1
        <3> QED BY <2>5, <3>1 DEF Before, UpTo
    <2>7. Increasing(a) /\ UpTo(a, w) /\ Range(a) = {w}
        BY <2>2, <2>5 DEF Increasing, UpTo, Range
    <2>8. Before(out, a) /\ Before(toParent, a) /\ UpTo(out, w) /\ UpTo(toParent, w)
        BY <1>1, <2>6 DEF OutputInv
    <2>9. /\ Increasing(b) /\ Before(out, b) /\ UpTo(b, w)
          /\ Range(b) = Range(toParent) \cup {w}
        <3>1. Increasing(toParent) /\ Before(out, toParent)
            BY DEF OutputInv
        <3>2. Increasing(b) /\ Before(out, b) /\ UpTo(b, w)
            BY <1>1, <2>5, <2>7, <2>8, <3>1, ConcatKeeps
        <3>3. Range(b) = Range(toParent) \cup Range(a)
            BY <1>1, <2>5, RangeOfBoth
        <3> QED BY <2>7, <3>2, <3>3
    <2> HIDE DEF b
    <2>10. Range(out) \cup Range(b) = (1..w) \ refused /\ refused \subseteq 1..w
        <3>1. Range(out) \cup Range(toParent) = (1..written) \ refused
            BY DEF OutputInv
        <3> QED BY <2>3, <2>9, <3>1
    <2> DEFINE u == toParent'
    <2>11. u = b
        BY <2>1, <2>4
    <2> HIDE DEF u
    <2>12. /\ Increasing(out) /\ Increasing(u) /\ Before(out, u) /\ UpTo(out, w) /\ UpTo(u, w)
           /\ Range(out) \cup Range(u) = (1..w) \ refused /\ refused \subseteq 1..w
        BY <2>8, <2>9, <2>10, <2>11 DEF OutputInv
    <2> QED BY <2>1, <2>12 DEF u, OutputInv, Increasing, Before, UpTo, Range
<1>5. UNCHANGED <<out, refused, toParent, written>> \/ (Copy /\ written' = written) \/ WriteSlave
    BY DEF PtyNext, Parent, Waitpid, Select, ReadStdin, ReadMaster, Type, CloseConsole, OpenSlave,
           ReadSlave, CloseSlave, ChildExits, pty, display
<1> QED BY <1>2, <1>3, <1>4, <1>5

\* The input's buffers hold numbers.
LEMMA InputTypes ==
    ASSUME PtyTypeOK
    PROVE  got \in Seq(Nat) /\ toChild \in Seq(Nat) /\ console \in Seq(Nat) /\ typed \in Nat
<1>1. /\ got \in Seq(1..MaxTyped) /\ toChild \in Seq(1..MaxTyped) /\ console \in Seq(1..MaxTyped)
      /\ typed \in 0..MaxTyped
    BY DEF PtyTypeOK
<1>2. 1..MaxTyped \subseteq Nat /\ 0..MaxTyped \subseteq Nat
    BY BoundsAssumption
<1>3. typed \in Nat
    BY <1>1, <1>2
<1> QED BY <1>1, <1>2, <1>3, SeqOfMore

\* Every step keeps what is typed in order on its way through the runner to the child.
LEMMA InputStep ==
    ASSUME PtyTypeOK, InputInv, PtyNext
    PROVE  InputInv'
<1>1. got \in Seq(Nat) /\ toChild \in Seq(Nat) /\ console \in Seq(Nat) /\ typed \in Nat
    BY InputTypes
<1>2. CASE UNCHANGED <<got, toChild, console, typed>>
    BY <1>2 DEF InputInv, Increasing, Before, UpTo
<1>3. CASE ReadStdin /\ ~UNCHANGED <<console, toChild>>
    <2>1. got' = got /\ typed' = typed
        BY <1>3 DEF ReadStdin
    <2>2. PICK n \in 0..Len(console) : \E k \in 0..n :
            toChild' = toChild \o Taken(console, k) /\ console' = Left(console, n)
        BY <1>3, StdinTakes
    <2>3. PICK k \in 0..n : toChild' = toChild \o Taken(console, k) /\ console' = Left(console, n)
        BY <2>2
    <2> DEFINE a == Taken(console, k)
               b == Left(console, n)
    <2>4. /\ a \in Seq(Nat) /\ b \in Seq(Nat) /\ Segment(a, console) /\ Segment(b, console)
          /\ Increasing(console) => Before(a, b)
        BY <1>1, HandOver
    <2> HIDE DEF a, b
    <2>5. /\ Increasing(a) /\ Increasing(b) /\ Before(a, b)
          /\ Before(toChild, a) /\ Before(toChild, b) /\ Before(got, a) /\ Before(got, b)
          /\ UpTo(a, typed) /\ UpTo(b, typed)
        BY <1>1, <2>4, SegmentKeeps DEF InputInv
    <2>6. /\ Increasing(toChild \o a) /\ Before(got, toChild \o a) /\ Before(toChild \o a, b)
          /\ UpTo(toChild \o a, typed)
        BY <1>1, <2>4, <2>5, ConcatKeeps DEF InputInv
    <2>7. toChild' = toChild \o a /\ console' = b
        BY <2>3 DEF a, b
    <2> DEFINE v == toChild'
               d == console'
    <2>8. /\ Increasing(v) /\ Before(got, v) /\ Before(v, d) /\ UpTo(v, typed)
          /\ Increasing(d) /\ Before(got, d) /\ UpTo(d, typed)
        BY <2>5, <2>6, <2>7
    <2>9. /\ Increasing(toChild)' /\ Increasing(console)' /\ Before(toChild, console)'
          /\ UpTo(toChild, typed)' /\ UpTo(console, typed)'
        BY <2>1, <2>8, Zenon DEF Increasing, Before, UpTo
    <2>10. /\ Increasing(got)' /\ UpTo(got, typed)'
           /\ Before(got, toChild)' /\ Before(got, console)'
        BY <2>1, <2>8, Zenon DEF InputInv, Increasing, Before, UpTo
    <2> QED BY ONLY <2>9, <2>10, Zenon DEF InputInv
<1>4. CASE Type
    <2> DEFINE w == typed + 1
               a == <<w>>
               b == console \o a
    <2>1. /\ UNCHANGED <<got, toChild>> /\ typed' = w
          /\ console' = Append(console, w)
        BY <1>4, Zenon DEF Type, pty
    <2>2. w \in Nat /\ w > typed
        BY <1>1
    <2> HIDE DEF w
    <2>3. Append(console, w) = b
        BY ONLY <1>1, <2>2
    <2>4. a \in Seq(Nat) /\ DOMAIN a = {1} /\ a[1] = w
        BY <2>2
    <2> HIDE DEF a
    <2>5. \A s \in Seq(Nat) : UpTo(s, typed) => Before(s, a) /\ UpTo(s, w)
        <3>1. ASSUME NEW s \in Seq(Nat), UpTo(s, typed), NEW i \in DOMAIN s
              PROVE  s[i] < w /\ s[i] <= w
            <4>1. s[i] \in Nat /\ s[i] <= typed
                BY <3>1 DEF UpTo
            <4> QED BY <1>1, <2>2, <4>1
        <3> QED BY <2>4, <3>1 DEF Before, UpTo
    <2>6. Increasing(a) /\ UpTo(a, w)
        BY <2>2, <2>4 DEF Increasing, UpTo
    <2>7. /\ Before(got, a) /\ Before(toChild, a) /\ Before(console, a)
          /\ UpTo(got, w) /\ UpTo(toChild, w) /\ UpTo(console, w)
        BY <1>1, <2>5 DEF InputInv
    <2>8. /\ Increasing(b) /\ Before(got, b) /\ Before(toChild, b) /\ UpTo(b, w)
        BY <1>1, <2>4, <2>6, <2>7, ConcatKeeps DEF InputInv
    <2> HIDE DEF b
    <2> DEFINE d == console'
    <2>9. d = b
        BY <2>1, <2>3
    <2> HIDE DEF d
    <2>10. /\ Increasing(d) /\ Before(got, d) /\ Before(toChild, d) /\ UpTo(d, w)
           /\ UpTo(got, w) /\ UpTo(toChild, w)
        BY <2>7, <2>8, <2>9
    <2> QED BY <2>1, <2>10 DEF d, InputInv, Increasing, Before, UpTo
<1>5. CASE ReadSlave
    <2> DEFINE a == Taken(toChild, 1)
               b == Left(toChild, 1)
    <2>1. /\ toChild # <<>> /\ got' = Append(got, Head(toChild)) /\ toChild' = Tail(toChild)
          /\ UNCHANGED <<console, typed>>
        BY <1>5 DEF ReadSlave, input
    <2>2. 1 \in 0..Len(toChild) /\ 1 \in 0..1
        BY <1>1, <2>1
    <2>3. /\ a \in Seq(Nat) /\ b \in Seq(Nat) /\ Segment(a, toChild) /\ Segment(b, toChild)
          /\ Increasing(toChild) => Before(a, b)
        BY <1>1, <2>2, HandOver
    <2>4. toChild' = b
        BY <1>1, <2>1, TailIsSubSeq DEF Left
    <2>5. Head(toChild) = toChild[1] /\ Head(toChild) \in Nat
        BY <1>1, <2>1
    <2>6. a = <<Head(toChild)>>
        <3>2. Len(a) = 1 /\ \A i \in 1..1 : a[i] = toChild[i]
            BY <1>1, <2>2, TakenLeft, ZenonT(60)
        <3>1. Len(a) = 1 /\ a[1] = toChild[1]
            BY <3>2
        <3> HIDE DEF a
        <3> QED BY <2>3, <2>5, <3>1
    <2>7. got' = got \o a
        BY <1>1, <2>1, <2>5, <2>6, AppendIsConcat
    <2> HIDE DEF a, b
    <2>8. /\ Increasing(a) /\ Increasing(b) /\ Before(a, b) /\ Before(got, a) /\ Before(got, b)
          /\ Before(a, console) /\ Before(b, console) /\ UpTo(a, typed) /\ UpTo(b, typed)
        BY <1>1, <2>3, SegmentKeeps DEF InputInv
    <2>9. /\ Increasing(got \o a) /\ Before(got \o a, b) /\ Before(got \o a, console)
          /\ UpTo(got \o a, typed)
        BY <1>1, <2>3, <2>8, ConcatKeeps DEF InputInv
    <2> DEFINE v == got'
               d == toChild'
    <2>10. /\ Increasing(v) /\ Before(v, d) /\ Before(v, console) /\ UpTo(v, typed)
           /\ Increasing(d) /\ Before(d, console) /\ UpTo(d, typed)
        BY <2>4, <2>7, <2>8, <2>9
    <2> QED BY <2>1, <2>10 DEF InputInv, Increasing, Before, UpTo
<1>6. UNCHANGED <<got, toChild, console, typed>> \/ ReadStdin \/ Type \/ ReadSlave
    BY DEF PtyNext, Parent, Waitpid, Select, ReadMaster, CloseConsole, OpenSlave, WriteSlave,
           CloseSlave, ChildExits, pty, input
<1>7. ReadStdin => UNCHANGED <<got, typed>>
    BY DEF ReadStdin
<1> QED BY <1>2, <1>3, <1>4, <1>5, <1>6, <1>7

\* At start nothing is on its way in either direction.
LEMMA BytesInit == PtyInit => OutputInv /\ InputInv
<1>1. SUFFICES ASSUME PtyInit PROVE OutputInv /\ InputInv
    OBVIOUS
<1>2. /\ out = <<>> /\ toParent = <<>> /\ written = 0 /\ refused = {}
      /\ got = <<>> /\ toChild = <<>> /\ console = <<>> /\ typed = 0
    BY <1>1 DEF PtyInit
<1>3. OutputInv
    <2>1. Range(out) = {} /\ Range(toParent) = {} /\ 1..written = {}
        BY <1>2 DEF Range
    <2> QED BY <1>2, <2>1 DEF OutputInv, Increasing, Before, UpTo
<1>4. InputInv
    BY <1>2 DEF InputInv, Increasing, Before, UpTo
<1> QED BY <1>3, <1>4

\* What the program writes is shown once and in order, with no gap but where standard output
\* took less, and what it reads was typed in that order and is read once, however the reads and
\* writes are cut (lines 122-150).
THEOREM BytesSafety == PtySpec => []BytesAreFaithful
<1> DEFINE Inv == PtyTypeOK /\ OutputInv /\ InputInv
<1>1. PtyInit => Inv
    BY PtyInitType, BytesInit
<1>2. Inv /\ [PtyNext]_ptyVars => Inv'
    <2>1. Inv /\ PtyNext => OutputInv' /\ InputInv'
        BY OutputStep, InputStep
    <2>2. Inv /\ UNCHANGED ptyVars => OutputInv' /\ InputInv'
        BY DEF ptyVars, OutputInv, InputInv, Increasing, Before, UpTo, Range
    <2> QED BY <2>1, <2>2, PtyStepType
<1>3. Inv => BytesAreFaithful
    <2>1. SUFFICES ASSUME PtyTypeOK, OutputInv, InputInv PROVE BytesAreFaithful
        OBVIOUS
    <2>2. Increasing(got \o toChild)
        BY <2>1, InputTypes, ConcatKeeps DEF InputInv
    <2>3. Increasing(out \o toParent) /\ Range(out \o toParent) = Range(out) \cup Range(toParent)
        BY <2>1, OutputTypes, ConcatKeeps, RangeOfBoth DEF OutputInv
    <2> QED BY <2>1, <2>2, <2>3 DEF BytesAreFaithful, OutputInv, Increasing
<1> HIDE DEF Inv
<1> QED BY <1>1, <1>2, <1>3, PTL DEF PtySpec
=============================================================================
