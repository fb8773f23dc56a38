----------------------------- MODULE WifiProbe -----------------------------
(***************************************************************************)
(* The Wi-Fi probe joins a network and leases an address                   *)
(* (tools/wifi-probe/wifi-probe.c, mode "jointxcnt").                      *)
(*                                                                         *)
(* One thread polls one FIFO, in which the firmware queues answers to      *)
(* commands, events and frames from the air.  Each of its three loops      *)
(* takes frames of one kind and drops the others, gives up after a number  *)
(* of polls, and starts with whatever an earlier loop left behind.         *)
(***************************************************************************)
EXTENDS Naturals, Sequences

CONSTANTS
    Servers,        \* DHCP servers; each has one address to give, named like itself
    Others,         \* servers of other clients, named like an address that is given to those
    NoAddr,         \* 0.0.0.0
    Setup,          \* commands before the first SET_SSID
    Attempts,       \* joins
    Discovers, Requests,    \* rounds of each
    Polls,          \* polls of a loop before it gives up
    Depth           \* bound: frames in the FIFO

ASSUME CountsAssumption ==
    /\ Setup \in Nat \ {0} /\ Attempts \in Nat \ {0} /\ Discovers \in Nat \ {0}
    /\ Requests \in Nat \ {0} /\ Polls \in Nat \ {0} /\ Depth \in Nat
ASSUME NoAddrAssumption == NoAddr \notin Servers \cup Others

VARIABLES
    pc,             \* "setup", "ssid", "mac": commands; "events"; "send", "poll": DHCP; "done"
    waiting,        \* in diag_bcdcCmd, after the write
    polls,          \* iterations that the present loop has left
    reqid,          \* of the next command
    attempt,        \* attempts begun
    gotSet, gotPsk,         \* got_setssid, got_psksup
    setStatus, pskStatus,   \* g_join_setssid_status, g_join_psksup_status
    mac,            \* what g_txmac was filled from: an answer's payload, or "nothing"
    round,
    want,           \* g_rx_want
    seen,           \* g_rx_offer_seen
    rx,             \* the last DHCP reply: g_rx_offer_msgtype, g_rx_offer_yiaddr, g_dhcp_serverid
    reqip,          \* g_dhcp_reqip
    bound,          \* g_dhcp_bound
    \* The firmware, the air and the servers.
    fifo,           \* frames that the firmware has queued for the host
    cmds,           \* commands that the firmware has not answered yet
    fw,             \* what the firmware does about the network
    keyed,          \* history: a handshake was completed
    air,            \* what the probe has sent and a server may receive, once or often
    net,            \* what servers have sent it and it may receive, once or often
    offers, leases  \* the servers that have offered or leased their address

joinVars == <<attempt, gotSet, gotPsk, setStatus, pskStatus>>
dhcpVars == <<round, want, seen, rx, reqip, bound>>
serverVars == <<air, net, offers, leases>>
fwVars == <<cmds, fw, keyed>>
vars == <<pc, waiting, polls, reqid, joinVars, mac, dhcpVars, fifo, fwVars, serverVars>>

None == 100         \* the status before an event: -100 in the code
NoNetworks == 3     \* a status of WLC_E_SET_SSID
Unsolicited == 6    \* WLC_E_PSK_SUP: the handshake is complete
PskFailed == 4      \* any other status of it

Addr == Servers \cup Others \cup {NoAddr}
Commands == {"setup", "ssid", "mac"}
DhcpTypes == {"OFFER", "ACK", "NAK"}
\* "ours": sent to the probe, for this exchange.  No line of the code asks.
DhcpReply == [type : DhcpTypes, ip : Addr, server : Servers \cup Others, ours : BOOLEAN]

\* What anybody may hear at any time: replies to other clients, and to other exchanges.
Foreign == {r \in DhcpReply : ~r.ours /\ r.ip \in IF r.type = "NAK" THEN {NoAddr} ELSE Others}

Refusal == [setup |-> "no setup", ssid |-> "no ssid", mac |-> "no mac"]
Payloads == Commands \cup {Refusal[c] : c \in Commands}

Frame == [chan : {"control"}, id : Nat, answers : Commands, ok : BOOLEAN]
         \cup [chan : {"event"}, type : {"SET_SSID"}, status : {0, NoNetworks}]
         \cup [chan : {"event"}, type : {"PSK_SUP"}, status : {Unsolicited, PskFailed}]
         \cup [chan : {"data"}, reply : DhcpReply]

MaxCommands == Setup + Attempts + 1

TypeOK ==
    /\ pc \in Commands \cup {"events", "send", "poll", "done"}
    /\ waiting \in BOOLEAN /\ (waiting => pc \in Commands)
    /\ polls \in 0..Polls
    /\ reqid \in 1..MaxCommands + 1
    /\ attempt \in 0..Attempts
    /\ gotSet \in BOOLEAN /\ gotPsk \in BOOLEAN
    /\ setStatus \in {None, 0, NoNetworks} /\ pskStatus \in {None, Unsolicited, PskFailed}
    /\ mac \in Payloads \cup {"unread", "nothing"}
    /\ round \in 0..(IF want = "OFFER" THEN Discovers ELSE Requests)
    /\ want \in {"OFFER", "ACK"} /\ seen \in BOOLEAN
    /\ rx \in [type : DhcpTypes \cup {"none"}, ip : Addr, server : Addr, ours : BOOLEAN]
    /\ reqip \in Addr /\ bound \in Addr
    /\ fifo \in Seq(Frame) /\ Len(fifo) <= Depth
    /\ cmds \in Seq([id : 1..MaxCommands, what : Commands])
    /\ fw \in {"idle", "scanning", "associated", "up"}
    /\ keyed \in BOOLEAN
    /\ air \subseteq {[type |-> "DISCOVER"]} \cup [type : {"REQUEST"}, ip : Addr, server : Addr]
    /\ net \subseteq {r \in DhcpReply : r.ours}
    /\ offers \subseteq Servers /\ leases \subseteq Servers

Init ==
    /\ pc = "setup" /\ waiting = FALSE /\ polls = 0 /\ reqid = 1
    /\ attempt = 0 /\ gotSet = FALSE /\ gotPsk = FALSE /\ setStatus = None /\ pskStatus = None
    /\ mac = "unread"
    /\ round = 0 /\ want = "OFFER" /\ seen = FALSE
    /\ rx = [type |-> "none", ip |-> NoAddr, server |-> NoAddr, ours |-> FALSE]
    /\ reqip = NoAddr /\ bound = NoAddr
    /\ fifo = <<>> /\ cmds = <<>> /\ fw = "idle" /\ keyed = FALSE
    /\ air = {} /\ net = {} /\ offers = {} /\ leases = {}

-----------------------------------------------------------------------------
(* One poll of the FIFO: nothing is there, an error may cost a frame, or the  *)
(* frame at the head of it is received.                                       *)

diag_f2RecvFrame(received) ==
    /\ polls > 0
    /\ IF received THEN fifo # <<>> /\ fifo' = Tail(fifo)
       ELSE IF fifo = <<>> THEN UNCHANGED fifo
       ELSE fifo' \in {fifo, Tail(fifo)}

NoFrame == diag_f2RecvFrame(FALSE) /\ polls' = polls - 1

-----------------------------------------------------------------------------
(* Commands *)

\* Where a command leads, and what it leaves behind when the payload of the frame that was
\* taken for its answer is "a".  A command that fails is not repeated, and its buffer stays
\* empty; one that was refused fills it, and the status goes unread (lines 1386-1397, 2323).
CommandEnds(a) ==
    /\ waiting' = FALSE
    /\ pc' = CASE pc = "setup" -> IF reqid' <= Setup THEN "setup" ELSE "ssid"
               [] pc = "ssid" -> "events"
               [] pc = "mac" -> "send"
    /\ polls' = IF pc = "ssid" THEN Polls ELSE 0
    /\ mac' = IF pc = "mac" THEN a ELSE mac

\* The firmware restarts a join it is still busy with.
SendCommand ==
    /\ pc \in Commands /\ ~waiting
    /\ reqid' = reqid + 1
    /\ IF pc = "ssid"
       THEN /\ attempt' = attempt + 1
            /\ gotSet' = FALSE /\ gotPsk' = FALSE /\ setStatus' = None /\ pskStatus' = None
       ELSE UNCHANGED joinVars
    /\ \/ /\ cmds' = Append(cmds, [id |-> reqid, what |-> pc])
          /\ fw' = IF pc = "ssid" THEN "scanning" ELSE fw
          /\ waiting' = TRUE /\ polls' = Polls
          /\ UNCHANGED <<pc, mac>>
       \/ CommandEnds("nothing") /\ UNCHANGED <<cmds, fw>>
    /\ UNCHANGED <<dhcpVars, fifo, keyed, serverVars>>

\* Slip: any answer is taken, the late one of an earlier command too.
Answers_Any(f) == f.chan = "control"

Answers(f) == f.chan = "control" /\ f.id = reqid - 1

Payload(f) == IF f.ok THEN f.answers ELSE Refusal[f.answers]

\* Events that come in meanwhile are counted and dropped.
TakeAnswer(f) ==
    IF Answers(f) THEN CommandEnds(Payload(f))
    ELSE polls' = polls - 1 /\ UNCHANGED <<pc, waiting, mac>>

PollAnswer ==
    /\ waiting
    /\ UNCHANGED <<reqid, joinVars, dhcpVars, fwVars, serverVars>>
    /\ \/ NoFrame /\ UNCHANGED <<pc, waiting, mac>>
       \/ diag_f2RecvFrame(TRUE) /\ TakeAnswer(Head(fifo))
       \/ polls = 0 /\ CommandEnds("nothing") /\ UNCHANGED fifo

-----------------------------------------------------------------------------
(* The join *)

\* Slip: the supplicant has said something.
Connected_AnyPsk == setStatus = 0 /\ gotPsk

Connected == setStatus = 0 /\ pskStatus = Unsolicited

LoopIsOver == polls = 0 \/ (gotSet /\ gotPsk) \/ setStatus = NoNetworks

HearEvent(f) ==
    /\ polls' = polls - 1
    /\ IF f.chan = "event" /\ f.type = "SET_SSID"
       THEN gotSet' = TRUE /\ setStatus' = f.status ELSE UNCHANGED <<gotSet, setStatus>>
    /\ IF f.chan = "event" /\ f.type = "PSK_SUP"
       THEN gotPsk' = TRUE /\ pskStatus' = f.status ELSE UNCHANGED <<gotPsk, pskStatus>>

WatchEvents ==
    /\ pc = "events" /\ ~LoopIsOver
    /\ \/ NoFrame /\ UNCHANGED <<gotSet, gotPsk, setStatus, pskStatus>>
       \/ diag_f2RecvFrame(TRUE) /\ HearEvent(Head(fifo))
    /\ UNCHANGED <<pc, waiting, reqid, attempt, mac, dhcpVars, fwVars, serverVars>>

\* Slip: one attempt too many.
AttemptEnds_OneMore ==
    /\ pc = "events" /\ LoopIsOver
    /\ pc' = IF ~Connected /\ attempt <= Attempts THEN "ssid" ELSE "mac"
    /\ polls' = 0
    /\ UNCHANGED <<waiting, reqid, joinVars, mac, dhcpVars, fifo, fwVars, serverVars>>

\* The DHCP exchange follows whether the join succeeded or not.
AttemptEnds ==
    /\ pc = "events" /\ LoopIsOver
    /\ pc' = IF ~Connected /\ attempt < Attempts THEN "ssid" ELSE "mac"
    /\ polls' = 0
    /\ UNCHANGED <<waiting, reqid, joinVars, mac, dhcpVars, fifo, fwVars, serverVars>>

-----------------------------------------------------------------------------
(* DHCP *)

\* Slip: the REQUEST asks for the address of whatever reply came last.
Request_Live == [type |-> "REQUEST", ip |-> rx.ip, server |-> rx.server]

\* The address is a snapshot, the server is that of the last reply of any kind.
Request == [type |-> "REQUEST", ip |-> reqip, server |-> rx.server]

\* A burst of four equal frames, of which one at least gets out, or none does.
diag_wifiDataTx ==
    /\ pc = "send"
    /\ \/ fw = "up" /\ air' = air \cup {IF want = "OFFER" THEN [type |-> "DISCOVER"] ELSE Request}
       \/ UNCHANGED air
    /\ pc' = "poll" /\ polls' = Polls /\ seen' = FALSE
    /\ UNCHANGED <<waiting, reqid, joinVars, mac, round, want, rx, reqip, bound, fifo, fwVars,
                   net, offers, leases>>

\* Neither xid nor chaddr is looked at, nor is the address an ACK gives compared with reqip.
TakeReply(f) ==
    /\ polls' = polls - 1
    /\ IF f.chan = "data" THEN rx' = f.reply /\ seen' = (f.reply.type = want)
       ELSE UNCHANGED <<rx, seen>>

diag_wifiRxDhcp ==
    /\ pc = "poll" /\ ~seen
    /\ \/ NoFrame /\ UNCHANGED <<rx, seen>>
       \/ diag_f2RecvFrame(TRUE) /\ TakeReply(Head(fifo))
    /\ UNCHANGED <<pc, waiting, reqid, joinVars, mac, round, want, reqip, bound, fwVars, serverVars>>

\* Slip: rounds are not counted.
NextRound_Forever == pc' = "send" /\ UNCHANGED round

NextRound ==
    /\ round' = round + 1
    /\ pc' = IF round + 1 < (IF want = "OFFER" THEN Discovers ELSE Requests) THEN "send" ELSE "done"

RoundEnds ==
    /\ pc = "poll" /\ (seen \/ polls = 0)
    /\ CASE seen /\ want = "OFFER" ->
                /\ reqip' = rx.ip /\ want' = "ACK" /\ round' = 0 /\ pc' = "send"
                /\ UNCHANGED bound
         [] seen /\ want = "ACK" -> bound' = rx.ip /\ pc' = "done" /\ UNCHANGED <<reqip, want, round>>
         [] ~seen -> NextRound /\ UNCHANGED <<reqip, want, bound>>
    /\ UNCHANGED <<waiting, polls, reqid, joinVars, mac, seen, rx, fifo, fwVars, serverVars>>

-----------------------------------------------------------------------------
(* The firmware *)

probeVars == <<pc, waiting, polls, reqid, joinVars, mac, dhcpVars>>

Queue(f) == Len(fifo) < Depth /\ fifo' = Append(fifo, f)

FwAnswers ==
    /\ cmds # <<>> /\ cmds' = Tail(cmds)
    /\ \E ok \in BOOLEAN :
           Queue([chan |-> "control", id |-> Head(cmds).id, answers |-> Head(cmds).what, ok |-> ok])
    /\ UNCHANGED <<probeVars, fw, keyed, serverVars>>

FwEvent(type, status, from, to) ==
    /\ fw = from /\ fw' = to
    /\ Queue([chan |-> "event", type |-> type, status |-> status])
    /\ UNCHANGED <<probeVars, cmds, serverVars>>

FwJoins ==
    \/ FwEvent("SET_SSID", NoNetworks, "scanning", "idle") /\ UNCHANGED keyed
    \/ FwEvent("SET_SSID", 0, "scanning", "associated") /\ UNCHANGED keyed
    \/ FwEvent("PSK_SUP", PskFailed, "associated", "idle") /\ UNCHANGED keyed
    \/ FwEvent("PSK_SUP", Unsolicited, "associated", "up") /\ keyed' = TRUE

FwDelivers ==
    /\ fw = "up"
    /\ \E r \in net \cup Foreign : Queue([chan |-> "data", reply |-> r])
    /\ UNCHANGED <<probeVars, fwVars, serverVars>>

-----------------------------------------------------------------------------
(* The servers *)

ServerOffers(s) ==
    /\ [type |-> "DISCOVER"] \in air
    /\ offers' = offers \cup {s}
    /\ net' = net \cup {[type |-> "OFFER", ip |-> s, server |-> s, ours |-> TRUE]}
    /\ UNCHANGED <<probeVars, fifo, fwVars, air, leases>>

\* A request that names another server withdraws the offer.
ServerAnswers(s) ==
    \E m \in air :
        /\ m.type = "REQUEST"
        /\ CASE m.server # s -> offers' = offers \ {s} /\ UNCHANGED <<net, leases>>
             [] m.server = s /\ m.ip = s /\ s \in offers \cup leases ->
                    /\ leases' = leases \cup {s}
                    /\ net' = net \cup {[type |-> "ACK", ip |-> s, server |-> s, ours |-> TRUE]}
                    /\ UNCHANGED offers
             [] OTHER -> /\ net' = net \cup {[type |-> "NAK", ip |-> NoAddr, server |-> s, ours |-> TRUE]}
                         /\ UNCHANGED <<offers, leases>>
        /\ UNCHANGED <<probeVars, fifo, fwVars, air>>

-----------------------------------------------------------------------------
Probe ==
    \/ SendCommand \/ PollAnswer
    \/ WatchEvents \/ AttemptEnds
    \/ diag_wifiDataTx \/ diag_wifiRxDhcp \/ RoundEnds

Next ==
    \/ Probe
    \/ FwAnswers \/ FwJoins \/ FwDelivers
    \/ \E s \in Servers : ServerOffers(s) \/ ServerAnswers(s)

Spec == Init /\ [][Next]_vars

\* Nothing is asked of the firmware or of the servers.
FairSpec == Spec /\ WF_vars(Probe)

-----------------------------------------------------------------------------
(* Properties *)

\* The address that is put into the frames is zero or what the firmware answered to the question
\* for it, be it a refusal, and never the answer to a command given up before (line 1384).
MacIsNoLateAnswer == mac \in {"unread", "nothing", "mac", Refusal["mac"]}

\* When the probe stops retrying because it is connected, a handshake was completed: an event
\* of an earlier attempt may help, but none that did not happen does (lines 2303-2305).
StopsOnlyWhenKeyed == pc = "mac" /\ attempt < Attempts => keyed

\* "BOUND" on an ACK that was for the probe: the address is the one that was asked for, and its
\* server has leased it, whatever replies to whomever came before (lines 2344-2391).
BoundIsLeased == bound # NoAddr /\ rx.ours => bound = reqip /\ bound \in leases

\* No loop and no retry goes on for ever, whatever the firmware does.
ProbeEnds == <>(pc = "done")

-----------------------------------------------------------------------------
(* What comments say and the code does not do; see the README. *)

\* "BOUND (full DHCP lease over WiFi)" (line 2388): an ACK for another client binds as well.
BoundIsOurs == bound # NoAddr => bound \in leases

\* "STA MAC read in non-glom mode" (line 1783), "use the MAC read earlier" (line 1995): what a
\* refusal carries is put into the frames as well (lines 2323-2328); zeros are not held against it.
MacIsTheDevices == pc \in {"send", "poll"} => mac \in {"mac", "nothing"}

\* "Stop as soon as connected" (line 2234): the events of two attempts may be mixed, and the
\* handshake may be that of an attempt which was restarted.
ConnectedMeansUp == pc = "mac" /\ ~waiting /\ Connected => fw = "up"

\* "a late OFFER while we wait for the ACK must not stop us" (lines 1937-1938): it replaces the
\* server of the next REQUEST, which then names one server and the address of another.
RequestNamesOneServer == \A m \in air : m.type = "REQUEST" => m.ip = m.server
=============================================================================
