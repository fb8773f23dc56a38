-------------------------- MODULE WifiProbeProofs --------------------------
(* Proofs about WifiProbe, for any number of servers, attempts, rounds and polls, and a FIFO *)
(* of any depth.                                                                             *)
EXTENDS WifiProbe, TLAPS

\* What a poll does to the FIFO, whatever the frame is for.
Shorter == fifo' = fifo \/ (fifo # <<>> /\ fifo' = Tail(fifo))

Command == [id : Nat, what : Commands]

\* What servers send to the probe.
Sent == {r \in DhcpReply : r.ours}

QueueTypes ==
    /\ fifo \in Seq(Frame) /\ cmds \in Seq(Command) /\ net \subseteq Sent
    /\ reqid \in Nat /\ (waiting => pc \in Commands)

-----------------------------------------------------------------------------
(* Lemmas about the two queues *)

LEMMA TailElements ==
    ASSUME NEW S, NEW s \in Seq(S), s # <<>>
    PROVE  /\ Tail(s) \in Seq(S) /\ Len(Tail(s)) = Len(s) - 1
           /\ Head(s) = s[1] /\ 1 \in 1..Len(s) /\ Head(s) \in S
           /\ \A i \in 1..Len(Tail(s)) : Tail(s)[i] = s[i + 1] /\ i + 1 \in 1..Len(s)
<1>1. Tail(s) \in Seq(S) /\ Len(Tail(s)) = Len(s) - 1 /\ Head(s) = s[1] /\ 1 \in 1..Len(s)
    OBVIOUS
<1>2. Head(s) \in S
    BY <1>1
<1>3. \A i \in 1..Len(Tail(s)) : Tail(s)[i] = s[i + 1] /\ i + 1 \in 1..Len(s)
    BY <1>1
<1> QED
    BY <1>1, <1>2, <1>3

\* What appending a frame to a queue does, element by element.
LEMMA AppendElements ==
    ASSUME NEW S, NEW s \in Seq(S), NEW f \in S
    PROVE  /\ Append(s, f) \in Seq(S) /\ Len(Append(s, f)) = Len(s) + 1
           /\ \A i \in 1..Len(Append(s, f)) : Append(s, f)[i] = IF i = Len(s) + 1 THEN f ELSE s[i]
OBVIOUS

-----------------------------------------------------------------------------
(* Types of what is queued *)

LEMMA TypesInit == Init => QueueTypes
BY DEF Init, QueueTypes

\* The driver's FIFO and the firmware's queue of commands keep holding frames and
\* commands.
LEMMA TypesStep == QueueTypes /\ [Next]_vars => QueueTypes'
<1> SUFFICES ASSUME QueueTypes, [Next]_vars PROVE QueueTypes'
    OBVIOUS
<1> USE DEF joinVars, dhcpVars, fwVars, serverVars, probeVars
<1>1. CASE SendCommand
    <2>1. reqid' = reqid + 1 /\ UNCHANGED <<fifo, net>>
        BY <1>1 DEF SendCommand
    <2>2. waiting' => pc' \in Commands
        <3>1. pc \in Commands /\ (pc' = pc \/ CommandEnds("nothing"))
            BY <1>1 DEF SendCommand
        <3> QED
            BY <3>1 DEF CommandEnds
    <2>3. cmds' = cmds \/ cmds' = Append(cmds, [id |-> reqid, what |-> pc])
        BY <1>1 DEF SendCommand
    <2>4. [id |-> reqid, what |-> pc] \in Command
        <3>1. pc \in Commands /\ reqid \in Nat
            BY <1>1 DEF SendCommand, QueueTypes
        <3> QED
            BY <3>1 DEF Command
    <2>5. cmds \in Seq(Command)
        BY DEF QueueTypes
    <2>6. Append(cmds, [id |-> reqid, what |-> pc]) \in Seq(Command)
        BY <2>4, <2>5, AppendElements
    <2>7. cmds' \in Seq(Command)
        BY <2>3, <2>5, <2>6
    <2> QED
        BY <2>1, <2>2, <2>7 DEF QueueTypes
<1>2. ASSUME Shorter, UNCHANGED <<cmds, net, reqid>>, waiting' => pc' \in Commands
      PROVE  QueueTypes'
    BY <1>2, TailElements DEF Shorter, QueueTypes
<1>3. CASE PollAnswer
    <2>1. Shorter /\ UNCHANGED <<cmds, net, reqid>>
        BY <1>3 DEF PollAnswer, NoFrame, diag_f2RecvFrame, Shorter
    <2>2. waiting' = FALSE \/ UNCHANGED <<pc, waiting>>
        BY <1>3 DEF PollAnswer, NoFrame, diag_f2RecvFrame, TakeAnswer, CommandEnds
    <2> QED
        BY <1>2, <2>1, <2>2 DEF QueueTypes
<1>4. CASE WatchEvents
    <2>1. Shorter /\ UNCHANGED <<cmds, net, reqid, pc, waiting>>
        BY <1>4 DEF WatchEvents, NoFrame, diag_f2RecvFrame, Shorter
    <2> QED
        BY <1>2, <2>1 DEF QueueTypes
<1>5. CASE diag_wifiRxDhcp
    <2>1. Shorter /\ UNCHANGED <<cmds, net, reqid, pc, waiting>>
        BY <1>5 DEF diag_wifiRxDhcp, NoFrame, diag_f2RecvFrame, Shorter
    <2> QED
        BY <1>2, <2>1 DEF QueueTypes
<1>6. CASE AttemptEnds \/ diag_wifiDataTx \/ RoundEnds
    <2>1. UNCHANGED <<fifo, cmds, net, reqid, waiting>> /\ pc \notin Commands
        BY <1>6 DEF AttemptEnds, diag_wifiDataTx, RoundEnds, Commands
    <2> QED
        BY <2>1 DEF QueueTypes
<1>7. CASE FwAnswers
    <2>0. PICK ok \in BOOLEAN :
              Queue([chan |-> "control", id |-> Head(cmds).id, answers |-> Head(cmds).what, ok |-> ok])
        BY <1>7 DEF FwAnswers
    <2>1. /\ cmds # <<>> /\ cmds' = Tail(cmds) /\ UNCHANGED <<net, reqid, pc, waiting>>
          /\ fifo' = Append(fifo, [chan |-> "control", id |-> Head(cmds).id, answers |-> Head(cmds).what, ok |-> ok])
        BY <1>7, <2>0 DEF FwAnswers, Queue
    <2>2. cmds' \in Seq(Command) /\ Head(cmds) \in Command
        BY <2>1, TailElements DEF QueueTypes
    <2>3. [chan |-> "control", id |-> Head(cmds).id, answers |-> Head(cmds).what, ok |-> ok] \in Frame
        BY <2>0, <2>2 DEF Frame, Command
    <2>4. fifo' \in Seq(Frame)
        BY <2>1, <2>3, AppendElements DEF QueueTypes
    <2> QED
        BY <2>1, <2>2, <2>4 DEF QueueTypes
<1>8. CASE FwJoins
    <2>1. UNCHANGED <<cmds, net, reqid, pc, waiting>>
        BY <1>8 DEF FwJoins, FwEvent
    <2>2. \E f \in Frame : fifo' = Append(fifo, f)
        BY <1>8 DEF FwJoins, FwEvent, Queue, Frame
    <2>3. fifo' \in Seq(Frame)
        BY <2>2, AppendElements DEF QueueTypes
    <2> QED
        BY <2>1, <2>3 DEF QueueTypes
<1>9. CASE FwDelivers
    <2>1. UNCHANGED <<cmds, net, reqid, pc, waiting>>
        BY <1>9 DEF FwDelivers
    <2>2. PICK r \in net \cup Foreign : fifo' = Append(fifo, [chan |-> "data", reply |-> r])
        BY <1>9 DEF FwDelivers, Queue
    <2>3. [chan |-> "data", reply |-> r] \in Frame
        BY <2>2 DEF Frame, QueueTypes, Sent, Foreign
    <2>4. fifo' \in Seq(Frame)
        BY <2>2, <2>3, AppendElements DEF QueueTypes
    <2> QED
        BY <2>1, <2>4 DEF QueueTypes
<1>10. ASSUME NEW s \in Servers, ServerOffers(s) \/ ServerAnswers(s) PROVE QueueTypes'
    <2>1. UNCHANGED <<fifo, cmds, reqid, pc, waiting>>
        BY <1>10 DEF ServerOffers, ServerAnswers
    <2>2. \A t \in DhcpTypes, a \in Addr : [type |-> t, ip |-> a, server |-> s, ours |-> TRUE] \in Sent
        BY DEF DhcpReply, Sent
    <2>3. net' \subseteq net \cup {[type |-> t, ip |-> a, server |-> s, ours |-> TRUE] : t \in DhcpTypes, a \in Addr}
        BY <1>10 DEF ServerOffers, ServerAnswers, DhcpTypes, Addr
    <2>4. net' \subseteq Sent
        BY <2>2, <2>3 DEF QueueTypes
    <2> QED
        BY <2>1, <2>4 DEF QueueTypes
<1>11. CASE UNCHANGED vars
    BY <1>11 DEF vars, QueueTypes
<1> QED
    BY <1>1, <1>3, <1>4, <1>5, <1>6, <1>7, <1>8, <1>9, <1>10, <1>11 DEF Next, Probe

-----------------------------------------------------------------------------
(* The leased address *)

\* A reply in the FIFO is one that a server has sent, or is for somebody else.
Queued == \A i \in 1..Len(fifo) : fifo[i].chan = "data" => fifo[i].reply \in net \cup Foreign

\* Every request asks for the one address that the probe has chosen, so whatever ACK there is
\* acknowledges that one; and before the choice there is neither.
Chosen ==
    /\ \A m \in air : m.type = "REQUEST" => m.ip = reqip
    /\ \A r \in net : r.type = "ACK" => r.ip = reqip /\ r.ip \in leases
    /\ want = "OFFER" => /\ bound = NoAddr
                         /\ \A m \in air : m.type # "REQUEST"
                         /\ \A r \in net : r.type # "ACK"

\* What the wait for a reply knows.
Heard ==
    /\ want \in {"OFFER", "ACK"}
    /\ rx.type = "ACK" /\ rx.ours => rx \in net
    /\ pc = "poll" /\ seen => rx.type = want
    /\ bound # NoAddr => pc = "done"

LeaseInv == Queued /\ Chosen /\ Heard /\ BoundIsLeased

\* At start nothing is offered, nothing is leased and nothing is bound.
LEMMA LeaseInit == Init => LeaseInv
<1> SUFFICES ASSUME Init PROVE LeaseInv
    OBVIOUS
<1>1. Queued
    BY DEF Init, Queued
<1>2. Chosen
    BY DEF Init, Chosen
<1>3. Heard
    BY DEF Init, Heard
<1>4. BoundIsLeased
    BY DEF Init, BoundIsLeased
<1> QED
    BY <1>1, <1>2, <1>3, <1>4 DEF LeaseInv

\* A poll, whatever it takes, leaves no frame that was not there.
LEMMA ShorterQueued ==
    ASSUME QueueTypes, Queued, Shorter, UNCHANGED net PROVE Queued'
<1>1. CASE fifo' = fifo
    BY <1>1 DEF Queued
<1>2. CASE fifo # <<>> /\ fifo' = Tail(fifo)
    <2>1. \A i \in 1..Len(fifo') : fifo'[i] = fifo[i + 1] /\ i + 1 \in 1..Len(fifo)
        BY <1>2, TailElements DEF QueueTypes
    <2> QED
        BY <2>1 DEF Queued
<1> QED
    BY <1>1, <1>2 DEF Shorter

\* The firmware queues no reply but one that was sent.
LEMMA AppendQueued ==
    ASSUME QueueTypes, Queued, UNCHANGED net, NEW f \in Frame, fifo' = Append(fifo, f),
           f.chan = "data" => f.reply \in net \cup Foreign
    PROVE  Queued'
<1>1. /\ fifo \in Seq(Frame) /\ Len(fifo') = Len(fifo) + 1
      /\ \A i \in 1..Len(fifo') : fifo'[i] = IF i = Len(fifo) + 1 THEN f ELSE fifo[i]
    BY AppendElements DEF QueueTypes
<1>2. \A i \in 1..Len(fifo') : i = Len(fifo) + 1 \/ i \in 1..Len(fifo)
    BY <1>1
<1> QED
    BY <1>1, <1>2 DEF Queued

\* A step that does not touch DHCP keeps what is known about it.
LEMMA OtherStep ==
    ASSUME Chosen, Heard, BoundIsLeased, UNCHANGED <<dhcpVars, serverVars>>,
           pc' = pc \/ (pc # "done" /\ pc' # "poll")
    PROVE  Chosen' /\ Heard' /\ BoundIsLeased'
<1>1. UNCHANGED <<want, seen, rx, reqip, bound, air, net, leases>>
    BY DEF dhcpVars, serverVars
<1>2. Chosen' /\ BoundIsLeased'
    BY <1>1 DEF Chosen, BoundIsLeased
<1>3. Heard'
    BY <1>1 DEF Heard
<1> QED
    BY <1>2, <1>3

\* Every step keeps that what is on the network was granted and that the probe binds what
\* it asked for.
LEMMA LeaseStep == QueueTypes /\ LeaseInv /\ [Next]_vars => LeaseInv'
<1> SUFFICES ASSUME QueueTypes, Queued, Chosen, Heard, BoundIsLeased, [Next]_vars
             PROVE  LeaseInv'
    BY DEF LeaseInv
<1>0. want \in {"OFFER", "ACK"}
    BY DEF Heard
<1>1. CASE SendCommand
    <2>1. UNCHANGED <<fifo, dhcpVars, serverVars>> /\ (pc' = pc \/ (pc # "done" /\ pc' # "poll"))
        BY <1>1 DEF SendCommand, CommandEnds, Commands
    <2>2. Queued'
        BY <2>1 DEF Queued, serverVars
    <2> QED
        BY <2>1, <2>2, OtherStep DEF LeaseInv
<1>2. CASE PollAnswer
    <2>1. UNCHANGED <<dhcpVars, serverVars>> /\ Shorter
        BY <1>2 DEF PollAnswer, NoFrame, diag_f2RecvFrame, Shorter
    <2>2. waiting /\ pc \in Commands /\ (pc' = pc \/ CommandEnds("nothing") \/ CommandEnds(Payload(Head(fifo))))
        BY <1>2 DEF PollAnswer, NoFrame, diag_f2RecvFrame, TakeAnswer, QueueTypes
    <2>3. pc' = pc \/ (pc # "done" /\ pc' # "poll")
        BY <2>2 DEF CommandEnds, Commands
    <2>4. Queued'
        BY <2>1, ShorterQueued DEF serverVars
    <2> QED
        BY <2>1, <2>3, <2>4, OtherStep DEF LeaseInv
<1>3. CASE WatchEvents
    <2>1. UNCHANGED <<dhcpVars, serverVars>> /\ Shorter /\ pc' = pc
        BY <1>3 DEF WatchEvents, NoFrame, diag_f2RecvFrame, Shorter
    <2>2. Queued'
        BY <2>1, ShorterQueued DEF serverVars
    <2> QED
        BY <2>1, <2>2, OtherStep DEF LeaseInv
<1>4. CASE AttemptEnds
    <2>1. UNCHANGED <<fifo, dhcpVars, serverVars>> /\ pc # "done" /\ pc' # "poll"
        BY <1>4 DEF AttemptEnds
    <2>2. Queued'
        BY <2>1 DEF Queued, serverVars
    <2> QED
        BY <2>1, <2>2, OtherStep DEF LeaseInv
<1>5. CASE diag_wifiDataTx
    <2>1. UNCHANGED <<fifo, net, leases, want, rx, reqip, bound>> /\ seen' = FALSE /\ pc = "send"
        BY <1>5 DEF diag_wifiDataTx, fwVars
    <2>2. \A m \in air' : m \in air \/ (want = "OFFER" /\ m.type = "DISCOVER")
                                    \/ (want = "ACK" /\ m.ip = reqip)
        BY <1>0, <1>5 DEF diag_wifiDataTx, Request
    <2>3. Chosen'
        BY <2>1, <2>2 DEF Chosen
    <2>4. Queued' /\ Heard' /\ BoundIsLeased'
        BY <2>1 DEF Queued, Heard, BoundIsLeased
    <2> QED
        BY <2>3, <2>4 DEF LeaseInv
<1>6. CASE diag_wifiRxDhcp
    <2>1. Shorter /\ UNCHANGED <<net, air, leases, want, reqip, bound>>
        BY <1>6 DEF diag_wifiRxDhcp, NoFrame, diag_f2RecvFrame, Shorter, serverVars
    <2>2. Queued'
        BY <2>1, ShorterQueued
    <2>3. \/ UNCHANGED <<rx, seen>>
          \/ fifo # <<>> /\ Head(fifo).chan = "data" /\ rx' = Head(fifo).reply
             /\ seen' = (rx'.type = want)
        BY <1>6 DEF diag_wifiRxDhcp, NoFrame, diag_f2RecvFrame, TakeReply
    <2>4. fifo # <<>> /\ Head(fifo).chan = "data" => Head(fifo).reply \in net \cup Foreign
        BY TailElements DEF QueueTypes, Queued
    <2>5. pc = "poll" /\ pc' = "poll"
        BY <1>6 DEF diag_wifiRxDhcp
    <2>6. Heard'
        <3>1. CASE UNCHANGED <<rx, seen>>
            BY <2>1, <2>5, <3>1 DEF Heard
        <3>2. CASE rx' \in net \cup Foreign /\ seen' = (rx'.type = want)
            <4>1. seen' => rx'.type = want
                BY <3>2, Zenon
            <4>2. rx'.ours => rx' \in net
                BY <3>2 DEF Foreign
            <4> QED
                BY <2>1, <2>5, <4>1, <4>2 DEF Heard
        <3> QED
            BY <2>3, <2>4, <3>1, <3>2
    <2>7. Chosen' /\ BoundIsLeased'
        BY <2>1, <2>5 DEF Heard, Chosen, BoundIsLeased
    <2> QED
        BY <2>2, <2>6, <2>7 DEF LeaseInv
<1>7. CASE RoundEnds
    <2>1. UNCHANGED <<fifo, air, net, leases, rx>> /\ pc = "poll" /\ pc' # "poll"
        BY <1>0, <1>7 DEF RoundEnds, NextRound, serverVars
    <2>2. \/ UNCHANGED <<want, reqip, bound>>
          \/ seen /\ want = "OFFER" /\ want' = "ACK" /\ UNCHANGED bound
          \/ seen /\ want = "ACK" /\ bound' = rx.ip /\ pc' = "done" /\ UNCHANGED <<want, reqip>>
        BY <1>0, <1>7 DEF RoundEnds, NextRound
    <2>3. Queued'
        BY <2>1 DEF Queued
    <2>4. Heard'
        <3>1. want' \in {"OFFER", "ACK"} /\ (bound' # NoAddr => pc' = "done")
            BY <1>0, <2>1, <2>2 DEF Heard
        <3> QED
            BY <2>1, <3>1 DEF Heard
    <2>5. CASE UNCHANGED <<want, reqip, bound>>
        BY <2>1, <2>3, <2>4, <2>5 DEF LeaseInv, Chosen, BoundIsLeased
    <2>6. CASE seen /\ want = "OFFER" /\ want' = "ACK" /\ UNCHANGED bound
        BY <2>1, <2>3, <2>4, <2>6 DEF LeaseInv, Chosen, Heard, BoundIsLeased
    <2>7. CASE seen /\ want = "ACK" /\ bound' = rx.ip /\ UNCHANGED <<want, reqip>>
        <3>1. rx.ours => rx.ip = reqip /\ rx.ip \in leases
            BY <2>1, <2>7 DEF Heard, Chosen
        <3>2. Chosen' /\ BoundIsLeased'
            BY <2>1, <2>7, <3>1 DEF Chosen, BoundIsLeased
        <3> QED
            BY <2>3, <2>4, <3>2 DEF LeaseInv
    <2> QED
        BY <2>2, <2>5, <2>6, <2>7
<1>8. ASSUME UNCHANGED <<probeVars, serverVars>>,
             \E f \in Frame : fifo' = Append(fifo, f) /\ (f.chan = "data" => f.reply \in net \cup Foreign)
      PROVE  LeaseInv'
    <2>1. UNCHANGED <<dhcpVars, serverVars, net>> /\ pc' = pc
        BY <1>8 DEF probeVars, serverVars
    <2>2. Queued'
        BY <1>8, <2>1, AppendQueued
    <2> QED
        BY <2>1, <2>2, OtherStep DEF LeaseInv
<1>9. CASE FwAnswers
    <2>0. PICK ok \in BOOLEAN :
              Queue([chan |-> "control", id |-> Head(cmds).id, answers |-> Head(cmds).what, ok |-> ok])
        BY <1>9 DEF FwAnswers
    <2>1. UNCHANGED <<probeVars, serverVars>> /\ cmds # <<>>
          /\ fifo' = Append(fifo, [chan |-> "control", id |-> Head(cmds).id, answers |-> Head(cmds).what, ok |-> ok])
        BY <1>9, <2>0 DEF FwAnswers, Queue
    <2>2. Head(cmds) \in Command
        BY <2>1, TailElements DEF QueueTypes
    <2>3. [chan |-> "control", id |-> Head(cmds).id, answers |-> Head(cmds).what, ok |-> ok] \in Frame
        BY <2>0, <2>2 DEF Frame, Command
    <2> QED
        BY <1>8, <2>1, <2>3
<1>10. CASE FwJoins
    <2>1. UNCHANGED <<probeVars, serverVars>>
        BY <1>10 DEF FwJoins, FwEvent
    <2>2. \E f \in Frame : fifo' = Append(fifo, f) /\ f.chan = "event"
        BY <1>10 DEF FwJoins, FwEvent, Queue, Frame
    <2> QED
        BY <1>8, <2>1, <2>2
<1>11. CASE FwDelivers
    <2>1. UNCHANGED <<probeVars, serverVars>>
        BY <1>11 DEF FwDelivers
    <2>2. PICK r \in net \cup Foreign : fifo' = Append(fifo, [chan |-> "data", reply |-> r])
        BY <1>11 DEF FwDelivers, Queue
    <2>3. [chan |-> "data", reply |-> r] \in Frame
        BY <2>2 DEF Frame, QueueTypes, Sent, Foreign
    <2> QED
        BY <1>8, <2>1, <2>2, <2>3
<1>12. ASSUME NEW s \in Servers, ServerOffers(s) PROVE LeaseInv'
    <2>1. /\ UNCHANGED <<pc, want, seen, rx, reqip, bound, fifo, air, leases>>
          /\ net' = net \cup {[type |-> "OFFER", ip |-> s, server |-> s, ours |-> TRUE]}
        BY <1>12 DEF ServerOffers, probeVars, dhcpVars
    <2>2. Queued'
        BY <2>1 DEF Queued
    <2>3. Chosen'
        BY <2>1 DEF Chosen
    <2>4. Heard' /\ BoundIsLeased'
        BY <2>1 DEF Heard, BoundIsLeased
    <2> QED
        BY <2>2, <2>3, <2>4 DEF LeaseInv
<1>13. ASSUME NEW s \in Servers, ServerAnswers(s) PROVE LeaseInv'
    <2>1. UNCHANGED <<pc, want, seen, rx, reqip, bound, fifo, air>>
        BY <1>13 DEF ServerAnswers, probeVars, dhcpVars
    <2>2. \/ UNCHANGED <<net, leases>>
          \/ net' = net \cup {[type |-> "NAK", ip |-> NoAddr, server |-> s, ours |-> TRUE]} /\ UNCHANGED leases
          \/ /\ \E m \in air : m.type = "REQUEST" /\ m.ip = s
             /\ leases' = leases \cup {s}
             /\ net' = net \cup {[type |-> "ACK", ip |-> s, server |-> s, ours |-> TRUE]}
        BY <1>13 DEF ServerAnswers
    <2>3. net \subseteq net' /\ leases \subseteq leases'
        BY <2>2
    <2>4. Queued'
        BY <2>1, <2>3 DEF Queued
    <2>5. Heard' /\ BoundIsLeased'
        BY <2>1, <2>3 DEF Heard, BoundIsLeased
    <2>6. CASE \/ UNCHANGED <<net, leases>>
               \/ net' = net \cup {[type |-> "NAK", ip |-> NoAddr, server |-> s, ours |-> TRUE]} /\ UNCHANGED leases
        <3>1. Chosen'
            BY <2>1, <2>6 DEF Chosen
        <3> QED
            BY <2>4, <2>5, <3>1 DEF LeaseInv
    <2>7. CASE /\ \E m \in air : m.type = "REQUEST" /\ m.ip = s
               /\ leases' = leases \cup {s}
               /\ net' = net \cup {[type |-> "ACK", ip |-> s, server |-> s, ours |-> TRUE]}
        <3>1. s = reqip /\ want # "OFFER"
            BY <2>7 DEF Chosen
        <3>2. Chosen'
            BY <2>1, <2>7, <3>1 DEF Chosen
        <3> QED
            BY <2>4, <2>5, <3>2 DEF LeaseInv
    <2> QED
        BY <2>2, <2>6, <2>7
<1>14. CASE UNCHANGED vars
    <2>1. UNCHANGED <<fifo, dhcpVars, serverVars, net>> /\ pc' = pc
        BY <1>14 DEF vars, serverVars
    <2>2. Queued'
        BY <2>1 DEF Queued
    <2> QED
        BY <2>1, <2>2, OtherStep DEF LeaseInv
<1> QED
    BY <1>1, <1>2, <1>3, <1>4, <1>5, <1>6, <1>7, <1>9, <1>10, <1>11, <1>12, <1>13, <1>14
    DEF Next, Probe

\* The address that the probe calls bound is the one it asked for, and the server that gives
\* it has leased it, unless the ACK was for somebody else: whatever late, repeated and foreign
\* replies came before, however many servers and rounds there are (diag_wifiJoin,
\* diag_wifiRxDhcp).
THEOREM LeaseSafety == Spec => []BoundIsLeased
<1>1. Init => QueueTypes /\ LeaseInv
    BY TypesInit, LeaseInit
<1>2. QueueTypes /\ LeaseInv /\ [Next]_vars => (QueueTypes /\ LeaseInv)'
    BY TypesStep, LeaseStep
<1>3. LeaseInv => BoundIsLeased
    BY DEF LeaseInv
<1> QED
    BY <1>1, <1>2, <1>3, PTL DEF Spec

-----------------------------------------------------------------------------
(* The address of the device *)

\* The answer to the command that the probe waits for answers just that one; every other that
\* may still come has an earlier number.
Asked(id, what, n, w, p) == id \in Nat /\ id < n /\ (w /\ id = n - 1 => what = p)

AskedInv ==
    /\ \A i \in 1..Len(cmds) : Asked(cmds[i].id, cmds[i].what, reqid, waiting, pc)
    /\ \A i \in 1..Len(fifo) : fifo[i].chan = "control"
           => Asked(fifo[i].id, fifo[i].answers, reqid, waiting, pc)

MacInv == AskedInv /\ MacIsNoLateAnswer

\* At start no answer is in the FIFO and the probe has read no address.
LEMMA MacInit == Init => MacInv
BY DEF Init, MacInv, AskedInv, MacIsNoLateAnswer

\* A poll that does not begin to wait for something else.
LEMMA ShorterAsked ==
    ASSUME QueueTypes, AskedInv, Shorter, UNCHANGED <<cmds, reqid>>,
           waiting' => waiting /\ pc' = pc
    PROVE  AskedInv'
<1>1. \A id, what : Asked(id, what, reqid, waiting, pc) => Asked(id, what, reqid', waiting', pc')
    BY DEF Asked
<1>2. CASE fifo' = fifo
    BY <1>1, <1>2 DEF AskedInv
<1>3. CASE fifo # <<>> /\ fifo' = Tail(fifo)
    <2>1. \A i \in 1..Len(fifo') : fifo'[i] = fifo[i + 1] /\ i + 1 \in 1..Len(fifo)
        BY <1>3, TailElements DEF QueueTypes
    <2>2. \A i \in 1..Len(fifo') : fifo'[i].chan = "control"
              => Asked(fifo'[i].id, fifo'[i].answers, reqid', waiting', pc')
        BY <1>1, <2>1 DEF AskedInv
    <2>3. \A i \in 1..Len(cmds') : Asked(cmds'[i].id, cmds'[i].what, reqid', waiting', pc')
        BY <1>1 DEF AskedInv
    <2> QED
        BY <2>2, <2>3 DEF AskedInv
<1> QED
    BY <1>2, <1>3 DEF Shorter

\* The firmware queues an event, a reply or the answer to a command that was asked.
LEMMA AppendAsked ==
    ASSUME QueueTypes, AskedInv, UNCHANGED <<reqid, pc, waiting>>,
           cmds' = cmds \/ (cmds # <<>> /\ cmds' = Tail(cmds)),
           NEW f \in Frame, fifo' = Append(fifo, f),
           f.chan = "control" => Asked(f.id, f.answers, reqid, waiting, pc)
    PROVE  AskedInv'
<1>1. \A id, what : Asked(id, what, reqid, waiting, pc) => Asked(id, what, reqid', waiting', pc')
    BY DEF Asked
<1>2. /\ fifo \in Seq(Frame) /\ Len(fifo') = Len(fifo) + 1
      /\ \A i \in 1..Len(fifo') : fifo'[i] = IF i = Len(fifo) + 1 THEN f ELSE fifo[i]
    BY AppendElements DEF QueueTypes
<1>3. \A i \in 1..Len(fifo') : i = Len(fifo) + 1 \/ i \in 1..Len(fifo)
    BY <1>2
<1>4. \A i \in 1..Len(fifo') : fifo'[i].chan = "control"
          => Asked(fifo'[i].id, fifo'[i].answers, reqid', waiting', pc')
    BY <1>1, <1>2, <1>3 DEF AskedInv
<1>5. \A i \in 1..Len(cmds') : Asked(cmds'[i].id, cmds'[i].what, reqid', waiting', pc')
    <2>1. CASE cmds' = cmds
        BY <1>1, <2>1 DEF AskedInv
    <2>2. CASE cmds # <<>> /\ cmds' = Tail(cmds)
        <3>1. \A i \in 1..Len(cmds') : cmds'[i] = cmds[i + 1] /\ i + 1 \in 1..Len(cmds)
            BY <2>2, TailElements DEF QueueTypes
        <3> QED
            BY <1>1, <3>1 DEF AskedInv
    <2> QED
        BY <2>1, <2>2
<1> QED
    BY <1>4, <1>5 DEF AskedInv

\* An answer in the FIFO that bears the number the probe waits for answers the question
\* the probe asked: every step keeps that, so the MAC is never read from a late answer.
LEMMA MacStep == QueueTypes /\ MacInv /\ [Next]_vars => MacInv'
<1> SUFFICES ASSUME QueueTypes, AskedInv, MacIsNoLateAnswer, [Next]_vars
             PROVE  MacInv'
    BY DEF MacInv
<1> USE DEF joinVars, dhcpVars, fwVars, serverVars, probeVars
<1>1. CASE SendCommand
    <2>1. reqid' = reqid + 1 /\ UNCHANGED fifo /\ mac' \in {mac, "nothing"}
        BY <1>1 DEF SendCommand, CommandEnds
    <2>2. CASE waiting' = FALSE /\ UNCHANGED cmds
        <3>1. \A id, what : Asked(id, what, reqid, waiting, pc)
                  => Asked(id, what, reqid', waiting', pc')
            BY <2>1, <2>2 DEF Asked, QueueTypes
        <3> QED
            BY <2>1, <2>2, <3>1 DEF MacInv, AskedInv, MacIsNoLateAnswer
    <2>3. CASE cmds' = Append(cmds, [id |-> reqid, what |-> pc]) /\ UNCHANGED pc
        <3>1. [id |-> reqid, what |-> pc] \in Command
            <4>1. pc \in Commands
                BY <1>1 DEF SendCommand
            <4> QED
                BY <4>1 DEF Command, QueueTypes
        <3>2. /\ cmds \in Seq(Command) /\ Len(cmds') = Len(cmds) + 1
              /\ \A i \in 1..Len(cmds') : cmds'[i] = IF i = Len(cmds) + 1
                                                     THEN [id |-> reqid, what |-> pc] ELSE cmds[i]
            BY <2>3, <3>1, AppendElements DEF QueueTypes
        <3>3. \A i \in 1..Len(cmds') : i = Len(cmds) + 1 \/ i \in 1..Len(cmds)
            BY <3>2
        <3>4. /\ \A id, what : Asked(id, what, reqid, waiting, pc)
                     => Asked(id, what, reqid', waiting', pc')
              /\ Asked(reqid, pc, reqid', waiting', pc')
            BY <2>1, <2>3 DEF Asked, QueueTypes
        <3>5. \A i \in 1..Len(cmds') : Asked(cmds'[i].id, cmds'[i].what, reqid', waiting', pc')
            BY <3>2, <3>3, <3>4 DEF AskedInv
        <3>6. AskedInv'
            BY <2>1, <3>4, <3>5 DEF AskedInv
        <3> QED
            BY <2>1, <3>6 DEF MacInv, MacIsNoLateAnswer
    <2> QED
        BY <1>1, <2>2, <2>3 DEF SendCommand, CommandEnds
<1>2. ASSUME Shorter, UNCHANGED <<cmds, reqid, mac>>, waiting' => waiting /\ pc' = pc
      PROVE  MacInv'
    BY <1>2, ShorterAsked DEF MacInv, MacIsNoLateAnswer
<1>3. CASE PollAnswer
    <2>1. Shorter /\ UNCHANGED <<cmds, reqid>> /\ waiting
        BY <1>3 DEF PollAnswer, NoFrame, diag_f2RecvFrame, Shorter
    <2>2. \/ UNCHANGED <<pc, waiting, mac>>
          \/ CommandEnds("nothing")
          \/ fifo # <<>> /\ Answers(Head(fifo)) /\ CommandEnds(Payload(Head(fifo)))
        BY <1>3 DEF PollAnswer, NoFrame, diag_f2RecvFrame, TakeAnswer
    <2>3. waiting' => waiting /\ pc' = pc
        BY <2>1, <2>2 DEF CommandEnds
    <2>4. AskedInv'
        BY <2>1, <2>3, ShorterAsked
    <2>5. fifo # <<>> /\ Answers(Head(fifo)) => Head(fifo).answers = pc
        BY <2>1, TailElements DEF QueueTypes, AskedInv, Asked, Answers
    <2>6. fifo # <<>> /\ Answers(Head(fifo)) => Payload(Head(fifo)) \in {pc, Refusal[pc]}
        BY <2>5 DEF Payload
    <2>7. mac' \in {mac, "nothing", "mac", Refusal["mac"]}
        BY <2>2, <2>6 DEF CommandEnds
    <2> QED
        BY <2>4, <2>7 DEF MacInv, MacIsNoLateAnswer
<1>4. CASE WatchEvents
    <2>1. Shorter /\ UNCHANGED <<cmds, reqid, mac, pc, waiting>>
        BY <1>4 DEF WatchEvents, NoFrame, diag_f2RecvFrame, Shorter
    <2> QED
        BY <1>2, <2>1
<1>5. CASE diag_wifiRxDhcp
    <2>1. Shorter /\ UNCHANGED <<cmds, reqid, mac, pc, waiting>>
        BY <1>5 DEF diag_wifiRxDhcp, NoFrame, diag_f2RecvFrame, Shorter
    <2> QED
        BY <1>2, <2>1
<1>6. CASE AttemptEnds \/ diag_wifiDataTx \/ RoundEnds
    <2>1. UNCHANGED <<fifo, cmds, reqid, waiting, mac>> /\ pc \notin Commands
        BY <1>6 DEF AttemptEnds, diag_wifiDataTx, RoundEnds, Commands
    <2> QED
        BY <1>2, <2>1 DEF Shorter, QueueTypes
<1>7. CASE FwAnswers
    <2>0. PICK ok \in BOOLEAN :
              Queue([chan |-> "control", id |-> Head(cmds).id, answers |-> Head(cmds).what, ok |-> ok])
        BY <1>7 DEF FwAnswers
    <2>1. /\ cmds # <<>> /\ cmds' = Tail(cmds) /\ UNCHANGED <<reqid, pc, waiting, mac>>
          /\ fifo' = Append(fifo, [chan |-> "control", id |-> Head(cmds).id, answers |-> Head(cmds).what, ok |-> ok])
        BY <1>7, <2>0 DEF FwAnswers, Queue
    <2>2. Head(cmds) \in Command /\ Asked(Head(cmds).id, Head(cmds).what, reqid, waiting, pc)
        BY <2>1, TailElements DEF QueueTypes, AskedInv
    <2>3. [chan |-> "control", id |-> Head(cmds).id, answers |-> Head(cmds).what, ok |-> ok] \in Frame
        BY <2>0, <2>2 DEF Frame, Command
    <2>4. AskedInv'
        BY <2>1, <2>2, <2>3, AppendAsked
    <2> QED
        BY <2>1, <2>4 DEF MacInv, MacIsNoLateAnswer
<1>8. ASSUME UNCHANGED <<reqid, pc, waiting, mac, cmds>>,
             \E f \in Frame : fifo' = Append(fifo, f) /\ f.chan # "control"
      PROVE  MacInv'
    <2>1. AskedInv'
        BY <1>8, AppendAsked
    <2> QED
        BY <1>8, <2>1 DEF MacInv, MacIsNoLateAnswer
<1>9. CASE FwJoins
    <2>1. UNCHANGED <<reqid, pc, waiting, mac, cmds>>
        BY <1>9 DEF FwJoins, FwEvent
    <2>2. \E f \in Frame : fifo' = Append(fifo, f) /\ f.chan = "event"
        BY <1>9 DEF FwJoins, FwEvent, Queue, Frame
    <2> QED
        BY <1>8, <2>1, <2>2
<1>10. CASE FwDelivers
    <2>1. UNCHANGED <<reqid, pc, waiting, mac, cmds>>
        BY <1>10 DEF FwDelivers
    <2>2. PICK r \in net \cup Foreign : fifo' = Append(fifo, [chan |-> "data", reply |-> r])
        BY <1>10 DEF FwDelivers, Queue
    <2>3. [chan |-> "data", reply |-> r] \in Frame
        BY <2>2 DEF Frame, QueueTypes, Sent, Foreign
    <2> QED
        BY <1>8, <2>1, <2>2, <2>3
<1>11. CASE (\E s \in Servers : ServerOffers(s) \/ ServerAnswers(s)) \/ UNCHANGED vars
    <2>1. UNCHANGED <<fifo, cmds, reqid, pc, waiting, mac>>
        BY <1>11 DEF ServerOffers, ServerAnswers, vars
    <2> QED
        BY <1>2, <2>1 DEF Shorter
<1> QED
    BY <1>1, <1>3, <1>4, <1>5, <1>6, <1>7, <1>9, <1>10, <1>11 DEF Next, Probe

\* The address in the frames is never what a command was answered that had been given up, with
\* however many commands unanswered or refused (diag_bcdcCmd, diag_wifiJoin).
THEOREM MacSafety == Spec => []MacIsNoLateAnswer
<1>1. Init => QueueTypes /\ MacInv
    BY TypesInit, MacInit
<1>2. QueueTypes /\ MacInv /\ [Next]_vars => (QueueTypes /\ MacInv)'
    BY TypesStep, MacStep
<1>3. MacInv => MacIsNoLateAnswer
    BY DEF MacInv
<1> QED
    BY <1>1, <1>2, <1>3, PTL DEF Spec

-----------------------------------------------------------------------------
(* The handshake *)

\* News of a handshake, in the FIFO or in the probe, is news of one that happened.
KeyedInv ==
    /\ \A i \in 1..Len(fifo) : fifo[i].chan = "event" =>
           (fifo[i].type = "PSK_SUP" /\ fifo[i].status = Unsolicited => keyed)
    /\ pskStatus = Unsolicited => keyed
    /\ StopsOnlyWhenKeyed

\* At start there are no keys, and no event says so.
LEMMA KeyedInit == Init => KeyedInv
<1> SUFFICES ASSUME Init PROVE KeyedInv
    OBVIOUS
<1>1. fifo = <<>> /\ pskStatus # Unsolicited /\ pc # "mac"
    BY DEF Init, None, Unsolicited
<1> QED
    BY <1>1 DEF KeyedInv, StopsOnlyWhenKeyed

\* A step that learns nothing new, and does not stop retrying.
LEMMA KeyedOther ==
    ASSUME QueueTypes, KeyedInv, Shorter, UNCHANGED <<keyed, attempt>>,
           pskStatus' \in {pskStatus, None} \/ (pskStatus' = Unsolicited => keyed),
           pc' = pc \/ pc' # "mac"
    PROVE  KeyedInv'
<1>1. pskStatus' = Unsolicited => keyed
    BY DEF KeyedInv, None, Unsolicited
<1>2. StopsOnlyWhenKeyed'
    BY DEF KeyedInv, StopsOnlyWhenKeyed
<1>3. CASE fifo' = fifo
    BY <1>1, <1>2, <1>3 DEF KeyedInv
<1>4. CASE fifo # <<>> /\ fifo' = Tail(fifo)
    <2>1. \A i \in 1..Len(fifo') : fifo'[i] = fifo[i + 1] /\ i + 1 \in 1..Len(fifo)
        BY <1>4, TailElements DEF QueueTypes
    <2> QED
        BY <1>1, <1>2, <2>1 DEF KeyedInv
<1> QED
    BY <1>3, <1>4 DEF Shorter

\* The firmware queues news of a handshake once there was one.
LEMMA KeyedAppend ==
    ASSUME QueueTypes, KeyedInv, UNCHANGED <<pskStatus, pc, attempt>>, keyed => keyed',
           NEW f \in Frame, fifo' = Append(fifo, f),
           f.chan = "event" => (f.type = "PSK_SUP" /\ f.status = Unsolicited => keyed')
    PROVE  KeyedInv'
<1>1. /\ fifo \in Seq(Frame) /\ Len(fifo') = Len(fifo) + 1
      /\ \A i \in 1..Len(fifo') : fifo'[i] = IF i = Len(fifo) + 1 THEN f ELSE fifo[i]
    BY AppendElements DEF QueueTypes
<1>2. \A i \in 1..Len(fifo') : i = Len(fifo) + 1 \/ i \in 1..Len(fifo)
    BY <1>1
<1>3. StopsOnlyWhenKeyed'
    BY DEF KeyedInv, StopsOnlyWhenKeyed
<1> QED
    BY <1>1, <1>2, <1>3 DEF KeyedInv

\* The news of a handshake is queued by a firmware that has the keys, and passed on by the
\* probe: every step keeps that it is true.
LEMMA KeyedStep == QueueTypes /\ LeaseInv /\ KeyedInv /\ [Next]_vars => KeyedInv'
<1> SUFFICES ASSUME QueueTypes, LeaseInv, KeyedInv, [Next]_vars PROVE KeyedInv'
    OBVIOUS
<1> USE DEF joinVars, dhcpVars, fwVars, serverVars, probeVars
<1>1. CASE SendCommand
    <2>1. pc = "ssid" => KeyedInv'
        <3> SUFFICES ASSUME pc = "ssid" PROVE KeyedInv'
            OBVIOUS
        <3>1. UNCHANGED <<fifo, keyed>> /\ pskStatus' = None /\ pc' # "mac"
            BY <1>1 DEF SendCommand, CommandEnds
        <3> QED
            BY <3>1 DEF KeyedInv, StopsOnlyWhenKeyed, None, Unsolicited
    <2>2. pc # "ssid" => KeyedInv'
        <3> SUFFICES ASSUME pc # "ssid" PROVE KeyedInv'
            OBVIOUS
        <3>1. UNCHANGED <<fifo, keyed, attempt, pskStatus>> /\ (pc' = pc \/ pc' # "mac")
            BY <1>1 DEF SendCommand, CommandEnds, Commands
        <3> QED
            BY <3>1, KeyedOther DEF Shorter
    <2> QED
        BY <2>1, <2>2
<1>2. CASE PollAnswer
    <2>1. Shorter /\ UNCHANGED <<keyed, attempt, pskStatus>> /\ pc \in Commands
        BY <1>2 DEF PollAnswer, NoFrame, diag_f2RecvFrame, Shorter, QueueTypes
    <2>2. pc' = pc \/ CommandEnds("nothing") \/ CommandEnds(Payload(Head(fifo)))
        BY <1>2 DEF PollAnswer, NoFrame, diag_f2RecvFrame, TakeAnswer
    <2>3. pc' = pc \/ pc' # "mac"
        BY <2>1, <2>2 DEF CommandEnds, Commands
    <2> QED
        BY <2>1, <2>3, KeyedOther
<1>3. CASE WatchEvents
    <2>1. Shorter /\ UNCHANGED <<keyed, attempt, pc>>
        BY <1>3 DEF WatchEvents, NoFrame, diag_f2RecvFrame, Shorter
    <2>2. \/ UNCHANGED pskStatus
          \/ /\ fifo # <<>> /\ Head(fifo).chan = "event" /\ Head(fifo).type = "PSK_SUP"
             /\ pskStatus' = Head(fifo).status
        BY <1>3 DEF WatchEvents, NoFrame, diag_f2RecvFrame, HearEvent
    <2>3. fifo # <<>> => Head(fifo) = fifo[1] /\ 1 \in 1..Len(fifo)
        BY TailElements DEF QueueTypes
    <2>4. UNCHANGED pskStatus \/ (pskStatus' = Unsolicited => keyed)
        BY <2>2, <2>3 DEF KeyedInv
    <2> QED
        BY <2>1, <2>4, KeyedOther
<1>4. CASE AttemptEnds
    <2>1. /\ UNCHANGED <<fifo, keyed, attempt, pskStatus>>
          /\ pc' # "mac" \/ Connected \/ ~(attempt < Attempts)
        BY <1>4 DEF AttemptEnds
    <2>2. StopsOnlyWhenKeyed'
        BY <2>1 DEF KeyedInv, StopsOnlyWhenKeyed, Connected
    <2> QED
        BY <2>1, <2>2 DEF KeyedInv
<1>5. CASE diag_wifiRxDhcp
    <2>1. Shorter /\ UNCHANGED <<keyed, attempt, pskStatus, pc>>
        BY <1>5 DEF diag_wifiRxDhcp, NoFrame, diag_f2RecvFrame, Shorter
    <2> QED
        BY <2>1, KeyedOther
<1>6. CASE diag_wifiDataTx \/ RoundEnds
    <2>1. UNCHANGED <<fifo, keyed, attempt, pskStatus>>
        BY <1>6 DEF diag_wifiDataTx, RoundEnds
    <2>2. pc' # "mac" \/ pc' = pc
        <3>1. CASE diag_wifiDataTx
            BY <3>1 DEF diag_wifiDataTx
        <3>2. CASE RoundEnds /\ seen /\ want = "OFFER"
            BY <3>2 DEF RoundEnds
        <3>3. CASE RoundEnds /\ seen /\ want = "ACK"
            BY <3>3 DEF RoundEnds
        <3>4. CASE RoundEnds /\ ~seen
            BY <3>4 DEF RoundEnds, NextRound
        <3>5. want \in {"OFFER", "ACK"}
            BY DEF LeaseInv, Heard
        <3> QED
            BY <1>6, <3>1, <3>2, <3>3, <3>4, <3>5
    <2> QED
        BY <2>1, <2>2, KeyedOther DEF Shorter
<1>7. CASE FwAnswers
    <2>0. PICK ok \in BOOLEAN :
              Queue([chan |-> "control", id |-> Head(cmds).id, answers |-> Head(cmds).what, ok |-> ok])
        BY <1>7 DEF FwAnswers
    <2>1. /\ cmds # <<>> /\ UNCHANGED <<keyed, attempt, pskStatus, pc>>
          /\ fifo' = Append(fifo, [chan |-> "control", id |-> Head(cmds).id, answers |-> Head(cmds).what, ok |-> ok])
        BY <1>7, <2>0 DEF FwAnswers, Queue
    <2>2. Head(cmds) \in Command
        BY <2>1, TailElements DEF QueueTypes
    <2>3. [chan |-> "control", id |-> Head(cmds).id, answers |-> Head(cmds).what, ok |-> ok] \in Frame
        BY <2>0, <2>2 DEF Frame, Command
    <2> QED
        BY <2>1, <2>3, KeyedAppend
<1>8. CASE FwJoins
    <2>1. UNCHANGED <<attempt, pskStatus, pc>> /\ (keyed => keyed')
        BY <1>8 DEF FwJoins, FwEvent
    <2>2. \E f \in Frame : /\ fifo' = Append(fifo, f)
                           /\ f.type = "PSK_SUP" /\ f.status = Unsolicited => keyed'
        BY <1>8 DEF FwJoins, FwEvent, Queue, Frame, Unsolicited, PskFailed
    <2> QED
        BY <2>1, <2>2, KeyedAppend
<1>9. CASE FwDelivers
    <2>1. UNCHANGED <<keyed, attempt, pskStatus, pc>>
        BY <1>9 DEF FwDelivers
    <2>2. PICK r \in net \cup Foreign : fifo' = Append(fifo, [chan |-> "data", reply |-> r])
        BY <1>9 DEF FwDelivers, Queue
    <2>3. [chan |-> "data", reply |-> r] \in Frame
        BY <2>2 DEF Frame, QueueTypes, Sent, Foreign
    <2> QED
        BY <2>1, <2>2, <2>3, KeyedAppend
<1>10. CASE (\E s \in Servers : ServerOffers(s) \/ ServerAnswers(s)) \/ UNCHANGED vars
    <2>1. UNCHANGED <<fifo, keyed, attempt, pskStatus, pc>>
        BY <1>10 DEF ServerOffers, ServerAnswers, vars
    <2> QED
        BY <2>1, KeyedOther DEF Shorter
<1> QED
    BY <1>1, <1>2, <1>3, <1>4, <1>5, <1>6, <1>7, <1>8, <1>9, <1>10 DEF Next, Probe

\* The probe stops retrying early only if a handshake was completed, in whatever attempt
\* (diag_wifiJoin).
THEOREM KeyedSafety == Spec => []StopsOnlyWhenKeyed
<1>1. Init => QueueTypes /\ LeaseInv /\ KeyedInv
    BY TypesInit, LeaseInit, KeyedInit
<1>2. QueueTypes /\ LeaseInv /\ KeyedInv /\ [Next]_vars => (QueueTypes /\ LeaseInv /\ KeyedInv)'
    BY TypesStep, LeaseStep, KeyedStep
<1>3. KeyedInv => StopsOnlyWhenKeyed
    BY DEF KeyedInv
<1> QED
    BY <1>1, <1>2, <1>3, PTL DEF Spec

-----------------------------------------------------------------------------
(* Types and counters *)

Limit == IF want = "OFFER" THEN Discovers ELSE Requests

\* The ids count the commands: Setup of them, one for each attempt, and one for the address.
Numbers ==
    /\ attempt \in 0..Attempts
    /\ pc = "setup" => attempt = 0 /\ reqid \in 1..(IF waiting THEN Setup + 1 ELSE Setup)
    /\ pc \in {"ssid", "events"} => reqid = Setup + attempt + 1
    /\ pc = "ssid" /\ ~waiting => attempt < Attempts
    /\ pc = "mac" => reqid = Setup + attempt + (IF waiting THEN 2 ELSE 1)
    /\ pc \in {"send", "poll", "done"} => reqid = Setup + attempt + 2

\* A round that is begun is one of those there are.
Rounds ==
    /\ want \in {"OFFER", "ACK"} /\ round \in 0..Limit
    /\ pc \in {"send", "poll"} => round < Limit
    /\ pc \in Commands \cup {"events"} => want = "OFFER" /\ round = 0

\* The other variables of the probe, and those of the firmware, the air and the servers.
Locals ==
    /\ pc \in Commands \cup {"events", "send", "poll", "done"}
    /\ waiting \in BOOLEAN /\ (waiting => pc \in Commands)
    /\ polls \in 0..Polls
    /\ mac \in Payloads \cup {"unread", "nothing"}
Join ==
    /\ gotSet \in BOOLEAN /\ gotPsk \in BOOLEAN
    /\ setStatus \in {None, 0, NoNetworks} /\ pskStatus \in {None, Unsolicited, PskFailed}
Lease ==
    /\ seen \in BOOLEAN /\ reqip \in Addr /\ bound \in Addr
    /\ rx \in [type : DhcpTypes \cup {"none"}, ip : Addr, server : Addr, ours : BOOLEAN]
Numbered == [id : 1..MaxCommands, what : Commands]
Firmware ==
    /\ fifo \in Seq(Frame) /\ Len(fifo) <= Depth
    /\ cmds \in Seq(Numbered)
    /\ fw \in {"idle", "scanning", "associated", "up"} /\ keyed \in BOOLEAN
Air ==
    /\ air \subseteq {[type |-> "DISCOVER"]} \cup [type : {"REQUEST"}, ip : Addr, server : Addr]
    /\ net \subseteq Sent /\ offers \subseteq Servers /\ leases \subseteq Servers

TypeInv == Numbers /\ Rounds /\ Locals /\ Join /\ Lease /\ Firmware /\ Air

\* The probe starts with the invariant of the types, part by part.
LEMMA TypeInvInit == Init => TypeInv
<1> SUFFICES ASSUME Init PROVE TypeInv
    OBVIOUS
<1> USE CountsAssumption DEF Init
<1>1. Numbers
    BY DEF Numbers
<1>2. Rounds
    BY DEF Rounds, Limit
<1>3. Locals
    <2>1. pc = "setup" /\ waiting = FALSE /\ polls = 0 /\ mac = "unread"
        OBVIOUS
    <2>2. 0 \in 0..Polls
        OBVIOUS
    <2> QED
        BY ONLY <2>1, <2>2 DEF Locals, Commands
<1>4. Join
    BY DEF Join
<1>5. Lease
    BY DEF Lease, Addr
<1>6. Firmware
    <2>1. /\ fifo = <<>> /\ cmds = <<>> /\ fw = "idle" /\ keyed = FALSE /\ Depth \in Nat
        OBVIOUS
    <2>2. fifo \in Seq(Frame) /\ cmds \in Seq(Numbered)
        BY <2>1
    <2>3. Len(fifo) <= Depth
        BY <2>1
    <2> QED
        BY ONLY <2>1, <2>2, <2>3 DEF Firmware
<1>7. Air
    BY DEF Air
<1> QED
    BY <1>1, <1>2, <1>3, <1>4, <1>5, <1>6, <1>7 DEF TypeInv

\* The invariant of the types is stronger than TypeOK: it ties the request number to the
\* place in the sequence of commands.
LEMMA TypeInvType == TypeInv => TypeOK
<1> SUFFICES ASSUME TypeInv PROVE TypeOK
    OBVIOUS
<1>1. Numbers /\ Rounds /\ Locals /\ Join /\ Lease /\ Firmware /\ Air
    BY DEF TypeInv
<1>2. reqid \in 1..MaxCommands + 1 /\ attempt \in 0..Attempts
    BY <1>1, CountsAssumption DEF Numbers, Locals, Commands, MaxCommands
<1>3. want \in {"OFFER", "ACK"} /\ round \in 0..(IF want = "OFFER" THEN Discovers ELSE Requests)
    BY <1>1 DEF Rounds, Limit
<1>4. /\ pc \in Commands \cup {"events", "send", "poll", "done"}
      /\ waiting \in BOOLEAN /\ (waiting => pc \in Commands) /\ polls \in 0..Polls
      /\ mac \in Payloads \cup {"unread", "nothing"}
    BY <1>1 DEF Locals
<1>5. /\ gotSet \in BOOLEAN /\ gotPsk \in BOOLEAN
      /\ setStatus \in {None, 0, NoNetworks} /\ pskStatus \in {None, Unsolicited, PskFailed}
    BY <1>1 DEF Join
<1>6. /\ seen \in BOOLEAN /\ reqip \in Addr /\ bound \in Addr
      /\ rx \in [type : DhcpTypes \cup {"none"}, ip : Addr, server : Addr, ours : BOOLEAN]
    BY <1>1 DEF Lease
<1>7. /\ fifo \in Seq(Frame) /\ Len(fifo) <= Depth
      /\ cmds \in Seq([id : 1..MaxCommands, what : Commands])
      /\ fw \in {"idle", "scanning", "associated", "up"} /\ keyed \in BOOLEAN
    BY <1>1 DEF Firmware, Numbered
<1>8. /\ air \subseteq {[type |-> "DISCOVER"]} \cup [type : {"REQUEST"}, ip : Addr, server : Addr]
      /\ net \subseteq Sent /\ offers \subseteq Servers /\ leases \subseteq Servers
    BY <1>1 DEF Air
<1> QED
    BY <1>2, <1>3, <1>4, <1>5, <1>6, <1>7, <1>8 DEF TypeOK, Sent

\* What a poll leaves of the FIFO, and what the firmware adds to it.
LEMMA PollTypes ==
    ASSUME Firmware, Shorter, UNCHANGED fwVars PROVE Firmware'
<1>1. UNCHANGED <<cmds, fw, keyed>>
    BY DEF fwVars
<1>2. CASE fifo' = fifo
    BY <1>1, <1>2 DEF Firmware
<1>3. CASE fifo # <<>> /\ fifo' = Tail(fifo)
    <2>1. fifo' \in Seq(Frame) /\ Len(fifo') = Len(fifo) - 1 /\ Len(fifo) \in Nat
        BY <1>3, TailElements DEF Firmware
    <2>2. Len(fifo') <= Depth
        BY <2>1, CountsAssumption DEF Firmware
    <2> QED
        BY <1>1, <2>1, <2>2 DEF Firmware
<1> QED
    BY <1>2, <1>3 DEF Shorter

\* The firmware queues a frame only while the FIFO has room for it.
LEMMA QueueKeeps ==
    ASSUME fifo \in Seq(Frame), NEW f \in Frame, Queue(f)
    PROVE  fifo' \in Seq(Frame) /\ Len(fifo') <= Depth
<1>1. fifo' = Append(fifo, f) /\ Len(fifo) < Depth /\ Len(fifo) \in Nat
    BY DEF Queue
<1>2. fifo' \in Seq(Frame) /\ Len(fifo') = Len(fifo) + 1
    BY <1>1, AppendElements
<1> QED
    BY <1>1, <1>2, CountsAssumption

\* How a command ends, whatever ends it.
LEMMA CommandEndsTypes ==
    ASSUME pc \in Commands, CommandEnds("nothing") \/ \E a \in Payloads : CommandEnds(a),
           mac \in Payloads \cup {"unread", "nothing"}
    PROVE  Locals'
<1>1. PICK a \in Payloads \cup {"nothing"} : CommandEnds(a)
    OBVIOUS
<1>2. waiting' = FALSE /\ polls' \in {0, Polls} /\ mac' \in {mac, a}
    BY <1>1 DEF CommandEnds
<1>3. pc' \in {"setup", "ssid", "events", "send"}
    BY <1>1 DEF CommandEnds, Commands
<1>4. polls' \in 0..Polls
    BY <1>2, CountsAssumption
<1>5. mac' \in Payloads \cup {"unread", "nothing"}
    BY <1>1, <1>2
<1> QED
    BY ONLY <1>2, <1>3, <1>4, <1>5 DEF Locals, Commands

\* What only the probe, or only its surroundings, leave alone.
LEMMA SameCounts ==
    ASSUME Numbers, Rounds, Locals, UNCHANGED <<pc, waiting, reqid, attempt, round, want, polls, mac>>
    PROVE  Numbers' /\ Rounds' /\ Locals'
<1>1. Numbers'
    BY DEF Numbers
<1>2. Rounds'
    BY DEF Rounds, Limit
<1>3. Locals'
    BY DEF Locals
<1> QED
    BY <1>1, <1>2, <1>3

\* A step that leaves the join's flags alone keeps their types.
LEMMA SameJoin == ASSUME Join, UNCHANGED joinVars PROVE Join'
BY DEF Join, joinVars

\* A step that leaves the DHCP exchange alone keeps its types.
LEMMA SameLease == ASSUME Lease, UNCHANGED <<seen, rx, reqip, bound>> PROVE Lease'
BY DEF Lease

\* A step that leaves the firmware and its FIFO alone keeps their types.
LEMMA SameFirmware == ASSUME Firmware, UNCHANGED <<fifo, fwVars>> PROVE Firmware'
BY DEF Firmware, fwVars

\* A step that leaves the servers alone keeps their types.
LEMMA SameAir == ASSUME Air, UNCHANGED serverVars PROVE Air'
BY DEF Air, serverVars

\* Sending a command takes the next request number, which the sequence of commands bounds,
\* and keeps the types.
LEMMA SendCommandTypes == ASSUME TypeInv, SendCommand PROVE TypeInv'
<1>0. Numbers /\ Rounds /\ Locals /\ Join /\ Lease /\ Firmware /\ Air
    BY DEF TypeInv
<1>1. pc \in Commands /\ waiting = FALSE /\ reqid' = reqid + 1
    BY <1>0 DEF SendCommand, Locals
<1>2. UNCHANGED dhcpVars /\ UNCHANGED fifo /\ UNCHANGED keyed /\ UNCHANGED serverVars
    BY DEF SendCommand
<1>3. IF pc = "ssid" THEN attempt' = attempt + 1 ELSE attempt' = attempt
    BY DEF SendCommand, joinVars
<1>4. \/ waiting' = TRUE /\ polls' = Polls /\ pc' = pc /\ mac' = mac
      \/ CommandEnds("nothing")
    BY DEF SendCommand
<1>5. reqid \in 1..MaxCommands
    BY <1>0, <1>1, CountsAssumption DEF Numbers, MaxCommands, Commands
<1>6. Numbers'
    <2>1. \/ waiting' = TRUE /\ pc' = pc
          \/ /\ waiting' = FALSE
             /\ pc' = CASE pc = "setup" -> IF reqid' <= Setup THEN "setup" ELSE "ssid"
                        [] pc = "ssid" -> "events"
                        [] pc = "mac" -> "send"
        BY <1>4 DEF CommandEnds
    <2>2. CASE pc = "setup"
        <3>1. attempt' = 0 /\ 0 < Attempts /\ reqid \in 1..Setup
            BY <1>0, <1>1, <1>3, <2>2, CountsAssumption DEF Numbers
        <3>2. \/ waiting' = TRUE /\ pc' = "setup"
              \/ waiting' = FALSE /\ pc' = "setup" /\ reqid' <= Setup
              \/ waiting' = FALSE /\ pc' = "ssid" /\ ~(reqid' <= Setup)
            BY <2>1, <2>2
        <3> QED
            BY <1>1, <3>1, <3>2, CountsAssumption DEF Numbers
    <2>3. CASE pc = "ssid"
        <3>1. attempt' = attempt + 1 /\ reqid = Setup + attempt + 1 /\ attempt \in 0..Attempts
              /\ attempt < Attempts
            BY <1>0, <1>1, <1>3, <2>3 DEF Numbers
        <3>2. (waiting' = TRUE /\ pc' = "ssid") \/ (waiting' = FALSE /\ pc' = "events")
            BY <2>1, <2>3
        <3> QED
            BY <1>1, <3>1, <3>2, CountsAssumption DEF Numbers
    <2>4. CASE pc = "mac"
        <3>1. attempt' = attempt /\ reqid = Setup + attempt + 1 /\ attempt \in 0..Attempts
            BY <1>0, <1>1, <1>3, <2>4 DEF Numbers
        <3>2. (waiting' = TRUE /\ pc' = "mac") \/ (waiting' = FALSE /\ pc' = "send")
            BY <2>1, <2>4
        <3> QED
            BY <1>1, <3>1, <3>2, CountsAssumption DEF Numbers
    <2> QED
        BY <1>1, <2>2, <2>3, <2>4 DEF Commands
<1>7. Rounds'
    <2>1. want' = want /\ round' = round /\ want = "OFFER" /\ round = 0
        BY <1>0, <1>1, <1>2 DEF Rounds, dhcpVars
    <2> QED
        BY <2>1, CountsAssumption DEF Rounds, Limit
<1>8. Locals'
    <2>1. mac \in Payloads \cup {"unread", "nothing"}
        BY <1>0 DEF Locals
    <2>2. CASE waiting' = TRUE /\ polls' = Polls /\ pc' = pc /\ mac' = mac
        BY ONLY <1>1, <2>1, <2>2, CountsAssumption DEF Locals
    <2> QED
        BY <1>1, <1>4, <2>1, <2>2, CommandEndsTypes
<1>9. Join'
    <2>1. CASE pc = "ssid"
        BY <2>1 DEF SendCommand, Join
    <2>2. CASE pc # "ssid"
        BY <1>0, <2>2, SameJoin DEF SendCommand
    <2> QED
        BY <2>1, <2>2
<1>10. Firmware'
    <2>1. /\ cmds' = cmds \/ cmds' = Append(cmds, [id |-> reqid, what |-> pc])
          /\ fw' \in {fw, "scanning"}
        BY DEF SendCommand
    <2>2. [id |-> reqid, what |-> pc] \in Numbered
        BY <1>1, <1>5 DEF Numbered
    <2>3. cmds' \in Seq(Numbered)
        BY <1>0, <2>1, <2>2, AppendElements, SMTT(60) DEF Firmware
    <2> QED
        BY <1>0, <1>2, <2>1, <2>3 DEF Firmware
<1>11. Lease' /\ Air'
    BY <1>0, <1>2, SameLease, SameAir DEF dhcpVars
<1> QED
    BY <1>6, <1>7, <1>8, <1>9, <1>10, <1>11 DEF TypeInv

\* A poll for an answer, whether it finds the answer, another frame or nothing, keeps the
\* types.
LEMMA PollAnswerTypes == ASSUME TypeInv, PollAnswer PROVE TypeInv'
<1>0. Numbers /\ Rounds /\ Locals /\ Join /\ Lease /\ Firmware /\ Air
    BY DEF TypeInv
<1>1. waiting = TRUE /\ pc \in Commands
    BY <1>0 DEF PollAnswer, Locals
<1>2. UNCHANGED reqid /\ UNCHANGED joinVars /\ UNCHANGED dhcpVars /\ UNCHANGED fwVars /\ UNCHANGED serverVars
    BY DEF PollAnswer
<1>3. Shorter
    BY DEF PollAnswer, NoFrame, diag_f2RecvFrame, Shorter
<1>4. \/ polls > 0 /\ polls' = polls - 1 /\ UNCHANGED <<pc, waiting, mac>>
      \/ \E a \in Payloads : CommandEnds(a)
      \/ CommandEnds("nothing")
    <2>1. CASE NoFrame /\ UNCHANGED <<pc, waiting, mac>>
        BY <2>1 DEF NoFrame, diag_f2RecvFrame
    <2>2. CASE diag_f2RecvFrame(TRUE) /\ TakeAnswer(Head(fifo))
        <3>1. fifo # <<>> /\ polls > 0
            BY <2>2 DEF diag_f2RecvFrame
        <3>2. Head(fifo) \in Frame
            BY <1>0, <3>1, TailElements DEF Firmware
        <3>3. Answers(Head(fifo)) => Payload(Head(fifo)) \in Payloads
            <4>1. Answers(Head(fifo)) => Head(fifo).answers \in Commands
                BY <3>2 DEF Answers, Frame
            <4> QED
                BY <4>1 DEF Payload, Payloads
        <3> QED
            BY <2>2, <3>1, <3>3 DEF TakeAnswer
    <2> QED
        BY <2>1, <2>2 DEF PollAnswer
<1>5. Locals'
    <2>1. CASE polls > 0 /\ polls' = polls - 1 /\ UNCHANGED <<pc, waiting, mac>>
        BY <1>0, <2>1, CountsAssumption DEF Locals
    <2> QED
        BY <1>0, <1>1, <1>4, <2>1, CommandEndsTypes DEF Locals
<1>6. Numbers'
    <2>1. \/ UNCHANGED <<pc, waiting>>
          \/ /\ waiting' = FALSE
             /\ pc' = CASE pc = "setup" -> IF reqid' <= Setup THEN "setup" ELSE "ssid"
                        [] pc = "ssid" -> "events"
                        [] pc = "mac" -> "send"
        BY <1>4 DEF CommandEnds
    <2>2. reqid' = reqid /\ attempt' = attempt /\ attempt \in 0..Attempts
        BY <1>0, <1>2 DEF joinVars, Numbers
    <2>3. CASE pc = "setup"
        <3>1. attempt = 0 /\ 0 < Attempts /\ reqid \in 1..Setup + 1
            BY <1>0, <1>1, <2>3, CountsAssumption DEF Numbers
        <3>2. \/ waiting' = TRUE /\ pc' = "setup"
              \/ waiting' = FALSE /\ pc' = "setup" /\ reqid <= Setup
              \/ waiting' = FALSE /\ pc' = "ssid" /\ ~(reqid <= Setup)
            BY <1>1, <2>1, <2>2, <2>3
        <3> QED
            BY <2>2, <3>1, <3>2, CountsAssumption DEF Numbers
    <2>4. CASE pc = "ssid"
        <3>1. reqid = Setup + attempt + 1
            BY <1>0, <2>4 DEF Numbers
        <3>2. (waiting' = TRUE /\ pc' = "ssid") \/ (waiting' = FALSE /\ pc' = "events")
            BY <1>1, <2>1, <2>4
        <3> QED
            BY <2>2, <3>1, <3>2 DEF Numbers
    <2>5. CASE pc = "mac"
        <3>1. reqid = Setup + attempt + 2
            BY <1>0, <1>1, <2>5 DEF Numbers
        <3>2. (waiting' = TRUE /\ pc' = "mac") \/ (waiting' = FALSE /\ pc' = "send")
            BY <1>1, <2>1, <2>5
        <3> QED
            BY <2>2, <3>1, <3>2 DEF Numbers
    <2> QED
        BY <1>1, <2>3, <2>4, <2>5 DEF Commands
<1>7. Rounds'
    <2>1. want' = want /\ round' = round /\ want = "OFFER" /\ round = 0
        BY <1>0, <1>1, <1>2 DEF Rounds, dhcpVars
    <2> QED
        BY <2>1, CountsAssumption DEF Rounds, Limit
<1>8. Firmware'
    BY <1>0, <1>2, <1>3, PollTypes
<1>9. Join' /\ Lease' /\ Air'
    BY <1>0, <1>2, SameJoin, SameLease, SameAir DEF dhcpVars
<1> QED
    BY <1>5, <1>6, <1>7, <1>8, <1>9 DEF TypeInv

\* Watching the join's events keeps the types.
LEMMA WatchEventsTypes == ASSUME TypeInv, WatchEvents PROVE TypeInv'
<1>0. Numbers /\ Rounds /\ Locals /\ Join /\ Lease /\ Firmware /\ Air
    BY DEF TypeInv
<1>1. UNCHANGED <<pc, waiting, reqid, attempt, mac>> /\ UNCHANGED dhcpVars /\ UNCHANGED fwVars
      /\ UNCHANGED serverVars
    BY DEF WatchEvents
<1>2. Shorter /\ polls > 0 /\ polls' = polls - 1
    BY DEF WatchEvents, NoFrame, diag_f2RecvFrame, HearEvent, Shorter
<1>3. Numbers' /\ Rounds'
    BY <1>0, <1>1 DEF Numbers, Rounds, Limit, dhcpVars
<1>4. Locals'
    BY <1>0, <1>1, <1>2, CountsAssumption DEF Locals
<1>5. Join'
    <2>1. CASE UNCHANGED <<gotSet, gotPsk, setStatus, pskStatus>>
        BY <1>0, <2>1 DEF Join
    <2>2. CASE diag_f2RecvFrame(TRUE) /\ HearEvent(Head(fifo))
        <3>1. Head(fifo) \in Frame
            BY <1>0, <2>2, TailElements DEF Firmware, diag_f2RecvFrame
        <3>2. Head(fifo).chan = "event" =>
                  /\ Head(fifo).type = "SET_SSID" => Head(fifo).status \in {0, NoNetworks}
                  /\ Head(fifo).type = "PSK_SUP" => Head(fifo).status \in {Unsolicited, PskFailed}
            BY <3>1 DEF Frame
        <3>3. \/ gotSet' = TRUE /\ setStatus' \in {0, NoNetworks}
              \/ UNCHANGED <<gotSet, setStatus>>
            BY <2>2, <3>2 DEF HearEvent
        <3>4. \/ gotPsk' = TRUE /\ pskStatus' \in {Unsolicited, PskFailed}
              \/ UNCHANGED <<gotPsk, pskStatus>>
            BY <2>2, <3>2 DEF HearEvent
        <3> QED
            BY <1>0, <3>3, <3>4 DEF Join
    <2> QED
        BY <2>1, <2>2 DEF WatchEvents
<1>6. Firmware' /\ Lease' /\ Air'
    BY <1>0, <1>1, <1>2, PollTypes, SameLease, SameAir DEF dhcpVars
<1> QED
    BY <1>3, <1>4, <1>5, <1>6 DEF TypeInv

\* The end of a join attempt, with another one to come or not, keeps the types.
LEMMA AttemptEndsTypes == ASSUME TypeInv, AttemptEnds PROVE TypeInv'
<1>0. Numbers /\ Rounds /\ Locals /\ Join /\ Lease /\ Firmware /\ Air
    BY DEF TypeInv
<1>1. /\ UNCHANGED <<waiting, reqid, mac, fifo>> /\ UNCHANGED joinVars /\ UNCHANGED dhcpVars
      /\ UNCHANGED fwVars /\ UNCHANGED serverVars
      /\ pc = "events" /\ polls' = 0
    BY DEF AttemptEnds
<1>2. (pc' = "ssid" /\ attempt < Attempts) \/ pc' = "mac"
    BY DEF AttemptEnds
<1>3. waiting = FALSE
    BY <1>0, <1>1 DEF Locals, Commands
<1>4. Numbers'
    <2>1. reqid' = Setup + attempt + 1 /\ attempt' = attempt /\ attempt \in 0..Attempts /\ waiting' = FALSE
        BY <1>0, <1>1, <1>3 DEF Numbers, joinVars
    <2> QED
        BY <1>2, <2>1 DEF Numbers
<1>5. Rounds'
    <2>1. want' = want /\ round' = round /\ want = "OFFER" /\ round = 0
        BY <1>0, <1>1 DEF Rounds, dhcpVars
    <2> QED
        BY <1>2, <2>1, CountsAssumption DEF Rounds, Limit
<1>6. Locals'
    <2>1. waiting' = FALSE /\ polls' \in 0..Polls /\ mac' \in Payloads \cup {"unread", "nothing"}
        BY <1>0, <1>1, <1>3, CountsAssumption DEF Locals
    <2> QED
        BY ONLY <1>2, <2>1 DEF Locals, Commands
<1>7. Join' /\ Lease' /\ Firmware' /\ Air'
    BY <1>0, <1>1, SameJoin, SameLease, SameFirmware, SameAir DEF dhcpVars
<1> QED
    BY <1>4, <1>5, <1>6, <1>7 DEF TypeInv

\* Sending a DHCP message (diag_wifiDataTx) keeps the types.
LEMMA WifiDataTxTypes == ASSUME TypeInv, diag_wifiDataTx PROVE TypeInv'
<1>0. Numbers /\ Rounds /\ Locals /\ Join /\ Lease /\ Firmware /\ Air
    BY DEF TypeInv
<1>1. /\ UNCHANGED <<waiting, reqid, mac, fifo, round, want, rx, reqip, bound, net, offers, leases>>
      /\ UNCHANGED joinVars /\ UNCHANGED fwVars
      /\ pc = "send" /\ pc' = "poll" /\ polls' = Polls /\ seen' = FALSE
    BY DEF diag_wifiDataTx
<1>2. Numbers'
    BY <1>0, <1>1 DEF Numbers, joinVars
<1>3. Rounds'
    BY <1>0, <1>1 DEF Rounds, Limit, Commands
<1>4. Locals'
    <2>1. waiting' = FALSE /\ polls' \in 0..Polls /\ mac' \in Payloads \cup {"unread", "nothing"}
        BY <1>0, <1>1, CountsAssumption DEF Locals, Commands
    <2> QED
        BY ONLY <1>1, <2>1 DEF Locals, Commands
<1>5. Lease'
    BY <1>0, <1>1 DEF Lease
<1>6. Air'
    <2>1. Request \in [type : {"REQUEST"}, ip : Addr, server : Addr]
        BY <1>0 DEF Request, Lease
    <2>2. air' \subseteq air \cup {[type |-> "DISCOVER"], Request}
        BY DEF diag_wifiDataTx
    <2> QED
        BY <1>0, <1>1, <2>1, <2>2 DEF Air
<1>7. Join' /\ Firmware'
    BY <1>0, <1>1, SameJoin, SameFirmware
<1> QED
    BY <1>2, <1>3, <1>4, <1>5, <1>6, <1>7 DEF TypeInv

\* Receiving a DHCP message (diag_wifiRxDhcp) keeps the types.
LEMMA WifiRxDhcpTypes == ASSUME TypeInv, diag_wifiRxDhcp PROVE TypeInv'
<1>0. Numbers /\ Rounds /\ Locals /\ Join /\ Lease /\ Firmware /\ Air
    BY DEF TypeInv
<1>1. /\ UNCHANGED <<pc, waiting, reqid, mac, round, want, reqip, bound>> /\ UNCHANGED joinVars
      /\ UNCHANGED fwVars /\ UNCHANGED serverVars
    BY DEF diag_wifiRxDhcp
<1>2. Shorter /\ polls > 0 /\ polls' = polls - 1
    BY DEF diag_wifiRxDhcp, NoFrame, diag_f2RecvFrame, TakeReply, Shorter
<1>3. Numbers' /\ Rounds'
    BY <1>0, <1>1 DEF Numbers, Rounds, Limit, joinVars
<1>4. Locals'
    BY <1>0, <1>1, <1>2, CountsAssumption DEF Locals
<1>5. Lease'
    <2>1. CASE UNCHANGED <<rx, seen>>
        BY <1>0, <1>1, <2>1 DEF Lease
    <2>2. CASE diag_f2RecvFrame(TRUE) /\ TakeReply(Head(fifo)) /\ ~UNCHANGED <<rx, seen>>
        <3>1. Head(fifo) \in Frame /\ Head(fifo).chan = "data"
            BY <1>0, <2>2, TailElements DEF Firmware, diag_f2RecvFrame, TakeReply
        <3>2. Head(fifo).reply \in DhcpReply
            BY <3>1 DEF Frame
        <3>3. rx' = Head(fifo).reply /\ seen' = (Head(fifo).reply.type = want)
            BY <2>2, <3>1 DEF TakeReply
        <3>4. seen' \in BOOLEAN
            BY <3>3, Zenon
        <3>5. rx' \in [type : DhcpTypes \cup {"none"}, ip : Addr, server : Addr, ours : BOOLEAN]
            BY <3>2, <3>3 DEF DhcpReply, Addr
        <3> QED
            BY <1>0, <1>1, <3>4, <3>5 DEF Lease
    <2> QED
        BY <2>1, <2>2 DEF diag_wifiRxDhcp
<1>6. Join' /\ Firmware' /\ Air'
    BY <1>0, <1>1, <1>2, SameJoin, PollTypes, SameAir
<1> QED
    BY <1>3, <1>4, <1>5, <1>6 DEF TypeInv

\* The end of a DHCP round, with a reply in hand or not, keeps the types.
LEMMA RoundEndsTypes == ASSUME TypeInv, RoundEnds PROVE TypeInv'
<1>0. Numbers /\ Rounds /\ Locals /\ Join /\ Lease /\ Firmware /\ Air
    BY DEF TypeInv
<1>1. /\ UNCHANGED <<waiting, polls, reqid, mac, seen, rx, fifo>> /\ UNCHANGED joinVars
      /\ UNCHANGED fwVars /\ UNCHANGED serverVars
      /\ pc = "poll"
    BY DEF RoundEnds
<1>2. \/ want = "OFFER" /\ reqip' = rx.ip /\ want' = "ACK" /\ round' = 0 /\ pc' = "send" /\ UNCHANGED bound
      \/ bound' = rx.ip /\ pc' = "done" /\ UNCHANGED <<reqip, want, round>>
      \/ NextRound /\ UNCHANGED <<reqip, want, bound>>
    <2>1. want = "OFFER" \/ want = "ACK"
        BY <1>0 DEF Rounds
    <2>2. CASE seen /\ want = "OFFER"
        BY <2>2 DEF RoundEnds
    <2>3. CASE seen /\ want = "ACK"
        BY <2>3 DEF RoundEnds
    <2>4. CASE ~seen
        BY <2>4 DEF RoundEnds
    <2> QED
        BY <2>1, <2>2, <2>3, <2>4
<1>3. NextRound => round' = round + 1 /\ (pc' = "done" \/ (pc' = "send" /\ round + 1 < Limit))
    BY DEF NextRound, Limit
<1>4. pc' \in {"send", "done"}
    BY <1>2, <1>3
<1>5. Numbers'
    BY <1>0, <1>1, <1>4 DEF Numbers, joinVars
<1>6. Rounds'
    <2>1. want \in {"OFFER", "ACK"} /\ round \in 0..Limit /\ round < Limit /\ Limit \in Nat
        BY <1>0, <1>1, CountsAssumption DEF Rounds, Limit
    <2>2. CASE want' = "ACK" /\ round' = 0 /\ pc' = "send"
        BY <2>2, CountsAssumption DEF Rounds, Limit, Commands
    <2>3. CASE pc' = "done" /\ UNCHANGED <<want, round>>
        BY <1>0, <2>3 DEF Rounds, Limit, Commands
    <2>4. CASE NextRound /\ UNCHANGED want
        <3>1. Limit' = Limit
            BY <2>4 DEF Limit
        <3>2. round' = round + 1 /\ round' \in 0..Limit
            BY <1>3, <2>1, <2>4
        <3> QED
            BY <1>3, <2>1, <2>4, <3>1, <3>2 DEF Rounds, Commands
    <2> QED
        BY <1>2, <2>2, <2>3, <2>4
<1>7. Locals'
    <2>1. waiting' = FALSE /\ polls' \in 0..Polls /\ mac' \in Payloads \cup {"unread", "nothing"}
        BY <1>0, <1>1 DEF Locals, Commands
    <2> QED
        BY ONLY <1>4, <2>1 DEF Locals, Commands
<1>8. Lease'
    <2>1. rx.ip \in Addr /\ reqip \in Addr /\ bound \in Addr
        BY <1>0 DEF Lease
    <2>2. reqip' \in Addr /\ bound' \in Addr
        BY <1>2, <2>1
    <2> QED
        BY <1>0, <1>1, <2>2 DEF Lease
<1>9. Join' /\ Firmware' /\ Air'
    BY <1>0, <1>1, SameJoin, SameFirmware, SameAir
<1> QED
    BY <1>5, <1>6, <1>7, <1>8, <1>9 DEF TypeInv

\* The firmware's answers, its events and the frames it delivers keep the types.
LEMMA FirmwareTypes == ASSUME TypeInv, FwAnswers \/ FwJoins \/ FwDelivers PROVE TypeInv'
<1>0. Numbers /\ Rounds /\ Locals /\ Join /\ Lease /\ Firmware /\ Air
    BY DEF TypeInv
<1>1. UNCHANGED probeVars /\ UNCHANGED serverVars
    BY DEF FwAnswers, FwJoins, FwEvent, FwDelivers
<1>2. UNCHANGED <<pc, waiting, reqid, attempt, round, want, polls, mac>> /\ UNCHANGED joinVars
      /\ UNCHANGED <<seen, rx, reqip, bound>>
    BY <1>1 DEF probeVars, joinVars, dhcpVars
<1>3. Numbers' /\ Rounds' /\ Locals' /\ Join' /\ Lease' /\ Air'
    BY <1>0, <1>1, <1>2, SameCounts, SameJoin, SameLease, SameAir
<1>4. CASE FwAnswers
    <2>0. PICK ok \in BOOLEAN :
              Queue([chan |-> "control", id |-> Head(cmds).id, answers |-> Head(cmds).what, ok |-> ok])
        BY <1>4 DEF FwAnswers
    <2>1. cmds # <<>> /\ cmds' = Tail(cmds) /\ UNCHANGED <<fw, keyed>>
        BY <1>4 DEF FwAnswers
    <2>2. cmds' \in Seq(Numbered) /\ Head(cmds) \in Numbered
        BY <1>0, <2>1, TailElements DEF Firmware
    <2>3. [chan |-> "control", id |-> Head(cmds).id, answers |-> Head(cmds).what, ok |-> ok] \in Frame
        BY <2>0, <2>2 DEF Numbered, Frame
    <2>4. fifo' \in Seq(Frame) /\ Len(fifo') <= Depth
        BY <1>0, <2>0, <2>3, QueueKeeps DEF Firmware
    <2>5. Firmware'
        BY <1>0, <2>1, <2>2, <2>4 DEF Firmware
    <2> QED
        BY <1>3, <2>5 DEF TypeInv
<1>5. CASE FwJoins
    <2>1. \E type \in {"SET_SSID", "PSK_SUP"}, status \in {0, NoNetworks, Unsolicited, PskFailed} :
              /\ [chan |-> "event", type |-> type, status |-> status] \in Frame
              /\ Queue([chan |-> "event", type |-> type, status |-> status])
        BY <1>5 DEF FwJoins, FwEvent, Frame
    <2>2. fifo' \in Seq(Frame) /\ Len(fifo') <= Depth
        BY <1>0, <2>1, QueueKeeps DEF Firmware
    <2>3. cmds' = cmds /\ fw' \in {"idle", "associated", "up"} /\ keyed' \in {keyed, TRUE}
        BY <1>5 DEF FwJoins, FwEvent
    <2>4. Firmware'
        BY <1>0, <2>2, <2>3 DEF Firmware
    <2> QED
        BY <1>3, <2>4 DEF TypeInv
<1>6. CASE FwDelivers
    <2>1. PICK r \in net \cup Foreign : Queue([chan |-> "data", reply |-> r])
        BY <1>6 DEF FwDelivers
    <2>2. [chan |-> "data", reply |-> r] \in Frame
        BY <1>0, <2>1 DEF Frame, Air, Sent, Foreign
    <2>3. fifo' \in Seq(Frame) /\ Len(fifo') <= Depth
        BY <1>0, <2>1, <2>2, QueueKeeps DEF Firmware
    <2>4. UNCHANGED fwVars
        BY <1>6 DEF FwDelivers
    <2>5. Firmware'
        BY <1>0, <2>3, <2>4 DEF Firmware, fwVars
    <2> QED
        BY <1>3, <2>5 DEF TypeInv
<1> QED
    BY <1>4, <1>5, <1>6

\* The servers' offers and acknowledgements keep the types.
LEMMA ServerTypes == ASSUME TypeInv, NEW s \in Servers, ServerOffers(s) \/ ServerAnswers(s) PROVE TypeInv'
<1>0. Numbers /\ Rounds /\ Locals /\ Join /\ Lease /\ Firmware /\ Air
    BY DEF TypeInv
<1>1. UNCHANGED probeVars /\ UNCHANGED fifo /\ UNCHANGED fwVars /\ air' = air
    BY DEF ServerOffers, ServerAnswers
<1>2. UNCHANGED <<pc, waiting, reqid, attempt, round, want, polls, mac>> /\ UNCHANGED joinVars
      /\ UNCHANGED <<seen, rx, reqip, bound>>
    BY <1>1 DEF probeVars, joinVars, dhcpVars
<1>3. Numbers' /\ Rounds' /\ Locals' /\ Join' /\ Lease' /\ Firmware'
    BY <1>0, <1>1, <1>2, SameCounts, SameJoin, SameLease, SameFirmware
<1>4. Air'
    <2>1. \A t \in DhcpTypes, a \in Addr : [type |-> t, ip |-> a, server |-> s, ours |-> TRUE] \in Sent
        BY DEF DhcpReply, Sent
    <2>2. net' \subseteq net \cup {[type |-> t, ip |-> a, server |-> s, ours |-> TRUE] : t \in DhcpTypes, a \in Addr}
        BY DEF ServerOffers, ServerAnswers, DhcpTypes, Addr
    <2>3. offers' \subseteq offers \cup {s} /\ leases' \subseteq leases \cup {s}
        BY DEF ServerOffers, ServerAnswers
    <2> QED
        BY <1>0, <1>1, <2>1, <2>2, <2>3 DEF Air
<1> QED
    BY <1>3, <1>4 DEF TypeInv

\* Every step keeps the invariant of the types.
LEMMA TypeInvStep == TypeInv /\ [Next]_vars => TypeInv'
<1> SUFFICES ASSUME TypeInv, [Next]_vars PROVE TypeInv'
    OBVIOUS
<1>1. CASE UNCHANGED vars
    <2>1. UNCHANGED probeVars /\ UNCHANGED <<fifo, fwVars>> /\ UNCHANGED serverVars
        BY <1>1 DEF vars, probeVars
    <2>2. UNCHANGED <<pc, waiting, reqid, attempt, round, want, polls, mac>> /\ UNCHANGED joinVars
          /\ UNCHANGED <<seen, rx, reqip, bound>>
        BY <2>1 DEF probeVars, joinVars, dhcpVars
    <2> QED
        BY <2>1, <2>2, SameCounts, SameJoin, SameLease, SameFirmware, SameAir DEF TypeInv
<1> QED
    BY <1>1, SendCommandTypes, PollAnswerTypes, WatchEventsTypes, AttemptEndsTypes,
       WifiDataTxTypes, WifiRxDhcpTypes, RoundEndsTypes, FirmwareTypes, ServerTypes
    DEF Next, Probe

\* Command ids, attempts, rounds and polls stay inside their bounds, and every frame the probe
\* takes apart is of one of the kinds it knows (diag_bcdcCmd, diag_wifiJoin).
THEOREM TypeCorrect == Spec => []TypeOK
<1> QED
    BY TypeInvInit, TypeInvStep, TypeInvType, PTL DEF Spec

=============================================================================
