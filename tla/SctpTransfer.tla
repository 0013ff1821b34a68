---------------------------- MODULE SctpTransfer ----------------------------
(***************************************************************************)
(* Data transfer over an established association, in one direction: a      *)
(* sender, a network that reorders and loses packets, and a receiver.      *)
(* Every "await sendChunk" of the sender's transmit loop is a point where  *)
(* a SACK, a T3 expiry or another send() comes in between.                 *)
(***************************************************************************)
EXTENDS SctpSender

CONSTANTS
    InitialTsn,  \* the sender's initial TSN
    Scenarios    \* what is sent over which network: records of the messages,
                 \* in the order send() gets them, and a budget

\* The bounds of a scenario: packets the network loses, T3 expiries with a
\* packet under way, and T3 expiries while transmit() awaits the transport.
Budget == [losses : Nat, lateAcks : Nat, timerRaces : Nat]

ASSUME TransferAssumption ==
    /\ InitialTsn \in 0 .. TsnMod - 1
    /\ \A sc \in Scenarios :
         /\ sc.budget \in Budget
         /\ \A i \in DOMAIN sc.messages :
              sc.messages[i].streamId \in Streams /\ sc.messages[i].length > 0

VARIABLES
    scenario,  \* the one of Scenarios that is played
    snd,       \* the sender
    rcv,       \* the receiver
    accepted,  \* how many messages send() has taken
    packets,   \* DATA and FORWARD-TSN packets in the network
    sacks,     \* SACK packets in the network
    budget     \* what is left of the scenario's losses, lateAcks and timerRaces

vars == <<scenario, snd, rcv, accepted, packets, sacks, budget>>

Messages == scenario.messages

Init ==
    /\ scenario \in Scenarios
    /\ snd = NewSender(InitialTsn)
    /\ rcv = NewReceiver(InitialTsn)
    /\ accepted = 0
    /\ packets = {} /\ sacks = {}
    /\ budget = scenario.budget

\* A step of the sender leaves in state s; what it sends enters the network.
SenderStep(s) ==
    /\ snd' = [s EXCEPT !.out = NoChunk]
    /\ packets' = IF s.out = NoChunk THEN packets ELSE packets \cup {s.out}

SendMessage ==
    /\ accepted < Len(Messages)
    /\ SenderStep(Send(snd, Messages[accepted + 1]))
    /\ accepted' = accepted + 1
    /\ UNCHANGED <<scenario, rcv, sacks, budget>>

Continue ==
    /\ snd.pc # "idle"
    /\ SenderStep(TransmitContinue(snd))
    /\ UNCHANGED <<scenario, rcv, accepted, sacks, budget>>

\* T3 fires when everything on the way is lost, and, within the bounds, while
\* an answer is under way or while the transmit loop awaits the transport.
Quiet == packets = {} /\ sacks = {} /\ snd.pc = "idle"
Timer3Fires ==
    /\ snd.timer3
    /\ SenderStep(Timer3Expired(snd))
    /\ UNCHANGED <<scenario, rcv, accepted, sacks>>
Timer3 == Quiet /\ Timer3Fires /\ UNCHANGED budget
Timer3BeforeAnswer ==
    /\ snd.pc = "idle" /\ ~Quiet
    /\ budget.lateAcks > 0
    /\ budget' = [budget EXCEPT !.lateAcks = @ - 1]
    /\ Timer3Fires
Timer3DuringTransmit ==
    /\ snd.pc # "idle"
    /\ budget.timerRaces > 0
    /\ budget' = [budget EXCEPT !.timerRaces = @ - 1]
    /\ Timer3Fires

ReceiveSack(sack) ==
    /\ LET s == ReceiveSackChunk(snd, sack)
       IN /\ snd' = [s EXCEPT !.out = NoChunk]
          /\ packets' = IF s.out = NoChunk THEN packets ELSE packets \cup {s.out}
    /\ sacks' = sacks \ {sack}
    /\ UNCHANGED <<scenario, rcv, accepted, budget>>

\* handleData: the chunk is processed and the SACK goes out at once.
IsData(packet) == "tsn" \in DOMAIN packet
ReceivePacket(packet) ==
    /\ rcv' = IF IsData(packet) THEN ReceiveDataChunk(rcv, packet)
              ELSE ReceiveForwardTsnChunk(rcv, packet)
    /\ sacks' = IF SackCanBeSent(rcv') THEN sacks \cup {SackOf(rcv')} ELSE sacks
    /\ packets' = packets \ {packet}
    /\ UNCHANGED <<scenario, snd, accepted, budget>>

LosePacket(packet) ==
    /\ budget.losses > 0
    /\ packets' = packets \ {packet}
    /\ budget' = [budget EXCEPT !.losses = @ - 1]
    /\ UNCHANGED <<scenario, snd, rcv, accepted, sacks>>

LoseSack(sack) ==
    /\ budget.losses > 0
    /\ sacks' = sacks \ {sack}
    /\ budget' = [budget EXCEPT !.losses = @ - 1]
    /\ UNCHANGED <<scenario, snd, rcv, accepted, packets>>

Arrival ==
    \/ \E packet \in packets : ReceivePacket(packet)
    \/ \E sack \in sacks : ReceiveSack(sack)
Next ==
    \/ SendMessage \/ Continue \/ Arrival
    \/ Timer3 \/ Timer3BeforeAnswer \/ Timer3DuringTransmit
    \/ \E packet \in packets : LosePacket(packet)
    \/ \E sack \in sacks : LoseSack(sack)

Spec == Init /\ [][Next]_vars

(***************************************************************************)
(* The application sends, promises of the transport settle, T3 fires when  *)
(* it is armed, and what is not lost arrives.  Each conjunct is the weak   *)
(* fairness of an action, with the action's guard for ENABLED, which every *)
(* step of the action makes false or changes the state of.                 *)
(***************************************************************************)
FairSpec ==
    /\ Spec
    /\ []<>(accepted = Len(Messages)) \/ []<><<SendMessage>>_vars
    /\ []<>(snd.pc = "idle") \/ []<><<Continue>>_vars
    /\ []<>~(Quiet /\ snd.timer3) \/ []<><<Timer3>>_vars
    /\ []<>(packets \cup sacks = {}) \/ []<><<Arrival>>_vars

-----------------------------------------------------------------------------

\* The chunks of each message, and the number of the message a delivery is.
AllChunksOf ==
    [sc \in Scenarios |-> [n \in DOMAIN sc.messages |->
       LET before == FoldLeft(Enqueue, NewOutbound(InitialTsn), SubSeq(sc.messages, 1, n - 1))
       IN SubSeq(Enqueue(before, sc.messages[n]).outboundQueue,
                 Len(before.outboundQueue) + 1,
                 Len(before.outboundQueue) + FragmentCount(sc.messages[n]))]]
ChunksOf(n) == AllChunksOf[scenario][n]
Cut == UNION {ToSet(ChunksOf(n)) : n \in 1 .. accepted}
NumberOf(delivery) == CHOOSE n \in DOMAIN Messages : ChunksOf(n) = delivery
Received == [k \in DOMAIN rcv.delivered |-> NumberOf(rcv.delivered[k])]
Reliable == \A n \in DOMAIN Messages : Messages[n].maxRetransmits = NoLimit

Queued(s) == {s.sentQueue[i].chunk : i \in DOMAIN s.sentQueue}
               \cup ToSet(s.outbound.outboundQueue)

\* The sender's and the receiver's state have their types.
TypeOK ==
    /\ snd.flightSize \in Nat /\ snd.cwnd \in Nat \ {0} /\ snd.partialBytesAcked \in Nat
    /\ \A i \in DOMAIN snd.sentQueue : /\ snd.sentQueue[i].misses \in 0 .. 2
                                        /\ snd.sentQueue[i].sentCount \in 1 .. MaxSentCount
                                        /\ ~snd.sentQueue[i].abandoned
    /\ snd.pc \in {"idle", "forward", "retransmit", "drain"}
    /\ rcv.lastReceivedTsn \in -1 .. TsnMod - 1
    /\ accepted \in 0 .. Len(Messages)
    /\ budget \in Budget

\* A chunk leaves the sender's queues only when the receiver has it; one of
\* an unreliable message also when it was given up and a FORWARD-TSN covers it.
DroppedOnlyWhenReceived ==
    \A chunk \in Cut \ Queued(snd) :
        \/ IsDuplicate(rcv, chunk.tsn)
        \/ chunk.maxRetransmits # NoLimit /\ TsnGte(snd.advancedPeerAckTsn, chunk.tsn)

\* A message with maxRetransmits is sent at most that many times again.
RetransmitsLimited ==
    \A i \in DOMAIN snd.sentQueue :
        LET limit == snd.sentQueue[i].chunk.maxRetransmits
        IN limit # NoLimit => snd.sentQueue[i].sentCount <= limit + 1

\* Ordered messages of a stream are never received out of order, also when
\* some are given up.
ReceivedInOrder ==
    \A k, l \in DOMAIN Received : k < l =>
        LET m == Messages[Received[k]]
            n == Messages[Received[l]]
        IN m.ordered /\ n.ordered /\ m.streamId = n.streamId => Received[k] < Received[l]

\* T3 is armed whenever data is outstanding and the transmit loop is not about
\* to arm it: no interleaving of SACKs and sends leaves data without a timer.
OutstandingIsTimed == snd.sentQueue # <<>> /\ snd.pc = "idle" => snd.timer3

\* The sender never stops with data queued: when nothing is under way, no
\* timer armed and the transmit loop at rest, the outbound queue is empty.
NoStall == Quiet /\ ~snd.timer3 => snd.outbound.outboundQueue = <<>>

\* One reliable ordered stream is a FIFO channel: whatever is lost, late or
\* reordered, the messages send() took are received in that order.  (A plan
\* with unreliable messages is held to ReceivedInOrder only.)
Channel == INSTANCE FifoChannel WITH received <- IF Reliable THEN Received ELSE <<>>
ImplementsFifoChannel == Channel!Spec

\* Every message of a reliable stream is delivered in the end, and the sender
\* comes to rest: its queues are empty and T3 is off.
EverythingDelivered ==
    Reliable => <>[](/\ ToSet(Received) = DOMAIN Messages
                     /\ snd.sentQueue = <<>> /\ snd.outbound.outboundQueue = <<>>
                     /\ ~snd.timer3)

\* The sender never gives up what it must keep nor sends what it gave up, and
\* order survives both.
TransferSafe == TypeOK /\ DroppedOnlyWhenReceived /\ RetransmitsLimited /\ ReceivedInOrder

\* The sender is never left waiting for nothing.
NeverStuck == OutstandingIsTimed /\ NoStall
=============================================================================
