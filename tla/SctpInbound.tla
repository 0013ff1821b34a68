----------------------------- MODULE SctpInbound -----------------------------
(***************************************************************************)
(* The receiver of one direction of an association against every network:  *)
(* the peer has sent the chunks of Messages, in consecutive TSNs, and they *)
(* arrive in any order, some of them more than once, with FORWARD-TSNs     *)
(* for the messages the peer gives up.                                     *)
(***************************************************************************)
EXTENDS SctpFragments

CONSTANTS
    Scenarios,      \* what the peer sends: records of a message sequence and
                    \* the initial TSN it draws
    MaxDuplicates   \* bound: how many chunks arrive again

ASSUME InboundAssumption ==
    /\ MaxDuplicates \in Nat
    /\ \A sc \in Scenarios :
         /\ sc.initialTsn \in 0 .. TsnMod - 1
         /\ \A i \in DOMAIN sc.messages : sc.messages[i].streamId \in Streams

VARIABLES
    scenario,    \* the one of Scenarios that is played
    rcv,         \* the receiver
    arrived,     \* the chunks that have arrived at least once
    duplicates,  \* how many arrivals were repetitions
    abandoned    \* the messages, by number, that a FORWARD-TSN has covered

vars == <<scenario, rcv, arrived, duplicates, abandoned>>

\* send() of the peer, and the chunks of its messages by number.
AllChunksOf ==
    [sc \in Scenarios |-> [n \in DOMAIN sc.messages |->
       LET before == FoldLeft(Enqueue, NewOutbound(sc.initialTsn), SubSeq(sc.messages, 1, n - 1))
       IN SubSeq(Enqueue(before, sc.messages[n]).outboundQueue,
                 Len(before.outboundQueue) + 1,
                 Len(before.outboundQueue) + FragmentCount(sc.messages[n]))]]
Messages == scenario.messages
MessageNumbers == DOMAIN Messages
ChunksOf(n) == AllChunksOf[scenario][n]
Sent == UNION {ToSet(ChunksOf(n)) : n \in MessageNumbers}
Acknowledged(r, chunk) == TsnGte(r.lastReceivedTsn, chunk.tsn)

Init ==
    /\ scenario \in Scenarios
    /\ rcv = NewReceiver(scenario.initialTsn)
    /\ arrived = {}
    /\ duplicates = 0
    /\ abandoned = {}

Arrive(chunk) ==
    /\ chunk \notin arrived
    /\ rcv' = ReceiveDataChunk(rcv, chunk)
    /\ arrived' = arrived \cup {chunk}
    /\ UNCHANGED <<scenario, duplicates, abandoned>>

ArriveAgain(chunk) ==
    /\ chunk \in arrived
    /\ duplicates < MaxDuplicates
    /\ rcv' = ReceiveDataChunk(rcv, chunk)
    /\ duplicates' = duplicates + 1
    /\ UNCHANGED <<scenario, arrived, abandoned>>

\* updateAdvancedPeerAckPoint of the peer: the messages i..j at the head of
\* its queue are given up, everything before them being acknowledged.
ForwardTsn(i, j) ==
    [cumulativeTsn |-> Last(ChunksOf(j)).tsn,
     streams |-> LET given == {n \in i .. j : Messages[n].ordered}
                 IN [s \in {Messages[n].streamId : n \in given} |->
                       ChunksOf(Max({n \in given : Messages[n].streamId = s}))[1].streamSeqNum]]
GiveUp(i, j) ==
    /\ \A n \in i .. j : Messages[n].maxRetransmits > 0 /\ n \notin abandoned
    /\ \A n \in 1 .. i - 1 : Acknowledged(rcv, Last(ChunksOf(n)))
    /\ ~Acknowledged(rcv, Last(ChunksOf(j)))
    /\ rcv' = ReceiveForwardTsnChunk(rcv, ForwardTsn(i, j))
    /\ abandoned' = abandoned \cup i .. j
    /\ UNCHANGED <<scenario, arrived, duplicates>>

Next ==
    \/ \E chunk \in Sent : Arrive(chunk)
    \/ \E chunk \in Sent : ArriveAgain(chunk)
    \/ \E i, j \in MessageNumbers : i <= j /\ GiveUp(i, j)

Spec == Init /\ [][Next]_vars

-----------------------------------------------------------------------------

\* The number of the message a delivery is, 0 if it is none.
NumberOf(delivery) ==
    LET same == {n \in MessageNumbers : ChunksOf(n) = delivery}
    IN IF same = {} THEN 0 ELSE CHOOSE n \in same : TRUE
DeliveredNumbers == [k \in DOMAIN rcv.delivered |-> NumberOf(rcv.delivered[k])]

\* The receiver's state has its type.
TypeOK ==
    /\ scenario \in Scenarios
    /\ rcv.lastReceivedTsn \in -1 .. TsnMod - 1
    /\ rcv.sackMisOrdered \subseteq 0 .. TsnMod - 1
    /\ \A s \in Streams : /\ rcv.inboundStreams[s].streamSequenceNumber \in 0 .. SsnMod - 1
                          /\ rcv.inboundStreams[s].reassembly \in Seq(Sent)
    /\ rcv.advertisedRwnd \in Int
    /\ arrived \subseteq Sent
    /\ duplicates \in 0 .. MaxDuplicates
    /\ abandoned \subseteq MessageNumbers

\* popMessages hands over whole messages, each at most once: a delivery is all
\* the fragments of one message that was sent, in their order, whatever the
\* order of arrival, the duplicates and the messages given up in between.
WholeMessagesOnce ==
    /\ \A k \in DOMAIN DeliveredNumbers : DeliveredNumbers[k] # 0
    /\ \A k, l \in DOMAIN DeliveredNumbers : k # l => DeliveredNumbers[k] # DeliveredNumbers[l]

\* The ordered messages of a stream are delivered in the order they were sent.
OrderedDelivery ==
    \A k, l \in DOMAIN DeliveredNumbers :
        LET m == Messages[DeliveredNumbers[k]]
            n == Messages[DeliveredNumbers[l]]
        IN k < l /\ m.ordered /\ n.ordered /\ m.streamId = n.streamId
             => DeliveredNumbers[k] < DeliveredNumbers[l]

\* receiveDataChunk and receiveForwardTsnChunk account for every byte: what
\* the window has lost is what the reassembly buffers hold.
WindowAccounted == rcv.advertisedRwnd + Buffered(rcv) = InitialRwnd

\* The cumulative TSN and the gaps of a SACK are true: everything they cover
\* has arrived or was given up by its sender, and nothing arrived is left out.
SackTruthful ==
    \A n \in MessageNumbers : \A c \in ToSet(ChunksOf(n)) :
        /\ Acknowledged(rcv, c) \/ c.tsn \in rcv.sackMisOrdered
             => c \in arrived \/ n \in abandoned
        /\ c \in arrived => Acknowledged(rcv, c) \/ c.tsn \in rcv.sackMisOrdered

\* Nothing acknowledged disappears: a message that has arrived whole and was
\* not given up is delivered, or still in its reassembly buffer.
\* UnreliableScenario of MCSctpInbound violates it, so no run asks for it.
NothingLost ==
    \A n \in MessageNumbers \ abandoned :
        ToSet(ChunksOf(n)) \subseteq arrived
          => \/ \E k \in DOMAIN DeliveredNumbers : DeliveredNumbers[k] = n
             \/ ToSet(ChunksOf(n)) \subseteq
                  ToSet(rcv.inboundStreams[Messages[n].streamId].reassembly)

\* When everything has arrived and nothing was given up, everything has been
\* delivered: popMessages leaves no complete message in a buffer.
AllArrivedAllDelivered ==
    arrived = Sent /\ abandoned = {}
      => {DeliveredNumbers[k] : k \in DOMAIN DeliveredNumbers} = MessageNumbers

\* The same for an association that carries one ordered stream.
OneStreamAllDelivered ==
    (\A m, n \in MessageNumbers : Messages[m].ordered /\ Messages[m].streamId = Messages[n].streamId)
      => AllArrivedAllDelivered

\* When everything has arrived, the cumulative TSN has caught up with it.
AllArrivedAllAcknowledged ==
    arrived = Sent => \A c \in Sent : Acknowledged(rcv, c)

\* The same when all TSNs have as many digits, so that sort() orders them as
\* numbers.
SameDigitsAllAcknowledged ==
    (\A c, d \in Sent : (c.tsn < 10) = (d.tsn < 10)) => AllArrivedAllAcknowledged

\* What the application gets is right: whole messages, once, in order.
DeliveryCorrect == TypeOK /\ WholeMessagesOnce /\ OrderedDelivery

\* What the peer is told is right: the receive window and the SACKs.
AccountsTrue == WindowAccounted /\ SackTruthful

\* When everything has arrived nothing is left behind, in the cases where
\* popMessages and the string sort of markReceived see to it.
NothingLeftBehind == OneStreamAllDelivered /\ SameDigitsAllAcknowledged
=============================================================================
