----------------------------- MODULE SctpSender -----------------------------
(***************************************************************************)
(* The outbound half of class SCTP (packages/sctp/src/sctp.ts): queues,    *)
(* congestion control, retransmission, abandonment and the transmit loop.  *)
(*                                                                         *)
(* A handler runs up to its next "await this.sendChunk(...)" in one step.  *)
(* transmit() is the only code here that awaits, at three places; pc says  *)
(* at which one it is, window and visited are its locals, and a handler    *)
(* that runs meanwhile only sets transmitRequested.  out is the packet the *)
(* step hands to the transport.  RTT estimation is left out: it only moves *)
(* the instant at which T3 fires.                                          *)
(***************************************************************************)
EXTENDS SctpFragments

CONSTANT MaxSentCount  \* bound: sentCount stops counting here

ASSUME SenderAssumption == MaxSentCount \in Nat \ {0}

NoTsn == -2
NoChunk == [none |-> TRUE]

\* The constructor; ssthresh and peerAdvertisedRwnd come from the handshake.
NewSender(initialTsn) ==
    [outbound |-> NewOutbound(initialTsn),
     sentQueue |-> <<>>,
     flightSize |-> 0,
     cwnd |-> 3 * MaxPayload,
     ssthresh |-> InitialRwnd,
     partialBytesAcked |-> 0,
     fastRecoveryExit |-> NoTsn,
     fastRecoveryTransmit |-> FALSE,
     lastSackedTsn |-> TsnMinusOne(initialTsn, TsnMod),
     advancedPeerAckTsn |-> TsnMinusOne(initialTsn, TsnMod),
     forwardTsnChunk |-> NoChunk,
     peerAdvertisedRwnd |-> InitialRwnd,
     timer3 |-> FALSE,
     pc |-> "idle", window |-> 0, visited |-> NoTsn, earliest |-> FALSE,
     transmitRequested |-> FALSE,
     out |-> NoChunk]

Least(a, b) == IF a < b THEN a ELSE b
Most(a, b) == IF a > b THEN a ELSE b

SizeOf(queue, S) == MapThenSumSet(LAMBDA i : queue[i].chunk.bookSize, S)
FlightSizeDecrease(s, size) == [s EXCEPT !.flightSize = Most(0, @ - size)]
PeerRwnd(s) == Most(0, s.peerAdvertisedRwnd - s.flightSize)

-----------------------------------------------------------------------------
(* transmit *)

\* An entry of the sent queue: a chunk and what the sender knows of it.
Sending(chunk) ==
    [chunk |-> chunk, acked |-> FALSE, misses |-> 0, retransmit |-> FALSE,
     abandoned |-> FALSE, sentCount |-> 1]

\* The drain loop, up to its next packet or to the end of the pass.
Drain(s) ==
    LET queue == s.outbound.outboundQueue IN
    IF /\ queue # <<>>
       /\ s.flightSize < s.window
       /\ PeerRwnd(s) > 0
       /\ Head(queue).bookSize <= PeerRwnd(s) \/ s.flightSize <= 0
    THEN [s EXCEPT !.outbound.outboundQueue = Tail(@),
                   !.sentQueue = Append(@, Sending(Head(queue))),
                   !.flightSize = @ + Head(queue).bookSize,
                   !.out = Head(queue), !.pc = "drain"]
    ELSE [s EXCEPT !.pc = "done"]

\* The retransmission loop.  The queue's iterator goes on behind the chunk it
\* gave last, also when the queue was shifted meanwhile.
Retransmit(s) ==
    LET due == {i \in DOMAIN s.sentQueue :
                  /\ s.sentQueue[i].retransmit
                  /\ s.visited = NoTsn \/ TsnGt(s.sentQueue[i].chunk.tsn, s.visited)}
        i == Min(due)
        chunk == s.sentQueue[i].chunk
    IN IF due = {} \/ (~s.fastRecoveryTransmit /\ s.flightSize >= s.window)
       THEN Drain(s)
       ELSE [s EXCEPT !.fastRecoveryTransmit = FALSE,
                      !.flightSize = @ + chunk.bookSize,
                      !.sentQueue[i].misses = 0,
                      !.sentQueue[i].retransmit = FALSE,
                      !.sentQueue[i].sentCount = Least(@ + 1, MaxSentCount),
                      !.out = chunk, !.pc = "retransmit",
                      !.visited = chunk.tsn,
                      !.earliest = s.visited = NoTsn /\ i = 1]

SendData(s) ==
    LET burst == IF s.fastRecoveryExit # NoTsn THEN 2 * MaxPayload ELSE 4 * MaxPayload
    IN Retransmit([s EXCEPT !.window = Least(s.flightSize + burst, s.cwnd),
                            !.visited = NoTsn])

\* transmitOnce up to its first await.
TransmitOnce(s) ==
    IF s.forwardTsnChunk # NoChunk
    THEN [s EXCEPT !.out = s.forwardTsnChunk, !.pc = "forward"]
    ELSE SendData(s)

\* The do-while of transmit(): another pass if one was requested.
Idle(s) == [s EXCEPT !.pc = "idle", !.window = 0, !.visited = NoTsn, !.earliest = FALSE]
Repeat(s) ==
    IF s.pc # "done" THEN s
    ELSE IF ~s.transmitRequested THEN Idle(s)
    ELSE LET again == TransmitOnce([Idle(s) EXCEPT !.transmitRequested = FALSE])
         IN IF again.pc = "done" THEN Idle(again) ELSE again

Transmit(s) ==
    IF s.pc # "idle"
    THEN [s EXCEPT !.transmitRequested = TRUE]
    ELSE Repeat(TransmitOnce([s EXCEPT !.transmitRequested = FALSE]))

\* What follows each await.
Timer3Restart(s) == [s EXCEPT !.timer3 = TRUE]
TransmitContinueUntimed(s) ==
    Repeat(CASE s.pc = "forward" -> SendData(Timer3Restart([s EXCEPT !.forwardTsnChunk = NoChunk]))
             [] s.pc = "retransmit" -> Retransmit(s)
             [] s.pc = "drain" -> Drain(Timer3Restart(s)))
TransmitContinue(s) ==
    Repeat(CASE s.pc = "forward" -> SendData(Timer3Restart([s EXCEPT !.forwardTsnChunk = NoChunk]))
             [] s.pc = "retransmit" -> Retransmit(IF s.earliest THEN Timer3Restart(s) ELSE s)
             [] s.pc = "drain" -> Drain(Timer3Restart(s)))

Send(s, m) == Transmit([s EXCEPT !.outbound = Enqueue(@, m)])

-----------------------------------------------------------------------------
(* abandonment *)

\* maybeAbandon's condition; expiry is left out.
ExpendableOneLater(e) ==
    ~e.abandoned /\ e.chunk.maxRetransmits > 0 /\ e.chunk.maxRetransmits + 1 < e.sentCount
Expendable(e) ==
    ~e.abandoned /\ e.chunk.maxRetransmits > 0 /\ e.chunk.maxRetransmits < e.sentCount

\* The chunks maybeAbandon marks: findIndex compares chunk types, all alike,
\* so it starts at the head of the queue and goes to the end of that message.
HeadMessage(queue) ==
    LET ends == {i \in DOMAIN queue : queue[i].chunk.last}
    IN 1 .. IF ends = {} THEN Len(queue) ELSE Min(ends)

\* "if (!maybeAbandon(chunk)) chunk.retransmit = true" over the chunks at S,
\* in queue order.
MarkLost(queue, S) ==
    LET triggers == {i \in S : Expendable(queue[i])}
        gone == IF triggers = {} THEN {} ELSE HeadMessage(queue)
    IN [i \in DOMAIN queue |->
          [queue[i] EXCEPT
             !.abandoned = @ \/ i \in gone,
             !.retransmit = /\ i \notin gone
                            /\ @ \/ (i \in S \ triggers /\ ~queue[i].abandoned)]]

UpdateAdvancedPeerAckPoint(s) ==
    LET base == IF TsnGt(s.lastSackedTsn, s.advancedPeerAckTsn)
                THEN s.lastSackedTsn ELSE s.advancedPeerAckTsn
        n == Max({0} \cup {i \in DOMAIN s.sentQueue :
                             \A j \in 1 .. i : s.sentQueue[j].abandoned})
        given == {i \in 1 .. n : s.sentQueue[i].chunk.ordered}
        streamIds == {s.sentQueue[i].chunk.streamId : i \in given}
        lastOf(id) == Max({i \in given : s.sentQueue[i].chunk.streamId = id})
    IN IF n = 0
       THEN [s EXCEPT !.advancedPeerAckTsn = base]
       ELSE [s EXCEPT !.advancedPeerAckTsn = s.sentQueue[n].chunk.tsn,
                      !.sentQueue = SubSeq(@, n + 1, Len(@)),
                      !.forwardTsnChunk =
                          [cumulativeTsn |-> s.sentQueue[n].chunk.tsn,
                           streams |-> [id \in streamIds |->
                                          s.sentQueue[lastOf(id)].chunk.streamSeqNum]]]

\* timer3Expired.
Timer3ExpiredUnmarked(s) ==
    Transmit([UpdateAdvancedPeerAckPoint(s) EXCEPT
                !.timer3 = FALSE, !.fastRecoveryExit = NoTsn, !.flightSize = 0,
                !.partialBytesAcked = 0,
                !.ssthresh = Most(s.cwnd \div 2, 4 * MaxPayload),
                !.cwnd = MaxPayload])
Timer3ExpiredKeepingFlight(s) ==
    LET marked == [s EXCEPT !.sentQueue = MarkLost(@, DOMAIN @)]
    IN Transmit([UpdateAdvancedPeerAckPoint(marked) EXCEPT
                   !.timer3 = FALSE, !.fastRecoveryExit = NoTsn, !.partialBytesAcked = 0,
                   !.ssthresh = Most(s.cwnd \div 2, 4 * MaxPayload),
                   !.cwnd = MaxPayload])
Timer3Expired(s) ==
    LET marked == [s EXCEPT !.sentQueue = MarkLost(@, DOMAIN @)]
    IN Transmit([UpdateAdvancedPeerAckPoint(marked) EXCEPT
                   !.timer3 = FALSE, !.fastRecoveryExit = NoTsn, !.flightSize = 0,
                   !.partialBytesAcked = 0,
                   !.ssthresh = Most(s.cwnd \div 2, 4 * MaxPayload),
                   !.cwnd = MaxPayload])

-----------------------------------------------------------------------------
(* receiveSackChunk *)

\* Drop the acknowledged prefix of the sent queue.
AckedPrefixAndNext(s, cumulativeTsn) ==
    Max({0} \cup {i \in DOMAIN s.sentQueue :
                    TsnGte(After(cumulativeTsn, 1), s.sentQueue[i].chunk.tsn)})
AckedPrefix(s, cumulativeTsn) ==
    Max({0} \cup {i \in DOMAIN s.sentQueue :
                    \A j \in 1 .. i : TsnGte(cumulativeTsn, s.sentQueue[j].chunk.tsn)})
AckCumulative(s, cumulativeTsn) ==
    LET n == AckedPrefix(s, cumulativeTsn)
        bytes == SizeOf(s.sentQueue, {i \in 1 .. n : ~s.sentQueue[i].acked})
    IN [state |-> [FlightSizeDecrease(s, bytes) EXCEPT
                     !.sentQueue = SubSeq(@, n + 1, Len(@)),
                     !.lastSackedTsn = cumulativeTsn],
        done |-> n, doneBytes |-> bytes]

\* Mark what the gap blocks report, in the queue up to the highest TSN seen.
NewlyAcked(s, sack) ==
    {i \in DOMAIN s.sentQueue :
       /\ \A j \in 1 .. i : ~TsnGt(s.sentQueue[j].chunk.tsn, sack.highest)
       /\ s.sentQueue[i].chunk.tsn \in sack.seen
       /\ ~s.sentQueue[i].acked}
AckGaps(s, sack) ==
    LET new == NewlyAcked(s, sack)
    IN [FlightSizeDecrease(s, SizeOf(s.sentQueue, new)) EXCEPT
          !.sentQueue = [i \in DOMAIN s.sentQueue |->
                           [s.sentQueue[i] EXCEPT !.acked = @ \/ i \in new]]]

\* Strike the chunks missing before the highest newly acknowledged one; the
\* third miss marks a chunk lost.
Struck(s, sack, highestNewlyAcked) ==
    {i \in DOMAIN s.sentQueue :
       /\ \A j \in 1 .. i : ~TsnGt(s.sentQueue[j].chunk.tsn, highestNewlyAcked)
       /\ s.sentQueue[i].chunk.tsn \notin sack.seen}
Lost(s, struck) == {i \in struck : s.sentQueue[i].misses = 2}
Strike(s, struck) ==
    LET lost == Lost(s, struck)
        marked == MarkLost(s.sentQueue, lost)
    IN [FlightSizeDecrease(s, SizeOf(s.sentQueue, lost)) EXCEPT
          !.sentQueue = [i \in DOMAIN marked |->
                           [marked[i] EXCEPT
                              !.misses = IF i \in lost THEN 0
                                         ELSE IF i \in struck THEN @ + 1 ELSE @,
                              !.acked = @ /\ i \notin lost]]]

\* The congestion window; loss says whether a chunk was struck out.
Grow(s, bytes) ==
    IF s.cwnd <= s.ssthresh
    THEN [s EXCEPT !.cwnd = @ + Least(bytes, MaxPayload)]
    ELSE IF s.partialBytesAcked + bytes >= s.cwnd
    THEN [s EXCEPT !.partialBytesAcked = @ + bytes - s.cwnd, !.cwnd = @ + MaxPayload]
    ELSE [s EXCEPT !.partialBytesAcked = @ + bytes]
EnterFastRecovery(s) ==
    LET half == Most(s.cwnd \div 2, 4 * MaxPayload)
    IN [s EXCEPT !.ssthresh = half, !.cwnd = half, !.partialBytesAcked = 0,
                 !.fastRecoveryExit = Last(s.sentQueue).chunk.tsn,
                 !.fastRecoveryTransmit = TRUE]
AdjustWindow(s, cumulativeTsn, grow, bytes, loss) ==
    IF s.fastRecoveryExit # NoTsn
    THEN IF TsnGte(cumulativeTsn, s.fastRecoveryExit)
         THEN [s EXCEPT !.fastRecoveryExit = NoTsn] ELSE s
    ELSE LET grown == IF grow THEN Grow(s, bytes) ELSE s
         IN IF loss THEN EnterFastRecovery(grown) ELSE grown

ReceiveSackChunk(s, sack) ==
    LET full == s.flightSize >= s.cwnd
        ack == AckCumulative(s, sack.cumulativeTsn)
        gapped == sack.seen # {}
        new == IF gapped THEN NewlyAcked(ack.state, sack) ELSE {}
        acked == IF gapped THEN AckGaps(ack.state, sack) ELSE ack.state
        htna == IF new = {} THEN sack.cumulativeTsn ELSE acked.sentQueue[Max(new)].chunk.tsn
        struck == IF gapped THEN Struck(acked, sack, htna) ELSE {}
        bytes == ack.doneBytes + SizeOf(acked.sentQueue, new)
        adjusted == AdjustWindow(Strike(acked, struck), sack.cumulativeTsn,
                                 ack.done > 0 /\ full, bytes, Lost(acked, struck) # {})
        timed == [adjusted EXCEPT
                    !.timer3 = adjusted.sentQueue # <<>> /\ (@ \/ ack.done > 0),
                    !.peerAdvertisedRwnd = sack.advertisedRwnd]
    IN IF TsnGt(s.lastSackedTsn, sack.cumulativeTsn)
       THEN s
       ELSE Transmit(UpdateAdvancedPeerAckPoint(timed))
=============================================================================
