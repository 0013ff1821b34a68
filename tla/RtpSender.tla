------------------------------ MODULE RtpSender ------------------------------
(***************************************************************************)
(* RTCRtpSender of packages/webrtc/src/media/rtpSender.ts on its way from  *)
(* a track to the wire: packets held until the transport is ready, the     *)
(* FIFO of a pacing estimator with its wait for budget, the numbers that   *)
(* continue across a change of source, and retransmission on NACK.         *)
(*                                                                         *)
(* A packet is [kind, src, n, id, epoch]: source src gave it number n, id  *)
(* counts all packets of the tracks, epoch is sourceEpoch when it came in. *)
(* Padding and probes are left out.                                        *)
(***************************************************************************)
EXTENDS Naturals, Sequences, FiniteSets, SequencesExt

CONSTANTS
    Tracks,       \* the tracks the sender may be given
    FirstNumber,  \* FirstNumber[t]: the first sequence number of t
    Numbers,      \* sequence numbers are 0..Numbers - 1 (2^16)
    HistorySize,  \* RTP_HISTORY_SIZE
    MaxQueue,     \* packets the FIFO holds while the estimator paces
    MaxPending,   \* packets held until the transport is ready
    Scenarios,    \* the settings explored, one of them chosen in Init
    MaxPackets, MaxSwitches, MaxNacks  \* bounds on what the environment does

VARIABLES
    scenario,  \* [pendingRtp, suppresses, swaps]
    s,         \* the sender
    wire,      \* what it handed to the transport, in order
    given,     \* given[t]: packets track t has given so far
    count      \* [packets, switches, nacks]: what the environment did

vars == <<scenario, s, wire, given, count>>

None == "none"
NoNumber == Numbers        \* no packet was numbered yet

\* The numbers do not come round: a stream is looked at for as long as one cycle.
ASSUME ConstantsAssumption ==
    /\ None \notin Tracks /\ FirstNumber \in [Tracks -> Nat]
    /\ Numbers \in Nat \ {0} /\ HistorySize \in Nat \ {0}
    /\ MaxQueue \in Nat /\ MaxPending \in Nat /\ MaxPackets \in 0..Numbers

Idle == [st |-> "idle"]    \* no task runs

NewSender ==
    [track |-> None, ready |-> FALSE, stopped |-> FALSE, sendSuppressed |-> FALSE,
     paced |-> TRUE, generation |-> 0, sourceEpoch |-> 0,
     last |-> NoNumber, seqOffset |-> 0, pending |-> FALSE,   \* RtpContinuity
     rtpCache |-> {},
     pendingRtp |-> <<>>, draining |-> "idle",
     task |-> Idle, fifo |-> <<>>,                         \* OutgoingQueue
     out |-> <<>>]                                        \* written in this step

Init ==
    /\ scenario \in Scenarios
    /\ s = NewSender
    /\ wire = <<>>
    /\ given = [t \in Tracks |-> 0]
    /\ count = [packets |-> 0, switches |-> 0, nacks |-> 0]

-----------------------------------------------------------------------------
canSendRtp(x) == ~x.stopped /\ ~x.sendSuppressed /\ x.ready

isStaleSource(x, p) == p.kind = "media" /\ p.epoch # x.sourceEpoch

(* Mutant of assign: the first packet of a new source repeats the last     *)
(* number instead of following it.                                         *)
assignAtLast(x, p) ==
    LET moved  == x.pending /\ x.last # NoNumber
        offset == IF moved THEN (x.last + Numbers - p.n) % Numbers ELSE x.seqOffset
    IN  [x EXCEPT !.pending = FALSE, !.seqOffset = offset, !.last = (p.n + offset) % Numbers]

(* RtpContinuity.assign.                                                   *)
assign(x, p) ==
    LET moved  == x.pending /\ x.last # NoNumber
        offset == IF moved THEN (x.last + 1 + Numbers - p.n) % Numbers ELSE x.seqOffset
    IN  [x EXCEPT !.pending = FALSE, !.seqOffset = offset, !.last = (p.n + offset) % Numbers]

(* The end of sendRtpInternal: number, history and transport.              *)
Write(x, p) ==
    IF p.kind = "rtx" THEN [x EXCEPT !.out = Append(@, p)]
    ELSE LET y == assign(x, p)
             q == [p EXCEPT !.seq = y.last]
         IN  [y EXCEPT !.out = Append(@, q),
                       !.rtpCache = {c \in @ : c.seq % HistorySize # q.seq % HistorySize} \union {q}]

(* May the packet still be sent? Looked at before and behind the wait.     *)
Sendable(x, p) == ~x.stopped /\ (x.sendSuppressed => p.kind = "rtx") /\ ~isStaleSource(x, p)

(* sendRtpInternal up to its wait.                                         *)
start(x, p) ==
    IF ~x.ready \/ ~Sendable(x, p) THEN [x EXCEPT !.task = [p |-> p, gen |-> x.generation, st |-> "done"]]
    ELSE IF x.paced THEN [x EXCEPT !.task = [p |-> p, gen |-> x.generation, st |-> "wait"]]
    ELSE [Write(x, p) EXCEPT !.task = [p |-> p, gen |-> x.generation, st |-> "done"]]

(* A packet that leaves the FIFO settles its promise, which drain awaits.  *)
Settle(x, packets) ==
    IF \E i \in DOMAIN packets : packets[i].drained THEN [x EXCEPT !.draining = "resume"] ELSE x

(* OutgoingQueue.trim: the oldest packets over the cap, and those queued   *)
(* for too long.                                                           *)
trim(x, old) ==
    LET excess == IF Len(x.fifo) > MaxQueue THEN Len(x.fifo) - MaxQueue ELSE 0
        drop   == IF old > excess THEN old ELSE excess
    IN  IF ~x.paced THEN x
        ELSE Settle([x EXCEPT !.fifo = SubSeq(@, drop + 1, Len(@))], SubSeq(x.fifo, 1, drop))

(* Mutant of dispatchOutgoing: it does not look whether the FIFO is busy.  *)
dispatchOutgoingPast(x, p, old) ==
    IF ~x.paced
    THEN LET y == IF x.ready /\ Sendable(x, p) THEN Write(x, p) ELSE x
         IN  IF p.drained THEN [y EXCEPT !.draining = "resume"] ELSE y
    ELSE IF x.task = Idle THEN start(x, p)
    ELSE trim([x EXCEPT !.fifo = Append(@, p)], old)

(* Without pacing the packet is written at once, unless the FIFO of an     *)
(* earlier estimator still holds packets.                                  *)
dispatchOutgoing(x, p, old) ==
    IF x.task = Idle /\ ~x.paced
    THEN LET y == IF x.ready /\ Sendable(x, p) THEN Write(x, p) ELSE x
         IN  IF p.drained THEN [y EXCEPT !.draining = "resume"] ELSE y
    ELSE IF x.task = Idle THEN start(x, p)
    ELSE trim([x EXCEPT !.fifo = Append(@, p)], old)

(* PendingRtpQueue.enqueue: the oldest packet leaves when it is full.      *)
enqueue(x, p) ==
    LET held == Append(x.pendingRtp, p)
    IN  [x EXCEPT !.pendingRtp = IF Len(held) > MaxPending THEN Tail(held) ELSE held]

(* PendingRtpQueue.drain up to the promise of the next packet.             *)
drain(x) ==
    IF x.draining = "idle" /\ x.pendingRtp # <<>> /\ canSendRtp(x)
    THEN dispatchOutgoing([x EXCEPT !.pendingRtp = Tail(@), !.draining = "waits"],
                          [Head(x.pendingRtp) EXCEPT !.drained = TRUE], 0)
    ELSE x

-----------------------------------------------------------------------------
(* A step: the sender afterwards, with what it wrote moved to the wire.    *)
Become(x) ==
    /\ s' = [x EXCEPT !.out = <<>>]
    /\ wire' = wire \o x.out

(* sendRtp, for the next packet of the track.                              *)
sendRtp(old) ==
    /\ s.track # None /\ count.packets < MaxPackets
    /\ old <= Len(s.fifo)
    /\ LET t == s.track
           p == [kind |-> "media", src |-> t, n |-> (FirstNumber[t] + given[t]) % Numbers,
                 id |-> count.packets, epoch |-> s.sourceEpoch, seq |-> NoNumber, drained |-> FALSE]
       IN  /\ given' = [given EXCEPT ![t] = @ + 1]
           /\ count' = [count EXCEPT !.packets = @ + 1]
           /\ Become(IF s.stopped \/ s.sendSuppressed THEN s
                     ELSE IF scenario.pendingRtp
                     THEN drain(enqueue(s, p))
                     ELSE IF canSendRtp(s) THEN dispatchOutgoing(s, p, old) ELSE s)
    /\ UNCHANGED scenario

(* The wait for pacing budget is over, or a signal aborted it.             *)
waitEnds ==
    /\ s.task.st = "wait"
    /\ LET x == [s EXCEPT !.task.st = "done"]
       IN  Become(IF s.task.gen = s.generation /\ Sendable(s, s.task.p) THEN Write(x, s.task.p) ELSE x)
    /\ UNCHANGED <<scenario, given, count>>

(* The task settled: the next one starts.                                  *)
taskEnds ==
    /\ s.task.st = "done"
    /\ LET x == Settle(s, <<s.task.p>>)
       IN  Become(IF x.fifo = <<>> THEN [x EXCEPT !.task = Idle]
                  ELSE start([x EXCEPT !.fifo = Tail(@)], Head(x.fifo)))
    /\ UNCHANGED <<scenario, given, count>>

drainResumes ==
    /\ s.draining = "resume"
    /\ Become(drain([s EXCEPT !.draining = "idle"]))
    /\ UNCHANGED <<scenario, given, count>>

(* The elements of q at the indices I, in their order.                     *)
Filtered(q, I) ==
    LET Nth(k) == CHOOSE i \in I : Cardinality({j \in I : j < i}) = k - 1
    IN  [k \in 1..Cardinality(I) |-> q[Nth(k)]]

(* Mutant of invalidateQueuedSource: dropped packets leave their promise.  *)
invalidateQueuedSourceSilently(x) ==
    LET epoch == x.sourceEpoch + 1
        stale == {i \in DOMAIN x.fifo : x.fifo[i].kind = "media" /\ x.fifo[i].epoch # epoch}
    IN  [x EXCEPT !.sourceEpoch = epoch, !.fifo = Filtered(@, DOMAIN @ \ stale), !.pendingRtp = <<>>]

invalidateQueuedSource(x) ==
    LET epoch == x.sourceEpoch + 1
        stale == {i \in DOMAIN x.fifo : x.fifo[i].kind = "media" /\ x.fifo[i].epoch # epoch}
    IN  Settle([x EXCEPT !.sourceEpoch = epoch, !.fifo = Filtered(@, DOMAIN @ \ stale), !.pendingRtp = <<>>],
               Filtered(x.fifo, stale))

(* Mutant of scheduleRtpContinuity: the old source is not invalidated.     *)
scheduleRtpContinuityOnly(x) == [x EXCEPT !.pending = TRUE, !.rtpCache = {}]

scheduleRtpContinuity(x) ==
    [invalidateQueuedSource(x) EXCEPT !.pending = TRUE, !.rtpCache = {}]

Switch(x) ==
    /\ count.switches < MaxSwitches
    /\ count' = [count EXCEPT !.switches = @ + 1]
    /\ Become(x)
    /\ UNCHANGED <<scenario, given>>

replaceTrack(t) ==
    Switch([(IF s.last # NoNumber THEN scheduleRtpContinuity(s) ELSE invalidateQueuedSource(s))
                 EXCEPT !.track = t])

detachTrack ==
    /\ s.track # None
    /\ Switch([invalidateQueuedSource([s EXCEPT !.pending = FALSE, !.pendingRtp = <<>>])
                 EXCEPT !.track = None])

(* onSourceChanged of the same track: its numbers may start anywhere.      *)
replaceRTP ==
    /\ s.track # None /\ count.switches < MaxSwitches
    /\ given' = [given EXCEPT ![s.track] = @ + 3]
    /\ count' = [count EXCEPT !.switches = @ + 1]
    /\ Become(scheduleRtpContinuity(s))
    /\ UNCHANGED scenario

setSendSuppressed(suppressed) ==
    /\ scenario.suppresses /\ suppressed # s.sendSuppressed
    /\ Switch(LET x == [s EXCEPT !.sendSuppressed = suppressed]
              IN  IF suppressed THEN invalidateQueuedSource([x EXCEPT !.pendingRtp = <<>>]) ELSE drain(x))

setBandwidthEstimator(paced) ==
    /\ scenario.swaps
    /\ Switch([s EXCEPT !.paced = paced, !.generation = @ + 1])

stop ==
    /\ ~s.stopped
    /\ Switch([s EXCEPT !.stopped = TRUE, !.pending = FALSE, !.pendingRtp = <<>>,
                        !.generation = @ + 1, !.track = None])

(* The transport is connected and a codec negotiated, or no longer.        *)
ready(isReady) ==
    /\ isReady # s.ready
    /\ Switch(LET x == [s EXCEPT !.ready = isReady]
              IN  IF isReady /\ ~s.stopped THEN drain(x) ELSE x)

(* Mutant of FromCache: the slot is not compared with the number.          *)
FromSlot(seq) == {c \in s.rtpCache : c.seq % HistorySize = seq % HistorySize}

FromCache(seq) == {c \in s.rtpCache : c.seq = seq}

(* handleRtcpPacket for a GenericNack of one number.                       *)
handleNack(seq) ==
    /\ count.nacks < MaxNacks
    /\ count' = [count EXCEPT !.nacks = @ + 1]
    /\ \E c \in FromCache(seq) :
          Become(dispatchOutgoing(s, [c EXCEPT !.kind = "rtx", !.seq = seq, !.drained = FALSE], 0))
    /\ UNCHANGED <<scenario, given>>

-----------------------------------------------------------------------------
Progress == waitEnds \/ taskEnds \/ drainResumes

Next ==
    \/ Progress
    \/ \E old \in 0..MaxQueue : sendRtp(old)
    \/ \E t \in Tracks : replaceTrack(t)
    \/ \E b \in BOOLEAN : setSendSuppressed(b) \/ setBandwidthEstimator(b) \/ ready(b)
    \/ detachTrack \/ replaceRTP \/ stop
    \/ \E i \in DOMAIN wire : handleNack(wire[i].seq)

Spec == Init /\ [][Next]_vars

(* Weak fairness of Progress, with its guard written out: waits end, the   *)
(* transport's writes settle.                                              *)
Due == s.task # Idle \/ s.draining = "resume"

FairSpec == Spec /\ ([]<>~Due \/ []<><<Progress>>_vars)

-----------------------------------------------------------------------------
(* The type invariant.                                                     *)
TypeOK ==
    /\ s.track \in Tracks \union {None} /\ s.draining \in {"idle", "waits", "resume"}
    /\ s.last \in 0..Numbers /\ s.seqOffset \in 0..Numbers - 1
    /\ Len(s.pendingRtp) <= MaxPending /\ s.out = <<>>
    /\ Cardinality(s.rtpCache) <= HistorySize

Media(i) == wire[i].kind = "media"

(* A sequence number is used for one packet, across changes of source, of  *)
(* estimator and of direction and with packets waiting in both queues: a   *)
(* number used twice would be encrypted twice with the same key stream.    *)
NumbersUnique ==
    \A i, j \in DOMAIN wire : i < j /\ Media(i) /\ Media(j) =>
        wire[i].seq # wire[j].seq

(* Packets are written in the order they came in, none past a waiting one. *)
InOrder ==
    \A i, j \in DOMAIN wire : i < j /\ Media(i) /\ Media(j) => wire[i].id < wire[j].id

(* The stream on the wire is one sequence, whatever the application does.  *)
StreamContinuous == TypeOK /\ NumbersUnique /\ InOrder

(* A packet of a source that was replaced or detached, or of a direction   *)
(* that was turned off, is never written any more, even when it waited for *)
(* budget or was queued; a stopped sender writes nothing.                  *)
WritesAllowed ==
    [][Len(wire') > Len(wire) =>
          LET p == Last(wire')
          IN  /\ ~s'.stopped
              /\ p.kind = "media" => ~s'.sendSuppressed /\ p.src = s'.track]_vars

(* A retransmission carries the packet that was sent with that number.     *)
RetransmitsRight ==
    \A i \in DOMAIN wire : wire[i].kind = "rtx" =>
        \E j \in 1..i - 1 : Media(j) /\ wire[j].seq = wire[i].seq /\ wire[j].id = wire[i].id

(* Every packet taken in is written or dropped at last: neither queue is   *)
(* left waiting for a packet that a change of source removed.              *)
QueuesDrain ==
    <>[](/\ s.task = Idle /\ s.fifo = <<>> /\ s.draining = "idle"
         /\ canSendRtp(s) => s.pendingRtp = <<>>)

\* One stream in the eyes of the receiver: numbers used once and in order,
\* and a retransmission that is the packet the number was given to.
StreamRight == StreamContinuous /\ RetransmitsRight
=============================================================================
