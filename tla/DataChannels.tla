---------------------------- MODULE DataChannels ----------------------------
(***************************************************************************)
(* Data channels over an association: class RTCSctpTransport and the       *)
(* readyState of RTCDataChannel (packages/webrtc/src), and the stream      *)
(* reset of class SCTP (packages/sctp/src/sctp.ts).                        *)
(*                                                                         *)
(* The operators of this module take the state of one endpoint to its next *)
(* one.  sent and reconfigs are what a step hands to the network, awaiting *)
(* the handlers that wait for "await this.sendChunk(...)" to go on.  DATA  *)
(* is taken as SctpTransfer leaves it: every chunk arrives once, in any    *)
(* order.  A message is one chunk: fragments are InboundStream's matter.   *)
(***************************************************************************)
EXTENDS InboundStream

CONSTANTS
    Channels,           \* the channels the applications open, by label
    MaxId,              \* the largest stream identifier, 65534 in the code
    MaxReconfigRetrans  \* SCTP_MAX_ASSOCIATION_RETRANS, 10 in the code

ASSUME DataChannelsAssumption ==
    /\ IsFiniteSet(Channels)
    /\ MaxId \in Nat
    /\ MaxReconfigRetrans \in Nat

Ids == 0 .. MaxId

NoId == -1
NoChannel == "none"
NoRequest == [type |-> "none", requestSequence |-> -1, streams |-> {}]

ReadyStates == {"none", "connecting", "open", "closing", "closed"}
OutgoingReset(seq, streams) == [type |-> "reset", requestSequence |-> seq, streams |-> streams]
ReconfigResponse(seq) == [type |-> "response", requestSequence |-> seq, streams |-> {}]

\* isServer is the ICE role when the transport started; "none" is a channel
\* this endpoint has no object for.
NewEndpoint(isServer) ==
    [isServer |-> isServer,
     associationState |-> "new",
     readyState |-> [c \in Channels |-> "none"],
     id |-> [c \in Channels |-> NoId],
     negotiated |-> {},
     dataChannels |-> [i \in Ids |-> NoChannel],
     dataChannelQueue |-> <<>>,
     localTsn |-> 0,
     outboundStreamSeq |-> [i \in Ids |-> 0],
     inboundStreams |-> [i \in Ids |-> EmptyStream],
     reconfigQueue |-> <<>>,
     reconfigRequest |-> NoRequest,
     reconfigRequestSeq |-> 0,
     timerReconfig |-> "off",
     timerReconfigFailures |-> 0,
     orphanTimers |-> 0,
     awaiting |-> <<>>,
     threw |-> FALSE,
     messages |-> {},
     sent |-> {}, reconfigs |-> {}]

Registered(e) == {i \in Ids : e.dataChannels[i] # NoChannel}

-----------------------------------------------------------------------------
(* dataChannelFlush *)

\* The first free identifier of this side's parity.
FreeIdOfBothSides(e) == Min(Ids \ Registered(e))
FreeId(e) ==
    Min({i \in Ids \ Registered(e) : i % 2 = IF e.isServer THEN 0 ELSE 1})

AssignIdUnregistered(e, c) ==
    IF e.id[c] # NoId THEN e ELSE [e EXCEPT !.id[c] = FreeId(e)]
AssignId(e, c) ==
    IF e.id[c] # NoId THEN e
    ELSE [e EXCEPT !.dataChannels[FreeId(e)] = c, !.id[c] = FreeId(e)]

\* SCTP.send of a message of one chunk on an ordered channel.
SctpSend(e, c, kind) ==
    LET id == e.id[c]
        chunk == [tsn |-> e.localTsn, streamId |-> id,
                  streamSeqNum |-> e.outboundStreamSeq[id],
                  ordered |-> TRUE, first |-> TRUE, last |-> TRUE, bookSize |-> 1,
                  kind |-> kind, channel |-> c]
    IN [e EXCEPT !.sent = @ \cup {chunk},
                 !.localTsn = TsnPlusOne(@, TsnMod),
                 !.outboundStreamSeq[id] = SerialAdd(@, 1, SsnMod)]

FlushOne(e, item) ==
    IF e.readyState[item.channel] \in {"closing", "closed"} THEN e
    ELSE SctpSend(AssignId(e, item.channel), item.channel, item.kind)
DataChannelFlush(e) ==
    IF e.associationState # "established" THEN e
    ELSE FoldLeft(FlushOne, [e EXCEPT !.dataChannelQueue = <<>>], e.dataChannelQueue)

Post(e, c, kind) ==
    DataChannelFlush([e EXCEPT !.dataChannelQueue = Append(@, [channel |-> c, kind |-> kind])])

\* new RTCDataChannel, in-band and negotiated.  Both throw when the identifier
\* they are given is taken: IdIsFree is their guard.
IdIsFree(e, id) == id \notin Registered(e)
DataChannelOpen(e, c, id) ==
    Post([e EXCEPT !.readyState[c] = "connecting", !.id[c] = id,
                   !.dataChannels = [i \in Ids |-> IF i = id THEN c ELSE @[i]]], c, "OPEN")
DataChannelAddNegotiated(e, c, id) ==
    [e EXCEPT !.dataChannels[id] = c, !.id[c] = id,
              !.negotiated = @ \cup {c},
              !.readyState[c] = IF e.associationState = "established"
                                THEN "open" ELSE "connecting"]

\* stateChanged.connected.
ConnectedWithoutFlush(e) ==
    [e EXCEPT !.associationState = "established",
              !.readyState = [c \in Channels |->
                 IF c \in e.negotiated /\ \E i \in Ids : e.dataChannels[i] = c
                 THEN "open" ELSE e.readyState[c]]]
Connected(e) ==
    DataChannelFlush(
      [e EXCEPT !.associationState = "established",
                !.readyState = [c \in Channels |->
                   IF c \in e.negotiated /\ \E i \in Ids : e.dataChannels[i] = c
                   THEN "open" ELSE e.readyState[c]]])

\* stateChanged.closed, which setState(CLOSED) fires when it has cancelled
\* the timers.
AssociationClosed(e) ==
    [e EXCEPT !.associationState = "closed",
              !.readyState = [c \in Channels |->
                 IF \E i \in Ids : e.dataChannels[i] = c THEN "closed" ELSE e.readyState[c]],
              !.dataChannels = [i \in Ids |-> NoChannel],
              !.timerReconfig = "off"]

-----------------------------------------------------------------------------
(* datachannelReceive *)

ReceiveOpenAckTwice(e, id, c) ==
    LET known == e.dataChannels[id] # NoChannel
        e1 == IF known THEN e
              ELSE [e EXCEPT !.dataChannels[id] = c, !.id[c] = id, !.readyState[c] = "open"]
    IN Post(Post(e1, e1.dataChannels[id], "ACK"), e1.dataChannels[id], "ACK")
ReceiveOpen(e, id, c) ==
    LET known == e.dataChannels[id] # NoChannel
        e1 == IF known THEN e
              ELSE [e EXCEPT !.dataChannels[id] = c, !.id[c] = id, !.readyState[c] = "open"]
    IN Post(e1, e1.dataChannels[id], "ACK")

ReceiveAck(e, id) ==
    IF e.dataChannels[id] = NoChannel THEN [e EXCEPT !.threw = TRUE]
    ELSE [e EXCEPT !.readyState[e.dataChannels[id]] = "open"]

\* A user message goes to the channel now registered for its stream, if any.
ReceiveMessage(e, id, c) ==
    IF e.dataChannels[id] = NoChannel THEN e
    ELSE [e EXCEPT !.messages = @ \cup {[from |-> c, on |-> e.dataChannels[id]]}]

DatachannelReceive(e, chunk) ==
    CASE chunk.kind = "OPEN" -> ReceiveOpen(e, chunk.streamId, chunk.channel)
      [] chunk.kind = "ACK" -> ReceiveAck(e, chunk.streamId)
      [] chunk.kind = "data" -> ReceiveMessage(e, chunk.streamId, chunk.channel)

\* receiveDataChunk of a chunk that is no duplicate.
ReceiveDataChunk(e, chunk) ==
    LET popped == PopMessages(AddChunk(e.inboundStreams[chunk.streamId], chunk))
    IN IF e.associationState = "closed" THEN e
       ELSE FoldLeft(LAMBDA acc, message : DatachannelReceive(acc, message[1]),
                [e EXCEPT !.inboundStreams[chunk.streamId] = popped.stream],
                popped.messages)

-----------------------------------------------------------------------------
(* stream reset *)

\* Go on when the send settles: what follows, and the streams it is about.
Await(e, after, streams) ==
    [e EXCEPT !.awaiting = Append(@, [after |-> after, streams |-> streams])]

\* transmitReconfigRequest up to its await, for all the streams queued (the
\* code takes 135 at a time); closes are the streams whose channels the caller
\* closes when it has settled.
TransmitReconfigRequest(e, closes) ==
    LET request == OutgoingReset(e.reconfigRequestSeq, ToSet(e.reconfigQueue))
    IN Await([e EXCEPT !.reconfigQueue = <<>>,
                       !.reconfigRequestSeq = TsnPlusOne(@, TsnMod),
                       !.reconfigRequest = request,
                       !.reconfigs = @ \cup {request}], "request", closes)
MayTransmitRequest(e) ==
    /\ e.reconfigQueue # <<>>
    /\ e.associationState = "established"
    /\ e.reconfigRequest = NoRequest

\* onReconfigStreams.
CloseStreamsAll(e, ids) ==
    IF ids = {} THEN e
    ELSE [e EXCEPT !.readyState = [c \in Channels |->
                      IF c \in Range(e.dataChannels) THEN "closed" ELSE @[c]],
                   !.dataChannels = [i \in Ids |-> NoChannel]]
CloseStreamsKeepingEntry(e, ids) ==
    LET gone == {e.dataChannels[i] : i \in ids}
    IN [e EXCEPT !.readyState = [c \in Channels |-> IF c \in gone THEN "closed" ELSE @[c]]]
CloseStreams(e, ids) ==
    LET gone == {e.dataChannels[i] : i \in ids}
    IN [e EXCEPT !.readyState = [c \in Channels |-> IF c \in gone THEN "closed" ELSE @[c]],
                 !.dataChannels = [i \in Ids |-> IF i \in ids THEN NoChannel ELSE @[i]]]

Enqueue(queue, id) == IF id \in ToSet(queue) THEN queue ELSE Append(queue, id)

DataChannelClose(e, c) ==
    LET id == e.id[c]
        closing == [e EXCEPT !.readyState[c] = "closing",
                             !.reconfigQueue = Enqueue(@, id)]
        dropped == [e EXCEPT
                      !.dataChannelQueue =
                          SelectSeq(@, LAMBDA item : e.id[item.channel] # id),
                      !.reconfigQueue = SelectSeq(@, LAMBDA i : i # id),
                      !.dataChannels = [i \in Ids |-> IF i = id THEN NoChannel ELSE @[i]],
                      !.readyState[c] = "closed"]
    IN IF e.associationState # "established" THEN dropped
       ELSE IF Len(closing.reconfigQueue) = 1 /\ MayTransmitRequest(closing)
       THEN TransmitReconfigRequest(closing, {})
       ELSE closing

\* receiveReconfigParam: a reset request is answered first.
ReceiveReset(e, request) ==
    Await([e EXCEPT !.reconfigs = @ \cup {ReconfigResponse(request.requestSequence)}],
          "response", request.streams)
ResponseSent(e, streams) ==
    LET back == SelectSeq(SetToSortSeq(streams, <),
                          LAMBDA i : e.outboundStreamSeq[i] # 0)
        marked == [e EXCEPT !.inboundStreams = [i \in Ids |->
                                IF i \in streams THEN EmptyStream ELSE @[i]],
                            !.reconfigQueue = FoldLeft(Enqueue, @, back)]
    IN IF MayTransmitRequest(marked) THEN TransmitReconfigRequest(marked, streams)
       ELSE CloseStreams(marked, streams)

ReceiveResponseForgettingQueue(e, response) ==
    IF response.requestSequence # e.reconfigRequest.requestSequence THEN e
    ELSE [CloseStreams(e, e.reconfigRequest.streams) EXCEPT
            !.outboundStreamSeq = [i \in Ids |->
                IF i \in e.reconfigRequest.streams THEN 0 ELSE @[i]],
            !.reconfigRequest = NoRequest,
            !.timerReconfig = "off", !.timerReconfigFailures = 0]
ReceiveResponse(e, response) ==
    LET ids == e.reconfigRequest.streams
        done == [CloseStreams(e, ids) EXCEPT
                   !.outboundStreamSeq = [i \in Ids |-> IF i \in ids THEN 0 ELSE @[i]],
                   !.reconfigRequest = NoRequest,
                   !.timerReconfig = "off", !.timerReconfigFailures = 0]
    IN IF response.requestSequence # e.reconfigRequest.requestSequence THEN e
       ELSE IF MayTransmitRequest(done) THEN TransmitReconfigRequest(done, {})
       ELSE done

ReceiveReconfig(e, packet) ==
    IF e.associationState # "established" THEN e
    ELSE IF packet.type = "reset" THEN ReceiveReset(e, packet)
    ELSE ReceiveResponse(e, packet)

\* timerReconfigHandleStart, unless a handle, armed or spent, is still kept.
RequestSent(e, closes) ==
    CloseStreams(IF e.timerReconfig # "off" \/ e.associationState = "closed" THEN e
                 ELSE [e EXCEPT !.timerReconfig = "armed", !.timerReconfigFailures = 0],
                 closes)

\* timerReconfigHandleExpired; a handle that is not replaced stays, spent.  A
\* timer whose handle was overwritten, an orphan, runs the same code.
ReconfigExpired(e) ==
    IF e.timerReconfigFailures + 1 > MaxReconfigRetrans
    THEN AssociationClosed(e)
    ELSE IF e.reconfigRequest # NoRequest
    THEN Await([e EXCEPT !.timerReconfigFailures = @ + 1,
                         !.reconfigs = @ \cup {e.reconfigRequest}], "resend", {})
    ELSE [e EXCEPT !.timerReconfigFailures = @ + 1]
ResentUntimed(e) == e
Resent(e) ==
    IF e.associationState = "closed" THEN e
    ELSE [e EXCEPT !.timerReconfig = "armed",
                   !.orphanTimers = @ + IF e.timerReconfig = "armed" THEN 1 ELSE 0]

Continue(e, k) ==
    LET e1 == [e EXCEPT !.awaiting = RemoveAt(@, k)]
        a == e.awaiting[k]
    IN CASE a.after = "request" -> RequestSent(e1, a.streams)
         [] a.after = "response" -> ResponseSent(e1, a.streams)
         [] a.after = "resend" -> Resent(e1)
=============================================================================
