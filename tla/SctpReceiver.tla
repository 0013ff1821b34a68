---------------------------- MODULE SctpReceiver ----------------------------
(***************************************************************************)
(* The inbound half of class SCTP (packages/sctp/src/sctp.ts): TSN         *)
(* bookkeeping, reassembly, the receive window and the SACK.  Each handler *)
(* runs without an await, so it is an operator from the receiver's state   *)
(* to its next one.  delivered is the trace of onReceive: the messages, in *)
(* order, each the sequence of its chunks.                                 *)
(*                                                                         *)
(* Every DATA chunk and every FORWARD-TSN sets sackImmediate, so the SACK  *)
(* leaves with the packet that caused it and the 200 ms delay of           *)
(* scheduleSack is never used: SackOf is the SACK of the state.            *)
(***************************************************************************)
EXTENDS InboundStream

CONSTANTS
    Streams,      \* stream identifiers, of which inboundStreams has a subset
    InitialRwnd   \* 1024 * 1024 in the code

ASSUME ReceiverAssumption == IsFiniteSet(Streams) /\ InitialRwnd \in Nat

\* lastReceivedTsn is set from the peer's initial TSN by INIT or INIT-ACK.
NewReceiver(initialTsn) ==
    [lastReceivedTsn |-> TsnMinusOne(initialTsn, TsnMod),
     sackMisOrdered |-> {},
     inboundStreams |-> [s \in Streams |-> EmptyStream],
     advertisedRwnd |-> InitialRwnd,
     delivered |-> <<>>]

(***************************************************************************)
(* The loop over [...sackMisOrdered].sort(): as long as the next TSN in    *)
(* sort()'s order is the successor of the last one, it becomes the last.   *)
(***************************************************************************)
After(last, k) == SerialAdd(last, k, TsnMod)
FirstInSort(tsn, tsns) == tsn \in tsns /\ \A t \in tsns \ {tsn} : LexLess(tsn, t)
AdvanceOnce(last, tsns) ==
    IF FirstInSort(After(last, 1), tsns) THEN After(last, 1) ELSE last
Advance(last, tsns) ==
    LET runs == {k \in 0 .. Cardinality(tsns) : \A i \in 1 .. k :
                   FirstInSort(After(last, i), tsns \ {After(last, j) : j \in 1 .. i - 1})}
    IN IF Max(runs) = 0 THEN last ELSE After(last, Max(runs))
Beyond(last, tsns) == {tsn \in tsns : TsnGt(tsn, last)}

IsDuplicate(r, tsn) == TsnGte(r.lastReceivedTsn, tsn) \/ tsn \in r.sackMisOrdered

\* markReceived of a TSN that is no duplicate.
MarkReceivedPastGap(r, tsn) ==
    [r EXCEPT !.lastReceivedTsn = tsn, !.sackMisOrdered = {}]
MarkReceived(r, tsn) ==
    LET tsns == r.sackMisOrdered \cup {tsn}
        last == Advance(r.lastReceivedTsn, tsns)
    IN [r EXCEPT !.lastReceivedTsn = last, !.sackMisOrdered = Beyond(last, tsns)]

\* Run popMessages on a stream and hand every message to onReceive.
DeliverKeepingWindow(r, streamId) ==
    LET popped == PopMessages(r.inboundStreams[streamId])
    IN [r EXCEPT !.inboundStreams[streamId] = popped.stream,
                 !.delivered = @ \o popped.messages]
Deliver(r, streamId) ==
    LET popped == PopMessages(r.inboundStreams[streamId])
    IN [r EXCEPT !.inboundStreams[streamId] = popped.stream,
                 !.advertisedRwnd = @ + SumSizes(FlattenSeq(popped.messages)),
                 !.delivered = @ \o popped.messages]

ReceiveDataChunkTwice(r, chunk) ==
    Deliver([MarkReceived(r, chunk.tsn) EXCEPT
               !.inboundStreams[chunk.streamId] = AddChunk(@, chunk),
               !.advertisedRwnd = @ - chunk.bookSize], chunk.streamId)
ReceiveDataChunk(r, chunk) ==
    IF IsDuplicate(r, chunk.tsn)
    THEN r
    ELSE Deliver([MarkReceived(r, chunk.tsn) EXCEPT
                    !.inboundStreams[chunk.streamId] = AddChunk(@, chunk),
                    !.advertisedRwnd = @ - chunk.bookSize], chunk.streamId)

\* A FORWARD-TSN is [cumulativeTsn, streams], streams a function from the
\* streams it names to the last abandoned sequence number.
PruneAll(r) ==
    LET pruned == [s \in Streams |-> PruneChunks(r.inboundStreams[s], r.lastReceivedTsn)]
    IN [r EXCEPT !.inboundStreams = [s \in Streams |-> pruned[s].stream],
                 !.advertisedRwnd = @ + MapThenSumSet(LAMBDA s : pruned[s].size, Streams)]

SkipMessages(r, chunk) ==
    FoldSet(LAMBDA s, acc :
              Deliver([acc EXCEPT !.inboundStreams[s].streamSequenceNumber =
                                      SerialAdd(chunk.streams[s], 1, SsnMod)], s),
            r, DOMAIN chunk.streams)

ReceiveForwardTsnChunk(r, chunk) ==
    IF TsnGte(r.lastReceivedTsn, chunk.cumulativeTsn)
    THEN r
    ELSE LET kept == Beyond(chunk.cumulativeTsn, r.sackMisOrdered)
             last == Advance(chunk.cumulativeTsn, kept)
         IN PruneAll(SkipMessages([r EXCEPT !.lastReceivedTsn = last,
                                            !.sackMisOrdered = Beyond(last, kept)], chunk))

(***************************************************************************)
(* sendSack.  A gap is an offset from the cumulative TSN, a JavaScript     *)
(* remainder, which is negative for a TSN numerically below it; such a     *)
(* SACK, or one whose cumulative TSN is -1, cannot be serialized and is    *)
(* not sent.  highest is the end of the last gap in sort()'s order, which  *)
(* is what the peer takes for the highest TSN seen.                        *)
(***************************************************************************)
SackOf(r) ==
    [cumulativeTsn |-> r.lastReceivedTsn,
     seen |-> r.sackMisOrdered,
     highest |-> IF r.sackMisOrdered = {} THEN r.lastReceivedTsn
                 ELSE CHOOSE t \in r.sackMisOrdered :
                        \A u \in r.sackMisOrdered \ {t} : LexLess(u, t),
     advertisedRwnd |-> IF r.advertisedRwnd < 0 THEN 0 ELSE r.advertisedRwnd]
SackCanBeSent(r) ==
    r.lastReceivedTsn >= 0 /\ \A tsn \in r.sackMisOrdered : tsn >= r.lastReceivedTsn

\* What the reassembly buffers hold.
Buffered(r) == MapThenSumSet(LAMBDA s : SumSizes(r.inboundStreams[s].reassembly), Streams)
=============================================================================
