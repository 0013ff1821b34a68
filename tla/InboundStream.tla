---------------------------- MODULE InboundStream ----------------------------
(***************************************************************************)
(* The reassembly of one inbound stream: class InboundStream of            *)
(* packages/sctp/src/sctp.ts.  A stream is a record of its buffer, a       *)
(* sequence of chunks sorted by TSN, and the next stream sequence number.  *)
(* A chunk is a record with (at least) the fields                          *)
(*    tsn, streamSeqNum, first, last, ordered, bookSize.                   *)
(***************************************************************************)
EXTENDS SerialNumbers, FiniteSets, SequencesExt

CONSTANTS
    TsnMod,  \* SCTP_TSN_MODULO, 2^32 in the code
    SsnMod   \* the modulus of stream sequence numbers, 2^16 in the code

ASSUME ModuliAssumption == TsnMod \in 4 .. 1000 /\ SsnMod \in Nat \ {0}

TsnGt(a, b) == SerialGt(a, b, TsnMod)
TsnGte(a, b) == SerialGte(a, b, TsnMod)

EmptyStream == [reassembly |-> <<>>, streamSequenceNumber |-> 0]

\* Append behind a smaller TSN, else insert before the first larger one.
AddChunkAtEnd(stream, chunk) ==
    [stream EXCEPT !.reassembly = Append(@, chunk)]
AddChunk(stream, chunk) ==
    LET buf == stream.reassembly
        larger == {i \in 1 .. Len(buf) : TsnGt(buf[i].tsn, chunk.tsn)}
    IN IF buf = <<>> \/ TsnGt(chunk.tsn, buf[Len(buf)].tsn)
       THEN [stream EXCEPT !.reassembly = Append(buf, chunk)]
       ELSE IF larger = {}
       THEN stream
       ELSE [stream EXCEPT !.reassembly = InsertAt(buf, Min(larger), chunk)]

(***************************************************************************)
(* popMessages, the generator run to its end.  k is its control state:     *)
(* the stream, pos, start (0 for undefined), expected, ordered, whether    *)
(* the loop was left, and the messages yielded, each the sequence of its   *)
(* chunks.  After a message is yielded start is not reset: the chunk now   *)
(* at that position is taken for a continuation.  Every pass through the   *)
(* loop takes pos one closer to the end of the buffer, so there are as     *)
(* many passes as there were chunks.                                       *)
(***************************************************************************)
PopOne(k) ==
    LET buf == k.stream.reassembly
        chunk == buf[k.pos]
        fresh == k.start = 0
        ordered == IF fresh THEN chunk.ordered ELSE k.ordered
        start == IF fresh THEN k.pos ELSE k.start
        expected == IF fresh THEN chunk.tsn ELSE k.expected
        broken == \/ fresh /\ ~chunk.first
                  \/ ~fresh /\ chunk.tsn # expected
        early == /\ fresh /\ ordered
                 /\ SerialGt(chunk.streamSeqNum, k.stream.streamSequenceNumber, SsnMod)
        rest == SubSeq(buf, 1, start - 1) \o SubSeq(buf, k.pos + 1, Len(buf))
        inTurn == ordered /\ chunk.streamSeqNum = k.stream.streamSequenceNumber
        next == [k EXCEPT !.pos = @ + 1, !.start = start, !.ordered = ordered,
                          !.expected = TsnPlusOne(expected, TsnMod)]
    IN IF (broken /\ ordered) \/ early
       THEN [k EXCEPT !.left = TRUE]
       ELSE IF broken
       THEN [k EXCEPT !.pos = @ + 1, !.start = 0]
       ELSE IF chunk.last
       THEN [next EXCEPT !.pos = start,
                         !.stream.reassembly = rest,
                         !.stream.streamSequenceNumber =
                             IF inTurn THEN SerialAdd(@, 1, SsnMod) ELSE @,
                         !.messages = Append(@, SubSeq(buf, start, k.pos))]
       ELSE next

PopMessages(stream) ==
    FoldLeft(LAMBDA k, c : IF k.left THEN k ELSE PopOne(k),
             [stream |-> stream, pos |-> 1, start |-> 0, expected |-> 0,
              ordered |-> TRUE, left |-> FALSE, messages |-> <<>>],
             stream.reassembly)

SumSizes(chunks) == FoldLeft(LAMBDA sum, c : sum + c.bookSize, 0, chunks)

\* pruneChunks drops the prefix of the buffer up to tsn and returns its size.
PruneChunks(stream, tsn) ==
    LET buf == stream.reassembly
        n == Max({0} \cup {i \in 1 .. Len(buf) :
                             \A j \in 1 .. i : TsnGte(tsn, buf[j].tsn)})
    IN [stream |-> [stream EXCEPT !.reassembly = SubSeq(buf, n + 1, Len(buf))],
        size |-> SumSizes(SubSeq(buf, 1, n))]
=============================================================================
