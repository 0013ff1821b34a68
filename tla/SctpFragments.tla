---------------------------- MODULE SctpFragments ----------------------------
(***************************************************************************)
(* How send() of packages/sctp/src/sctp.ts cuts a message into DATA        *)
(* chunks.  A message is a record of its stream, its length in bytes,      *)
(* whether it is ordered and maxRetransmits, NoLimit when undefined.       *)
(***************************************************************************)
EXTENDS SctpReceiver

CONSTANT MaxPayload  \* maxPayloadSize

ASSUME MaxPayloadAssumption == MaxPayload \in Nat \ {0}

NoLimit == -1

FragmentCount(m) == (m.length + MaxPayload - 1) \div MaxPayload

Fragments(m, tsn, ssn) ==
    [k \in 1 .. FragmentCount(m) |->
       [tsn |-> SerialAdd(tsn, k - 1, TsnMod),
        streamId |-> m.streamId,
        streamSeqNum |-> ssn,
        ordered |-> m.ordered,
        first |-> k = 1,
        last |-> k = FragmentCount(m),
        bookSize |-> IF k < FragmentCount(m) THEN MaxPayload
                     ELSE m.length - (k - 1) * MaxPayload,
        maxRetransmits |-> m.maxRetransmits]]

(***************************************************************************)
(* The state send() keeps: localTsn and outboundStreamSeq, and the chunks  *)
(* it has made.  Enqueue is the part of send() before the first await.     *)
(***************************************************************************)
NewOutbound(initialTsn) ==
    [localTsn |-> initialTsn, outboundStreamSeq |-> [s \in Streams |-> 0],
     outboundQueue |-> <<>>]

EnqueueSameSeq(o, m) ==
    LET ssn == IF m.ordered THEN o.outboundStreamSeq[m.streamId] ELSE 0
        chunks == Fragments(m, o.localTsn, ssn)
    IN [o EXCEPT !.outboundQueue = @ \o chunks,
                 !.localTsn = SerialAdd(@, FragmentCount(m), TsnMod)]
Enqueue(o, m) ==
    LET ssn == IF m.ordered THEN o.outboundStreamSeq[m.streamId] ELSE 0
        chunks == Fragments(m, o.localTsn, ssn)
    IN [o EXCEPT !.outboundQueue = @ \o chunks,
                 !.localTsn = SerialAdd(@, FragmentCount(m), TsnMod),
                 !.outboundStreamSeq[m.streamId] =
                     IF m.ordered THEN SerialAdd(ssn, 1, SsnMod) ELSE @]
=============================================================================
