----------------------------- MODULE JitterBuffer -----------------------------
(***************************************************************************)
(* JitterBufferBase of packages/rtp/src/extra/processor/jitterBuffer.ts.   *)
(* A packet is [seq, ts, idx]; idx, its true index, is not looked at.      *)
(*                                                                         *)
(* The buffer is [present, buffer, out, full]: presentSeqNum, rtpBuffer,   *)
(* what this call outputs, and whether it ever held too many packets. An   *)
(* output is [idx, skipped]: a packet and how many numbers were reported   *)
(* lost right before it.                                                   *)
(***************************************************************************)
EXTENDS Integers, Sequences, FiniteSets, SerialNumbers, OrderedSets

CONSTANTS
    Mod,        \* 2^16: the sequence numbers
    TsMod,      \* 2^32: the RTP timestamps
    Latency,    \* options.latency, in units of the timestamp
    BufferSize  \* options.bufferSize

Undefined == -1

Empty == [present |-> Undefined, buffer |-> {}, out |-> <<>>, full |-> FALSE]

distance(j, p) == (p.seq - j.present + Mod) % Mod

Distances(j) == {distance(j, p) : p \in j.buffer}

(* Mutant of releaseUntil: a gap is passed over without a report.          *)
releaseSilently(j, limit) ==
    LET reach == Highest({0} \union {d \in Distances(j) : d <= limit})
        stop  == Highest({d \in reach..Mod - 1 : reach + 1..d \subseteq Distances(j)})
        gone  == Ascending({d \in Distances(j) : d <= stop})
        at(d) == CHOOSE p \in j.buffer : distance(j, p) = d
    IN  [j EXCEPT !.present = (@ + stop) % Mod,
                  !.buffer = {p \in @ : distance(j, p) > stop},
                  !.out = @ \o [i \in DOMAIN gone |-> [idx |-> at(gone[i]).idx, skipped |-> 0]]]

(* releaseUntil, up to the distance limit, with the packets that continue  *)
(* from there. With limit 0 it is releaseContinuous.                       *)
releaseUntil(j, limit) ==
    LET reach == Highest({0} \union {d \in Distances(j) : d <= limit})
        stop  == Highest({d \in reach..Mod - 1 : reach + 1..d \subseteq Distances(j)})
        gone  == Ascending({d \in Distances(j) : d <= stop})
        at(d) == CHOOSE p \in j.buffer : distance(j, p) = d
        before(i) == IF i = 1 THEN 0 ELSE gone[i - 1]
    IN  [j EXCEPT !.present = (@ + stop) % Mod,
                  !.buffer = {p \in @ : distance(j, p) > stop},
                  !.out = @ \o [i \in DOMAIN gone |->
                                  [idx |-> at(gone[i]).idx, skipped |-> gone[i] - before(i) - 1]]]

(* findLatestTimeoutSeqNum: how far the packets are that waited too long.  *)
TimedOut(j, ts) ==
    {distance(j, p) : p \in {q \in j.buffer : /\ ~SerialGt(q.ts, ts, TsMod)
                                              /\ (ts - q.ts + TsMod) % TsMod > Latency}}

timeout(j, ts) ==
    LET far == TimedOut(j, ts)
    IN  IF far = {} THEN j ELSE releaseUntil(j, Highest(far))

(* All but the BufferSize packets that are furthest on are released.       *)
overflow(j) ==
    LET sorted == Ascending(Distances(j))
    IN  IF Len(sorted) <= BufferSize THEN j
        ELSE [releaseUntil(j, sorted[Len(sorted) - BufferSize]) EXCEPT !.full = TRUE]

(* Mutant of Known: numbers are compared as they are.                      *)
KnownUnwrapped(j, p) == j.present >= p.seq \/ \E q \in j.buffer : q.seq = p.seq

(* A repeated packet, or one that was given up.                            *)
Known(j, p) == SerialGte(j.present, p.seq, Mod) \/ \E q \in j.buffer : q.seq = p.seq

processInput(j, p) ==
    IF j.present = Undefined
    THEN [j EXCEPT !.present = p.seq, !.out = <<[idx |-> p.idx, skipped |-> 0]>>]
    ELSE IF Known(j, p) THEN [j EXCEPT !.out = <<>>]
    ELSE overflow(timeout(releaseUntil([j EXCEPT !.buffer = @ \union {p}, !.out = <<>>], 0), p.ts))

endOfLife(j) == releaseUntil([j EXCEPT !.out = <<>>], Mod - 1)
=============================================================================
