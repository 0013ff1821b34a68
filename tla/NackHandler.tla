------------------------------ MODULE NackHandler ------------------------------
(***************************************************************************)
(* NackHandler of packages/webrtc/src/media/receiver/nack.ts.              *)
(* The handler is [est, lost, gaveUp]: newEstSeqNum, the set of [seq,      *)
(* count] it asks for, and the numbers it stopped asking for.              *)
(***************************************************************************)
EXTENDS Integers, FiniteSets

CONSTANTS
    Mod,         \* 2^16
    LostSize,    \* LOST_SIZE
    RetryCount   \* retryCount

Fresh == [est |-> 0, lost |-> {}, gaveUp |-> {}]

LostNumbers(n) == {l.seq : l \in n.lost}

(* The largest LostSize numbers stay.                                      *)
pruneLost(n) ==
    LET larger(l) == {m \in n.lost : m.seq > l.seq}
        out == {l \in n.lost : Cardinality(larger(l)) >= LostSize}
    IN  [n EXCEPT !.lost = @ \ out, !.gaveUp = @ \union {l.seq : l \in out}]

(* Mutant of addPacket: the number before the one that arrived is left out.*)
addPacketShort(n, seq) ==
    LET next == (n.est + 1) % Mod
    IN  IF n.est = 0 THEN [n EXCEPT !.est = seq]
        ELSE IF seq \in LostNumbers(n) THEN [n EXCEPT !.lost = {l \in @ : l.seq # seq}]
        ELSE IF seq = next THEN [n EXCEPT !.est = seq]
        ELSE IF seq > next
        THEN pruneLost([n EXCEPT !.est = seq,
                                 !.lost = @ \union {[seq |-> i, count |-> 1] : i \in next..seq - 2}])
        ELSE n

addPacket(n, seq) ==
    LET next == (n.est + 1) % Mod
    IN  IF n.est = 0 THEN [n EXCEPT !.est = seq]
        ELSE IF seq \in LostNumbers(n) THEN [n EXCEPT !.lost = {l \in @ : l.seq # seq}]
        ELSE IF seq = next THEN [n EXCEPT !.est = seq]
        ELSE IF seq > next
        THEN pruneLost([n EXCEPT !.est = seq,
                                 !.lost = {l \in @ : l.seq \notin next..seq - 1} \union
                                          {[seq |-> i, count |-> 1] : i \in next..seq - 1}])
        ELSE n

(* Mutant of updateRetryCount: a packet is asked for again and again.      *)
updateRetryCountNever(n) == n

updateRetryCount(n) ==
    LET over == {l \in n.lost : l.count > RetryCount}
    IN  [n EXCEPT !.lost = {[l EXCEPT !.count = @ + 1] : l \in @ \ over},
                  !.gaveUp = @ \union {l.seq : l \in over}]
=============================================================================
