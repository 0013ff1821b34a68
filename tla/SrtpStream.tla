------------------------------ MODULE SrtpStream ------------------------------
(***************************************************************************)
(* One SSRC of an SRTP session, packages/rtp/src/srtp/context: both sides  *)
(* guess the rollover counter (ROC) of a packet from its 16-bit number and *)
(* the highest index they have seen. Only the number is on the wire; the   *)
(* ROC takes part in the key stream and in the authentication tag.         *)
(*                                                                         *)
(* The truth a packet carries along is its cycle: how often the numbers    *)
(* had come round when the sender gave it its number seq.                  *)
(***************************************************************************)
EXTENDS Integers, FiniteSets

CONSTANTS
    Half,         \* HalfSequenceNumberCycle
    MaxRollover,  \* MaxRolloverCounter
    FirstNumbers, \* the numbers a stream may start with
    Gaps,         \* how far the source's numbers advance from packet to packet
    HistorySize   \* RTP_HISTORY_SIZE: slots of the sender's history

Cycle == 2 * Half  \* SequenceNumberCycle

ASSUME SrtpAssumption ==
    /\ Half \in Nat \ {0} /\ MaxRollover \in Nat
    /\ FirstNumbers \subseteq 0..Cycle - 1
    /\ Gaps \subseteq 1..Half - 1
    /\ HistorySize \in Nat \ {0}

VARIABLES
    pos,    \* the position [cycle, seq] of the next packet
    snd,    \* SrtpSsrcState of the sender
    cache,  \* positions in the sender's rtpCache
    net,    \* packets under way
    rcv,    \* SrtpSsrcState of the receiver
    wide,   \* [on, next]: the transport-wide sequence number
    top,    \* the true index of the highest packet accepted, -1 before
    strayed \* a packet was sent again from half a cycle back (history)

svars == <<pos, snd, cache, net, rcv, wide, top, strayed>>

NewState == [started |-> FALSE, roc |-> 0, last |-> 0]

Init ==
    /\ \E n \in FirstNumbers : pos = [cycle |-> 0, seq |-> n]
    /\ snd = NewState /\ rcv = NewState
    /\ cache = {} /\ net = {} /\ top = -1 /\ strayed = FALSE
    /\ \E on \in BOOLEAN : wide = [on |-> on, next |-> 0]

-----------------------------------------------------------------------------
packetIndex(roc, seq) == roc * Cycle + seq

Index(p) == packetIndex(p.cycle, p.seq)

(* Mutant of guessRolloverCounter: the counter never goes back.            *)
guessForwardOnly(seq, s) ==
    IF ~s.started THEN 0
    ELSE IF s.last < Half THEN s.roc
    ELSE IF s.last - Half > seq THEN s.roc + 1 ELSE s.roc

guessRolloverCounter(seq, s) ==
    IF ~s.started THEN 0
    ELSE IF s.last < Half
    THEN IF seq - s.last > Half THEN s.roc - 1 ELSE s.roc
    ELSE IF s.last - Half > seq THEN s.roc + 1 ELSE s.roc

(* It throws when the guess is above MaxRollover.                          *)
Overflows(seq, s) == guessRolloverCounter(seq, s) > MaxRollover

estimateRolloverCounter(seq, s) ==
    LET roc == guessRolloverCounter(seq, s) IN IF roc < 0 THEN 0 ELSE roc

commitPacketIndex(seq, roc, s) ==
    LET delta == packetIndex(roc, seq) - packetIndex(s.roc, s.last)
    IN  IF ~s.started \/ (delta > 0 /\ delta <= Half)
        THEN [started |-> TRUE, roc |-> roc, last |-> seq]
        ELSE s

(* encryptRtp of the packet at position c, and its way into the network.   *)
encryptRtp(c) ==
    IF Overflows(c.seq, snd) THEN UNCHANGED <<snd, net, wide>>
    ELSE LET roc == estimateRolloverCounter(c.seq, snd)
         IN  /\ snd' = commitPacketIndex(c.seq, roc, snd)
             /\ net' = net \union {[cycle |-> c.cycle, seq |-> c.seq, roc |-> roc, wide |-> wide.next]}
             /\ wide' = [wide EXCEPT !.next = IF wide.on THEN @ + 1 ELSE @]

(* The cipher accepts a packet under the ROC it was encrypted with.        *)
Authentic(s, p) == ~Overflows(p.seq, s) /\ estimateRolloverCounter(p.seq, s) = p.roc

(* Mutant of decryptRtp: it commits before the packet is authenticated.    *)
decryptUnchecked(s, p) == commitPacketIndex(p.seq, estimateRolloverCounter(p.seq, s), s)

decryptRtp(s, p) == IF Authentic(s, p) THEN commitPacketIndex(p.seq, p.roc, s) ELSE s

-----------------------------------------------------------------------------
Advance(c, gap) ==
    IF c.seq + gap >= Cycle THEN [cycle |-> c.cycle + 1, seq |-> c.seq + gap - Cycle]
    ELSE [c EXCEPT !.seq = @ + gap]

(* The history with the packet at c in its slot. What a slot holds stays,  *)
(* however old, until a packet with the same number % HistorySize is kept. *)
Remember(c) == {d \in cache : d.seq % HistorySize # c.seq % HistorySize} \union {c}

(* The next packet of the source; one of padding only is not kept.         *)
Send(gap, kept) ==
    /\ encryptRtp(pos)
    /\ cache' = IF kept THEN Remember(pos) ELSE cache
    /\ pos' = Advance(pos, gap)
    /\ UNCHANGED <<rcv, top, strayed>>

(* The true index of the sender's state, as long as it is the true one.    *)
Last == packetIndex(snd.roc, snd.last)

(* A packet is sent again, with its own number, however old it is.         *)
Resend(c) ==
    /\ c \in cache
    /\ encryptRtp(c)
    /\ strayed' = (strayed \/ Last - Index(c) >= Half)
    /\ UNCHANGED <<pos, cache, rcv, top>>

(* An accepted packet is the highest when it is ahead of the one that was, *)
(* by half a cycle at most.                                                *)
Higher(p) == Authentic(rcv, p) /\ (top = -1 \/ (Index(p) > top /\ Index(p) <= top + Half))

(* A packet arrives, perhaps not for the last time.                        *)
Receive(p, again) ==
    /\ p \in net
    /\ net' = IF again THEN net ELSE net \ {p}
    /\ rcv' = decryptRtp(rcv, p)
    /\ top' = IF Higher(p) THEN Index(p) ELSE top
    /\ UNCHANGED <<pos, snd, cache, wide, strayed>>

Lose(p) ==
    /\ p \in net
    /\ net' = net \ {p}
    /\ UNCHANGED <<pos, snd, cache, rcv, wide, top, strayed>>

(* A packet with any number arrives damaged: no ROC authenticates it.      *)
ReceiveDamaged(seq) ==
    /\ rcv' = decryptRtp(rcv, [seq |-> seq, roc |-> -1])
    /\ UNCHANGED <<pos, snd, cache, net, wide, top, strayed>>

Next ==
    \/ \E gap \in Gaps, kept \in BOOLEAN : Send(gap, kept)
    \/ \E c \in cache : Resend(c)
    \/ \E p \in net, again \in BOOLEAN : Receive(p, again)
    \/ \E p \in net : Lose(p)
    \/ \E seq \in 0..Cycle - 1 : ReceiveDamaged(seq)

Spec == Init /\ [][Next]_svars

-----------------------------------------------------------------------------
Position == [cycle : Nat, seq : 0..Cycle - 1]
State == [started : BOOLEAN, roc : 0..MaxRollover, last : 0..Cycle - 1]

(* The type invariant.                                                     *)
StreamTypeOK ==
    /\ pos \in Position
    /\ snd \in State /\ rcv \in State
    /\ cache \subseteq Position
    /\ net \subseteq [cycle : Nat, seq : 0..Cycle - 1, roc : 0..MaxRollover, wide : Nat]
    /\ wide \in [on : BOOLEAN, next : Nat]
    /\ top \in Nat \union {-1}
    /\ strayed \in BOOLEAN

(* The sender's numbers have come round 2^32 times: encryptRtp throws, but *)
(* half a cycle later it would take the last ROC once more.                *)
Exhausted == pos.cycle > MaxRollover

(* Neither side can be in step: the counter is exhausted, or a packet was  *)
(* sent again from so far back that its number says nothing of its cycle.  *)
Astray == Exhausted \/ strayed

(* encryptRtp: a packet is encrypted under the ROC of its own cycle, sent  *)
(* for the first time or again, before or behind a wrap: no two packets    *)
(* share a key stream until the counter is exhausted. Unless a packet was  *)
(* sent again from half a cycle back or more: see AlwaysEncryptedAtIndex.  *)
EncryptedAtIndex == ~Astray => \A p \in net : p.roc = p.cycle

(* decryptRtp: a packet that is less than half a cycle away from the       *)
(* highest one accepted is authenticated, whatever was lost, repeated,     *)
(* reordered or damaged before, on the same condition.                     *)
InStep ==
    ~Astray =>
        \A p \in net :
            top # -1 /\ top - Half < Index(p) /\ Index(p) < top + Half => Authentic(rcv, p)

(* What EncryptedAtIndex and InStep would say of every answer to a NACK.   *)
(* Violated: the slot of a packet may be passed over until the packet is   *)
(* half a cycle old. No run asks for them.                                 *)
AlwaysEncryptedAtIndex == ~Exhausted => \A p \in net : p.roc = p.cycle
AlwaysInStep ==
    ~Exhausted =>
        \A p \in net :
            top # -1 /\ top - Half < Index(p) /\ Index(p) < top + Half => Authentic(rcv, p)
=============================================================================
