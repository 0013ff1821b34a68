----------------------------- MODULE MediaStream -----------------------------
(***************************************************************************)
(* A media stream from the SRTP sender to the processors behind the        *)
(* receiver: what SrtpStream lets through is counted (StreamStatistics),   *)
(* watched for losses (NackHandler) or reported (ReceiverTWCC), and put in *)
(* order again (JitterBuffer). A NACK brings packets back from the         *)
(* sender's history. packages/webrtc/src/media/rtpReceiver.ts.             *)
(***************************************************************************)
EXTENDS SrtpStream, Sequences, OrderedSets

CONSTANTS
    TsMod, Latency, BufferSize,      \* of the jitter buffer
    LostSize, RetryCount,            \* of the NACK handler
    WideMod, MaxSpan, MaxBuffered,   \* of the transport-wide feedback
    TsStart, WideStart,              \* timestamp and transport-wide number of index 0
    MaxSends, MaxFaults, MaxDelay
        \* bounds: packets; losses, packets not kept in the history, that arrive
        \* twice or damaged; how far packets may fall behind the source

(* Both kinds of numbers wrap, and the network reorders them less far than *)
(* the receiver can tell: by less than half a cycle of sequence numbers    *)
(* from what the jitter buffer still waits for, and such that the          *)
(* MaxBuffered + 1 packets one feedback waits for have different           *)
(* transport-wide numbers.                                                 *)
ASSUME MediaAssumption ==
    /\ MaxSends \in Nat /\ MaxDelay \in 1..Half /\ Latency \in Nat
    /\ 2 * (MaxDelay - 1) + Latency < Half
    /\ TsStart \in Nat /\ TsMod \in Nat /\ Cycle <= TsMod
    /\ WideStart \in Nat /\ WideMod \in Nat
    /\ MaxBuffered \in Nat \ {0} /\ MaxSpan \in Nat
    /\ MaxDelay * (MaxBuffered + 1) <= WideMod
    /\ RetryCount \in Nat /\ LostSize \in Nat /\ BufferSize \in Nat

VARIABLES
    nack, jitter, twcc, stats,
    asked,  \* numbers of NACKs the sender has yet to answer
    ended,  \* the end of the stream has reached the jitter buffer
    log,    \* what happened, for the properties
    count   \* what the environment did

vars == <<svars, nack, jitter, twcc, stats, asked, ended, log, count>>

J == INSTANCE JitterBuffer WITH Mod <- Cycle
N == INSTANCE NackHandler WITH Mod <- Cycle
T == INSTANCE ReceiverTwcc WITH Mod <- WideMod
Serial == INSTANCE SerialNumbers

(* The codec is negotiated with one kind of feedback or with the other:    *)
(* the two share no state.                                                 *)
nackEnabled == ~wide.on

NewStatistics == [base |-> 0, max |-> 0, cycles |-> 0, received |-> 0]

MediaInit ==
    /\ Init
    /\ nack = N!Fresh /\ jitter = J!Empty /\ twcc = T!Silent
    /\ stats = NewStatistics
    /\ asked = {} /\ ended = FALSE
    /\ log = [heard |-> <<>>, timely |-> {}, played |-> <<>>,
              wides |-> {}, late |-> {}, reported |-> {}, offset |-> 0, wrong |-> FALSE]
    /\ count = [sends |-> 0, faults |-> 0]

Heard == {log.heard[i] : i \in DOMAIN log.heard}

-----------------------------------------------------------------------------
(* Mutant of addStatistics: a late packet also counts a cycle.             *)
addEveryCycle(s, seq) ==
    LET first   == s.received = 0
        inOrder == first \/ Serial!SerialGt(seq, s.max, Cycle)
    IN  [base |-> IF first THEN seq ELSE s.base, max |-> IF inOrder THEN seq ELSE s.max,
         cycles |-> IF ~first /\ seq < s.max THEN s.cycles + Cycle ELSE s.cycles,
         received |-> s.received + 1]

(* StreamStatistics.add.                                                   *)
addStatistics(s, seq) ==
    LET first   == s.received = 0
        inOrder == first \/ Serial!SerialGt(seq, s.max, Cycle)
    IN  [base |-> IF first THEN seq ELSE s.base, max |-> IF inOrder THEN seq ELSE s.max,
         cycles |-> IF inOrder /\ ~first /\ seq < s.max THEN s.cycles + Cycle ELSE s.cycles,
         received |-> s.received + 1]

packets_expected == stats.cycles + stats.max - stats.base + 1

(* What the windows in t.sent say of the numbers, noted in the log: wrong  *)
(* when a number is reported once more, or otherwise than it arrived.      *)
Tell(g, t, entries) ==
    LET windows == {t.sent[i] : i \in DOMAIN t.sent}
        said == {x - g.offset : x \in UNION {w.base..w.last : w \in windows}}
        yes  == {e.ext - g.offset : e \in entries} \intersect said
    IN  [g EXCEPT !.reported = @ \union said,
                  !.wrong = @ \/ said \intersect g.reported # {} \/ yes # said \intersect g.wides]

(* handleRTP of an authenticated packet, up to the track's processors.     *)
handleRTP(p) ==
    LET idx == Index(p)
        ts  == (idx + TsStart) % TsMod
        w   == p.wide + WideStart
        t   == IF wide.on THEN T!handleTWCC(twcc, w) ELSE twcc
        j   == J!processInput(jitter, [seq |-> p.seq, ts |-> ts, idx |-> idx])
        entry == [ext |-> T!unwrapTsn(twcc, w % WideMod), wide |-> w]
        g   == [log EXCEPT !.wides = @ \union {w},
                           !.late = IF \E r \in log.reported : w < r THEN @ \union {w} ELSE @,
                           !.offset = IF log.wides = {} THEN (w % WideMod) - w ELSE @]
    IN  /\ stats' = addStatistics(stats, p.seq)
        /\ twcc' = [t EXCEPT !.sent = <<>>]
        /\ nack' = IF nackEnabled THEN N!addPacket(nack, p.seq) ELSE nack
        /\ jitter' = [j EXCEPT !.out = <<>>]
        /\ log' = [Tell(g, t, twcc.info \union {entry}) EXCEPT
                     !.heard = IF idx \in Heard THEN @ ELSE Append(@, idx),
                     !.timely = IF Heard # {} /\ idx > log.heard[1] /\ Highest(Heard) - idx <= Latency
                                THEN @ \union {idx} ELSE @,
                     !.played = @ \o j.out]

-----------------------------------------------------------------------------
source(gap, kept) ==
    /\ count.sends < MaxSends
    /\ \A p \in net : Index(pos) - Index(p) < MaxDelay
    /\ top # -1 => Index(pos) - top < MaxDelay
    /\ ~kept => count.faults < MaxFaults
    /\ Send(gap, kept)
    /\ count' = [count EXCEPT !.sends = @ + 1, !.faults = IF ~kept THEN @ + 1 ELSE @]
    /\ UNCHANGED <<nack, jitter, twcc, stats, asked, ended, log>>

(* The sender answers a NACK from its history, or has nothing to answer.   *)
retransmit(seq) ==
    /\ seq \in asked
    /\ asked' = asked \ {seq}
    /\ IF \E c \in cache : c.seq = seq THEN \E c \in cache : c.seq = seq /\ Resend(c)
       ELSE UNCHANGED svars
    /\ UNCHANGED <<nack, jitter, twcc, stats, ended, log, count>>

arrive(p, again) ==
    /\ again => count.faults < MaxFaults
    /\ Receive(p, again)
    /\ count' = [count EXCEPT !.faults = IF again THEN @ + 1 ELSE @]
    /\ IF Authentic(rcv, p) THEN handleRTP(p) ELSE UNCHANGED <<nack, jitter, twcc, stats, log>>
    /\ UNCHANGED <<asked, ended>>

lose(p) ==
    /\ count.faults < MaxFaults
    /\ Lose(p)
    /\ count' = [count EXCEPT !.faults = @ + 1]
    /\ UNCHANGED <<nack, jitter, twcc, stats, asked, ended, log>>

damaged(seq) ==
    /\ count.faults < MaxFaults
    /\ ReceiveDamaged(seq)
    /\ count' = [count EXCEPT !.faults = @ + 1]
    /\ UNCHANGED <<nack, jitter, twcc, stats, asked, ended, log>>

(* The interval of the NACK handler; the feedback may be lost.             *)
sendNack(arrives) ==
    /\ nack.lost # {}
    /\ asked' = IF arrives THEN asked \union N!LostNumbers(nack) ELSE asked
    /\ nack' = N!updateRetryCount(nack)
    /\ UNCHANGED <<svars, jitter, twcc, stats, ended, log, count>>

(* The 100 ms loop of the transport-wide feedback.                         *)
runTWCC ==
    /\ twcc.info # {}
    /\ LET t == T!sendTWCC(twcc)
       IN  /\ twcc' = [t EXCEPT !.sent = <<>>]
           /\ log' = Tell(log, t, twcc.info)
    /\ UNCHANGED <<svars, nack, jitter, stats, asked, ended, count>>

(* The track ends behind its last packet.                                  *)
eol ==
    /\ ~ended /\ count.sends = MaxSends /\ net = {} /\ asked = {}
    /\ ended' = TRUE
    /\ LET j == J!endOfLife(jitter)
       IN  /\ jitter' = [j EXCEPT !.out = <<>>, !.buffer = {}]
           /\ log' = [log EXCEPT !.played = @ \o j.out]
    /\ UNCHANGED <<svars, nack, twcc, stats, asked, count>>

MediaNext ==
    \/ \E gap \in Gaps, kept \in BOOLEAN : source(gap, kept)
    \/ \E seq \in asked : retransmit(seq)
    \/ \E p \in net, again \in BOOLEAN : arrive(p, again)
    \/ \E p \in net : lose(p)
    \/ \E seq \in {0, Half} : damaged(seq)
    \/ \E arrives \in BOOLEAN : ~ended /\ sendNack(arrives)
    \/ runTWCC
    \/ eol

(* The interval of the NACK handler runs until nothing is lost.            *)
MediaSpec ==
    /\ MediaInit /\ [][MediaNext]_vars
    /\ []<>(nack.lost = {}) \/ []<><<\E arrives \in BOOLEAN : sendNack(arrives)>>_vars

-----------------------------------------------------------------------------
(* The type invariant.                                                     *)
TypeOK ==
    /\ StreamTypeOK
    /\ Cardinality(jitter.buffer) <= BufferSize
    /\ Cardinality(nack.lost) <= LostSize
    /\ Cardinality(twcc.info) <= MaxBuffered
    /\ asked \subseteq 0..Cycle - 1

(* JitterBuffer: packets come out in sequence and once, and what was left  *)
(* out between two of them is reported right before the second, exactly,   *)
(* across wraps, repetitions, timeouts, a full buffer and the end.         *)
PlayedInSequence ==
    \A i \in 2..Len(log.played) :
        log.played[i].idx = log.played[i - 1].idx + log.played[i].skipped + 1

(* JitterBuffer: a packet that arrives before packets more than latency    *)
(* later is output, unless the buffer was full or the packet was before    *)
(* the first one to arrive.                                                *)
TimelyPlayed ==
    jitter.full \/ log.timely \subseteq {log.played[i].idx : i \in DOMAIN log.played}
                                        \union {p.idx : p \in jitter.buffer}

(* StreamStatistics: the number of packets expected is right across wraps, *)
(* late and repeated packets.                                              *)
ExpectedExact ==
    Heard # {} => packets_expected = Highest(Heard) - log.heard[1] + 1

(* NackHandler: of the numbers between the first and the highest packet    *)
(* each one has arrived, is asked for or was given up, and none that       *)
(* arrived is asked for; as long as the numbers do not come round.         *)
LossesAsked ==
    nackEnabled /\ Heard # {} /\ pos.cycle = 0 =>
        \A i \in log.heard[1] + 1..Highest(Heard) :
            IF i \in Heard THEN i \notin N!LostNumbers(nack)
            ELSE i \in N!LostNumbers(nack) \union nack.gaveUp

(* NackHandler: the same when the numbers come round, as the test "16bit   *)
(* rotate" has it.  Violated with packets that wrap, so no run asks for it. *)
RotatingLossesAsked ==
    nackEnabled /\ Heard # {} =>
        \A i \in log.heard[1] + 1..Highest(Heard) :
            i \in Heard \/ i % Cycle \in N!LostNumbers(nack) \union nack.gaveUp

(* NackHandler: it stops asking.                                           *)
RequestsEnd == <>[](nack.lost = {})

(* ReceiverTWCC: every number is reported once at most, the ones that      *)
(* arrived before the report as received, the others as not; what arrives  *)
(* ahead of the last report is in the next one.                            *)
FeedbackExact ==
    wide.on =>
        /\ ~log.wrong
        /\ log.wides \subseteq log.reported \union log.late \union {e.wide : e \in twcc.info}

(* What the jitter buffer plays is in sequence, once, and not late, until  *)
(* a packet sent again from half a cycle back is taken for one ahead.      *)
PlayedRight == TypeOK /\ (~strayed => PlayedInSequence /\ TimelyPlayed)

(* What the receiver tells the sender - the packets expected, the ones     *)
(* asked for again, the transport-wide feedback - is what it has seen, on  *)
(* the same condition.                                                     *)
ReceptionReported == ~strayed => ExpectedExact /\ LossesAsked /\ FeedbackExact
=============================================================================
