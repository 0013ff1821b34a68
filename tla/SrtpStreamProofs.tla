--------------------------- MODULE SrtpStreamProofs ---------------------------
(***************************************************************************)
(* Proofs about SrtpStream, for every length of the cycle, every highest   *)
(* rollover counter, every start and every loss, repetition and reordering *)
(* of packets.                                                             *)
(***************************************************************************)
EXTENDS SrtpStream, TLAPS

(* packetIndex is a natural number on positions.                           *)
LEMMA IndexType ==
    ASSUME NEW r \in Nat, NEW s \in 0..Cycle - 1
    PROVE  /\ Cycle \in Nat \ {0}
           /\ packetIndex(r, s) \in Nat
BY SrtpAssumption DEF Cycle, packetIndex

(* Two positions less than half a cycle apart are in the same cycle or in  *)
(* neighbouring ones, and their numbers tell which.                        *)
LEMMA Neighbours ==
    ASSUME NEW r1 \in Nat, NEW s1 \in 0..Cycle - 1,
           NEW r2 \in Nat, NEW s2 \in 0..Cycle - 1,
           packetIndex(r1, s1) - packetIndex(r2, s2) < Half,
           packetIndex(r2, s2) - packetIndex(r1, s1) < Half
    PROVE  \/ r1 = r2 /\ s1 - s2 < Half /\ s2 - s1 < Half
           \/ r1 = r2 + 1 /\ s2 - s1 > Half
           \/ r2 = r1 + 1 /\ s1 - s2 > Half
<1> USE SrtpAssumption
<1>1. Cycle \in Nat \ {0} /\ Cycle = 2 * Half /\ Half \in Nat \ {0}
  BY DEF Cycle
<1>2. CASE r1 = r2
  <2>1. r1 * Cycle = r2 * Cycle /\ r1 * Cycle \in Int
    BY <1>1, <1>2
  <2> QED
    BY <1>1, <1>2, <2>1 DEF packetIndex
<1>3. CASE r1 = r2 + 1
  <2>1. r1 * Cycle = r2 * Cycle + Cycle /\ r2 * Cycle \in Int
    BY <1>1, <1>3
  <2> QED
    BY <1>1, <1>3, <2>1 DEF packetIndex
<1>4. CASE r2 = r1 + 1
  <2>1. r2 * Cycle = r1 * Cycle + Cycle /\ r1 * Cycle \in Int
    BY <1>1, <1>4
  <2> QED
    BY <1>1, <1>4, <2>1 DEF packetIndex
<1>5. CASE r1 > r2 + 1
  <2>1. PICK d \in Nat : r1 = r2 + 2 + d
    <3>1. r1 - r2 - 2 \in Nat
      BY <1>5
    <3> QED
      BY <3>1
  <2>2. r1 * Cycle = r2 * Cycle + 2 * Cycle + d * Cycle /\ d * Cycle >= 0 /\ d * Cycle \in Int /\ r2 * Cycle \in Int
    BY <1>1, <2>1
  <2> QED
    BY <1>1, <2>2 DEF packetIndex
<1>6. CASE r2 > r1 + 1
  <2>1. PICK d \in Nat : r2 = r1 + 2 + d
    <3>1. r2 - r1 - 2 \in Nat
      BY <1>6
    <3> QED
      BY <3>1
  <2>2. r2 * Cycle = r1 * Cycle + 2 * Cycle + d * Cycle /\ d * Cycle >= 0 /\ d * Cycle \in Int /\ r1 * Cycle \in Int
    BY <1>1, <2>1
  <2> QED
    BY <1>1, <2>2 DEF packetIndex
<1> QED
  BY <1>2, <1>3, <1>4, <1>5, <1>6

(* The guess of RFC 3711 is right for a packet less than half a cycle away *)
(* from the highest index.                                                 *)
LEMMA GuessRight ==
    ASSUME NEW s \in State, s.started,
           NEW r \in Nat, NEW n \in 0..Cycle - 1,
           packetIndex(r, n) - packetIndex(s.roc, s.last) < Half,
           packetIndex(s.roc, s.last) - packetIndex(r, n) < Half
    PROVE  guessRolloverCounter(n, s) = r
<1>1. s.roc \in Nat /\ s.last \in 0..Cycle - 1 /\ Half \in Nat \ {0} /\ Cycle = 2 * Half
  BY SrtpAssumption DEF State, Cycle
<1>2. \/ r = s.roc /\ n - s.last < Half /\ s.last - n < Half
      \/ r = s.roc + 1 /\ s.last - n > Half
      \/ s.roc = r + 1 /\ n - s.last > Half
  BY <1>1, Neighbours
<1> QED
  BY <1>1, <1>2 DEF guessRolloverCounter

(* What the guess may be.                                                  *)
LEMMA GuessType ==
    ASSUME NEW s \in State, NEW n \in 0..Cycle - 1
    PROVE  /\ guessRolloverCounter(n, s) \in Int
           /\ ~Overflows(n, s) => estimateRolloverCounter(n, s) \in 0..MaxRollover
BY SrtpAssumption DEF State, guessRolloverCounter, Overflows, estimateRolloverCounter, Cycle

LEMMA CommitType ==
    ASSUME NEW s \in State, NEW n \in 0..Cycle - 1, NEW r \in 0..MaxRollover
    PROVE  commitPacketIndex(n, r, s) \in State
BY DEF State, commitPacketIndex

-----------------------------------------------------------------------------
(* The inductive invariant: until the stream is astray the sender's state  *)
(* is the last packet it numbered, less than half a cycle behind the next  *)
(* one and not behind its history, and the receiver's state is top.        *)
SenderTrue ==
    /\ snd.started => /\ packetIndex(snd.roc, snd.last) < Index(pos)
                      /\ Index(pos) - packetIndex(snd.roc, snd.last) < Half
    /\ ~snd.started => pos.cycle = 0 /\ cache = {}
    /\ \A c \in cache : /\ Index(c) <= packetIndex(snd.roc, snd.last)
                        /\ c.cycle <= MaxRollover

ReceiverTrue ==
    /\ rcv.started <=> top # -1
    /\ rcv.started => packetIndex(rcv.roc, rcv.last) = top

IInv ==
    /\ StreamTypeOK
    /\ ~Astray => SenderTrue /\ ReceiverTrue /\ \A p \in net : p.roc = p.cycle

LEMMA InitIInv == Init => IInv
<1> SUFFICES ASSUME Init PROVE IInv
  OBVIOUS
<1>1. StreamTypeOK
  <2>1. PICK n \in FirstNumbers : pos = [cycle |-> 0, seq |-> n]
    BY DEF Init
  <2>2. pos \in Position
    BY <2>1, SrtpAssumption DEF Position
  <2>3. NewState \in State
    BY SrtpAssumption DEF NewState, State, Cycle
  <2>4. strayed \in BOOLEAN
    BY DEF Init
  <2>5. wide \in [on : BOOLEAN, next : Nat]
    BY DEF Init
  <2>6. /\ snd \in State /\ rcv \in State /\ cache = {} /\ net = {} /\ top = -1
    BY <2>3 DEF Init
  <2> QED
    BY <2>2, <2>4, <2>5, <2>6 DEF StreamTypeOK
<1>2. SenderTrue /\ ReceiverTrue /\ net = {}
  BY DEF Init, SenderTrue, ReceiverTrue, NewState
<1> QED
  BY <1>1, <1>2 DEF IInv

(* What encryptRtp does, whatever packet it is given.                      *)
LEMMA EncryptType ==
    ASSUME StreamTypeOK, NEW c \in Position, encryptRtp(c)
    PROVE  /\ snd' \in State
           /\ net' \subseteq [cycle : Nat, seq : 0..Cycle - 1, roc : 0..MaxRollover, wide : Nat]
           /\ wide' \in [on : BOOLEAN, next : Nat]
<1>0. snd \in State /\ c.seq \in 0..Cycle - 1 /\ c.cycle \in Nat /\ wide \in [on : BOOLEAN, next : Nat]
  BY DEF StreamTypeOK, Position
<1>1. CASE Overflows(c.seq, snd)
  BY <1>1 DEF encryptRtp, StreamTypeOK
<1>2. CASE ~Overflows(c.seq, snd)
  <2>1. estimateRolloverCounter(c.seq, snd) \in 0..MaxRollover
    BY <1>0, <1>2, GuessType
  <2>2. snd' \in State
    BY <1>0, <1>2, <2>1, CommitType DEF encryptRtp
  <2>3. wide' \in [on : BOOLEAN, next : Nat]
    BY <1>0, <1>2 DEF encryptRtp
  <2> QED
    BY <1>0, <1>2, <2>1, <2>2, <2>3 DEF encryptRtp, StreamTypeOK
<1> QED
  BY <1>1, <1>2

(* A position near the sender's state is encrypted under its own cycle.    *)
LEMMA EncryptTrue ==
    ASSUME StreamTypeOK, NEW c \in Position, encryptRtp(c), c.cycle <= MaxRollover,
           snd.started => /\ Index(c) - packetIndex(snd.roc, snd.last) < Half
                          /\ packetIndex(snd.roc, snd.last) - Index(c) < Half,
           ~snd.started => c.cycle = 0
    PROVE  /\ snd' = commitPacketIndex(c.seq, c.cycle, snd)
           /\ \A p \in net' : p \in net \/ p.roc = p.cycle
<1>0. snd \in State /\ c.seq \in 0..Cycle - 1 /\ c.cycle \in Nat /\ MaxRollover \in Nat
  BY SrtpAssumption DEF StreamTypeOK, Position
<1>1. guessRolloverCounter(c.seq, snd) = c.cycle
  <2>1. CASE snd.started
    BY <1>0, <2>1, GuessRight DEF Index
  <2>2. CASE ~snd.started
    BY <2>2 DEF guessRolloverCounter
  <2> QED
    BY <2>1, <2>2
<1>2. ~Overflows(c.seq, snd) /\ estimateRolloverCounter(c.seq, snd) = c.cycle
  BY <1>0, <1>1 DEF Overflows, estimateRolloverCounter
<1> QED
  BY <1>2 DEF encryptRtp

(* The receiver's state after a packet, damaged or not.                    *)
LEMMA DecryptType ==
    ASSUME NEW s \in State, NEW n \in 0..Cycle - 1, NEW r, NEW p,
           p.seq = n, p.roc = r
    PROVE  decryptRtp(s, p) \in State
<1>1. CASE Authentic(s, p)
  <2>1. p.roc \in 0..MaxRollover
    BY <1>1, GuessType DEF Authentic
  <2> QED
    BY <1>1, <2>1, CommitType DEF decryptRtp
<1>2. CASE ~Authentic(s, p)
  BY <1>2 DEF decryptRtp
<1> QED
  BY <1>1, <1>2

(* The next position is gap further on.                                    *)
LEMMA AdvanceBy ==
    ASSUME NEW c \in Position, NEW gap \in 1..Half - 1
    PROVE  /\ Advance(c, gap) \in Position
           /\ Index(Advance(c, gap)) = Index(c) + gap
           /\ Advance(c, gap).cycle >= c.cycle
<1>1. c.cycle \in Nat /\ c.seq \in 0..Cycle - 1 /\ Cycle \in Nat \ {0} /\ Half \in Nat \ {0} /\ Cycle = 2 * Half
  BY SrtpAssumption DEF Position, Cycle
<1>2. CASE c.seq + gap >= Cycle
  <2>1. Advance(c, gap) = [cycle |-> c.cycle + 1, seq |-> c.seq + gap - Cycle]
    BY <1>2 DEF Advance
  <2>2. (c.cycle + 1) * Cycle = c.cycle * Cycle + Cycle /\ c.cycle * Cycle \in Nat
    BY <1>1
  <2> QED
    BY <1>1, <1>2, <2>1, <2>2 DEF Position, Index, packetIndex
<1>3. CASE ~(c.seq + gap >= Cycle)
  <2>1. Advance(c, gap) = [c EXCEPT !.seq = @ + gap]
    BY <1>3 DEF Advance
  <2>2. c.cycle * Cycle \in Nat
    BY <1>1
  <2> QED
    BY <1>1, <1>3, <2>1, <2>2 DEF Position, Index, packetIndex
<1> QED
  BY <1>2, <1>3

LEMMA SendStep ==
    ASSUME IInv, NEW gap \in Gaps, NEW kept \in BOOLEAN, Send(gap, kept)
    PROVE  IInv'
<1>0. /\ StreamTypeOK /\ pos \in Position /\ encryptRtp(pos)
      /\ snd \in State /\ gap \in 1..Half - 1
      /\ Half \in Nat \ {0} /\ MaxRollover \in Nat
      /\ cache' \subseteq cache \union {pos}
  BY SrtpAssumption DEF IInv, StreamTypeOK, Send, Remember
<1>1. /\ pos' \in Position /\ Index(pos') = Index(pos) + gap
      /\ pos'.cycle >= pos.cycle
  BY <1>0, AdvanceBy DEF Send
<1>2. StreamTypeOK'
  <2>1. cache' \subseteq Position
    BY <1>0 DEF Send, StreamTypeOK
  <2> QED
    BY <1>0, <1>1, <2>1, EncryptType DEF StreamTypeOK, Send
<1>3. ASSUME ~Astray'
      PROVE  SenderTrue' /\ ReceiverTrue' /\ \A p \in net' : p.roc = p.cycle
  <2>1. ~Astray /\ pos.cycle <= MaxRollover /\ pos.cycle \in Nat
    BY <1>0, <1>1, <1>3 DEF Astray, Exhausted, Position, Send
  <2>2. SenderTrue /\ ReceiverTrue /\ \A p \in net : p.roc = p.cycle
    BY <2>1 DEF IInv
  <2>3. packetIndex(snd.roc, snd.last) \in Nat /\ Index(pos) \in Nat
    BY <1>0, IndexType DEF State, Position, Index
  <2>4. /\ snd' = commitPacketIndex(pos.seq, pos.cycle, snd)
        /\ \A p \in net' : p \in net \/ p.roc = p.cycle
    BY <1>0, <2>1, <2>2, <2>3, EncryptTrue DEF SenderTrue
  <2>5. snd' = [started |-> TRUE, roc |-> pos.cycle, last |-> pos.seq]
    BY <1>0, <2>2, <2>3, <2>4 DEF SenderTrue, commitPacketIndex, Index
  <2>6. packetIndex(snd'.roc, snd'.last) = Index(pos) /\ snd'.started
    BY <2>5 DEF Index
  <2>7. \A c \in cache' : Index(c) <= Index(pos) /\ c.cycle <= MaxRollover
    <3> SUFFICES ASSUME NEW c \in cache'
                 PROVE  Index(c) <= Index(pos) /\ c.cycle <= MaxRollover
      OBVIOUS
    <3>1. c \in Position /\ Index(c) \in Nat /\ c \in cache \union {pos}
      BY <1>0, IndexType DEF StreamTypeOK, Position, Index
    <3>2. CASE c = pos
      BY <1>0, <2>1, <2>3, <3>2
    <3>3. CASE c \in cache
      <4>1. snd.started
        BY <2>2, <3>3 DEF SenderTrue
      <4> QED
        BY <1>0, <2>2, <2>3, <3>1, <3>3, <4>1 DEF SenderTrue
    <3> QED
      BY <3>1, <3>2, <3>3
  <2>8. SenderTrue'
    BY <1>0, <1>1, <2>3, <2>6, <2>7 DEF SenderTrue, Index
  <2>9. ReceiverTrue'
    BY <2>2 DEF ReceiverTrue, Send
  <2> QED
    BY <2>2, <2>4, <2>8, <2>9
<1> QED
  BY <1>2, <1>3 DEF IInv

LEMMA ResendStep ==
    ASSUME IInv, NEW c \in cache, Resend(c)
    PROVE  IInv'
<1>0. /\ StreamTypeOK /\ c \in Position /\ encryptRtp(c)
      /\ snd \in State /\ pos \in Position
      /\ pos' = pos /\ cache' = cache /\ rcv' = rcv /\ top' = top
      /\ strayed' \in BOOLEAN
  BY DEF IInv, StreamTypeOK, Resend
<1>1. StreamTypeOK'
  BY <1>0, EncryptType DEF StreamTypeOK
<1>2. ASSUME ~Astray'
      PROVE  SenderTrue' /\ ReceiverTrue' /\ \A p \in net' : p.roc = p.cycle
  <2>1. ~Astray /\ ~(Last - Index(c) >= Half)
    BY <1>0, <1>2 DEF Astray, Exhausted, Resend
  <2>2. SenderTrue /\ ReceiverTrue /\ \A p \in net : p.roc = p.cycle
    BY <2>1 DEF IInv
  <2>3. packetIndex(snd.roc, snd.last) \in Nat /\ Index(c) \in Nat /\ Half \in Nat \ {0}
    BY <1>0, IndexType, SrtpAssumption DEF State, Position, Index
  <2>4. snd.started
    BY <2>2 DEF SenderTrue
  <2>5. /\ Index(c) <= packetIndex(snd.roc, snd.last)
        /\ packetIndex(snd.roc, snd.last) - Index(c) < Half
        /\ c.cycle <= MaxRollover
    BY <2>1, <2>2, <2>3 DEF SenderTrue, Last
  <2>6. /\ snd' = commitPacketIndex(c.seq, c.cycle, snd)
        /\ \A p \in net' : p \in net \/ p.roc = p.cycle
    BY <1>0, <2>3, <2>4, <2>5, EncryptTrue
  <2>7. snd' = snd
    BY <2>3, <2>4, <2>5, <2>6 DEF commitPacketIndex, Index
  <2>8. SenderTrue' /\ ReceiverTrue'
    BY <1>0, <2>2, <2>7 DEF SenderTrue, ReceiverTrue, Index
  <2> QED
    BY <2>2, <2>6, <2>8
<1> QED
  BY <1>1, <1>2 DEF IInv

LEMMA ReceiveStep ==
    ASSUME IInv, NEW p \in net, NEW again \in BOOLEAN, Receive(p, again)
    PROVE  IInv'
<1>0. /\ StreamTypeOK /\ rcv \in State /\ top \in Nat \union {-1}
      /\ p.seq \in 0..Cycle - 1 /\ p.cycle \in Nat /\ p.roc \in 0..MaxRollover
      /\ Index(p) \in Nat /\ net' \subseteq net
      /\ pos' = pos /\ snd' = snd /\ cache' = cache /\ wide' = wide /\ strayed' = strayed
      /\ strayed \in BOOLEAN
  BY IndexType DEF IInv, StreamTypeOK, Receive, Index
<1>1. rcv' \in State /\ rcv' = decryptRtp(rcv, p)
  BY <1>0, DecryptType DEF Receive
<1>2. top' \in Nat \union {-1} /\ top' = IF Higher(p) THEN Index(p) ELSE top
  BY <1>0 DEF Receive
<1>3. StreamTypeOK'
  BY <1>0, <1>1, <1>2 DEF StreamTypeOK
<1>4. ASSUME ~Astray'
      PROVE  SenderTrue' /\ ReceiverTrue' /\ \A q \in net' : q.roc = q.cycle
  <2>1. SenderTrue /\ ReceiverTrue /\ \A q \in net : q.roc = q.cycle
    BY <1>0, <1>4 DEF IInv, Astray, Exhausted
  <2>2. SenderTrue'
    BY <1>0, <2>1 DEF SenderTrue, Index
  <2>3. packetIndex(p.roc, p.seq) = Index(p) /\ packetIndex(rcv.roc, rcv.last) \in Nat /\ Half \in Nat \ {0}
    BY <1>0, <2>1, IndexType, SrtpAssumption DEF Index, State
  <2>4. CASE Authentic(rcv, p)
    <3>1. rcv' = commitPacketIndex(p.seq, p.roc, rcv)
      BY <1>1, <2>4 DEF decryptRtp
    <3>2. CASE Higher(p)
      <4>1. rcv' = [started |-> TRUE, roc |-> p.roc, last |-> p.seq]
        BY <1>0, <2>1, <2>3, <3>1, <3>2 DEF ReceiverTrue, Higher, commitPacketIndex
      <4> QED
        BY <1>0, <1>2, <2>1, <2>2, <2>3, <3>2, <4>1 DEF ReceiverTrue
    <3>3. CASE ~Higher(p)
      <4>1. top # -1 /\ ~(Index(p) > top /\ Index(p) <= top + Half)
        BY <2>4, <3>3 DEF Higher
      <4>2. rcv.started /\ packetIndex(rcv.roc, rcv.last) = top
        BY <2>1, <4>1 DEF ReceiverTrue
      <4>3. rcv' = rcv
        BY <1>0, <2>3, <3>1, <4>1, <4>2 DEF commitPacketIndex
      <4> QED
        BY <1>0, <1>2, <2>1, <2>2, <3>3, <4>3 DEF ReceiverTrue
    <3> QED
      BY <3>2, <3>3
  <2>5. CASE ~Authentic(rcv, p)
    <3>1. rcv' = rcv /\ top' = top
      BY <1>1, <1>2, <2>5 DEF decryptRtp, Higher
    <3> QED
      BY <1>0, <2>1, <2>2, <3>1 DEF ReceiverTrue
  <2> QED
    BY <2>4, <2>5
<1> QED
  BY <1>3, <1>4 DEF IInv

LEMMA OtherSteps ==
    ASSUME IInv,
           \/ \E p \in net : Lose(p)
           \/ \E seq \in 0..Cycle - 1 : ReceiveDamaged(seq)
           \/ UNCHANGED svars
    PROVE  IInv'
<1>0. rcv \in State
  BY DEF IInv, StreamTypeOK
<1>1. /\ pos' = pos /\ snd' = snd /\ cache' = cache /\ wide' = wide /\ top' = top
      /\ net' \subseteq net /\ strayed' = strayed
  BY DEF Lose, ReceiveDamaged, svars
<1>2. rcv' = rcv
  <2>1. ASSUME NEW seq \in 0..Cycle - 1, ReceiveDamaged(seq) PROVE rcv' = rcv
    <3>1. ~Authentic(rcv, [seq |-> seq, roc |-> -1])
      <4>1. ~Overflows(seq, rcv) => estimateRolloverCounter(seq, rcv) \in 0..MaxRollover
        BY <1>0, GuessType
      <4> QED
        BY <4>1, SrtpAssumption DEF Authentic
    <3> QED
      BY <2>1, <3>1 DEF ReceiveDamaged, decryptRtp
  <2> QED
    BY <2>1 DEF Lose, svars
<1>3. StreamTypeOK'
  BY <1>1, <1>2 DEF IInv, StreamTypeOK
<1> QED
  BY <1>1, <1>2, <1>3 DEF IInv, Astray, Exhausted, SenderTrue, ReceiverTrue, Index

-----------------------------------------------------------------------------
(* encryptRtp and decryptRtp keep the invariant, for any number of         *)
(* packets, of losses, repetitions and damaged packets.                    *)
THEOREM Inductive == Spec => []IInv
<1>1. IInv /\ [Next]_svars => IInv'
  BY SendStep, ResendStep, ReceiveStep, OtherSteps DEF Next
<1> QED
  BY <1>1, InitIInv, PTL DEF Spec

(* The type invariant.                                                     *)
THEOREM StreamTypeCorrect == Spec => []StreamTypeOK
BY Inductive, PTL DEF IInv

(* encryptRtp never uses one key stream for two packets, unless a packet   *)
(* was sent again from half a cycle back.                                  *)
THEOREM KeystreamsDiffer == Spec => []EncryptedAtIndex
<1>1. IInv => EncryptedAtIndex
  BY DEF IInv, EncryptedAtIndex
<1> QED
  BY <1>1, Inductive, PTL

(* decryptRtp authenticates every packet less than half a cycle away from  *)
(* the highest one accepted, on the same condition.                        *)
THEOREM ReceiverInStep == Spec => []InStep
<1>1. IInv => InStep
  <2> SUFFICES ASSUME IInv, ~Astray, NEW p \in net, top # -1,
                      top - Half < Index(p), Index(p) < top + Half
               PROVE  Authentic(rcv, p)
    BY DEF InStep
  <2>1. /\ rcv \in State /\ rcv.started /\ packetIndex(rcv.roc, rcv.last) = top
        /\ top \in Nat /\ p.roc = p.cycle
        /\ p.seq \in 0..Cycle - 1 /\ p.cycle \in Nat /\ p.roc \in 0..MaxRollover
        /\ Index(p) \in Nat /\ Half \in Nat
    BY IndexType, SrtpAssumption DEF IInv, StreamTypeOK, ReceiverTrue, Index
  <2>2. guessRolloverCounter(p.seq, rcv) = p.roc
    BY <2>1, GuessRight DEF Index
  <2> QED
    BY <2>1, <2>2, SrtpAssumption DEF Authentic, Overflows, estimateRolloverCounter
<1> QED
  BY <1>1, Inductive, PTL
=============================================================================
