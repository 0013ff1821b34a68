--------------------------- MODULE RtpSenderProofs ---------------------------
(* Proofs about RtpSender for all sets of tracks, caps of the queues, sizes  *)
(* of the history and numbers of steps, within one cycle of numbers.         *)
EXTENDS RtpSender, Integers, FiniteSetTheorems, SequenceTheorems, WellFoundedInduction, TLAPS

-----------------------------------------------------------------------------
(* Sequence numbers: a and b are the same number of the cycle.               *)

Same(a, b) == \E q \in Int : a = b + Numbers * q

LEMMA NumbersType == Numbers \in Nat \ {0} /\ NoNumber = Numbers
BY ConstantsAssumption DEF NoNumber

LEMMA Quotient ==
    ASSUME NEW a \in Int, NEW N \in Nat \ {0}
    PROVE  a % N \in 0..N - 1 /\ a \div N \in Int /\ a = N * (a \div N) + (a % N)
OBVIOUS

LEMMA SameMod ==
    ASSUME NEW a \in Int
    PROVE  a % Numbers \in 0..Numbers - 1 /\ Same(a % Numbers, a)
<1>1. /\ a % Numbers \in 0..Numbers - 1 /\ a \div Numbers \in Int
      /\ a = Numbers * (a \div Numbers) + (a % Numbers)
  BY NumbersType, Quotient
<1>2. -(a \div Numbers) \in Int /\ a % Numbers = a + Numbers * (-(a \div Numbers))
  BY <1>1, NumbersType
<1> QED
  BY <1>1, <1>2 DEF Same

LEMMA SameEquals ==
    ASSUME NEW a \in 0..Numbers - 1, NEW b \in 0..Numbers - 1, Same(a, b)
    PROVE  a = b
<1>1. PICK q \in Int : a = b + Numbers * q
  BY DEF Same
<1>2. -Numbers < Numbers * q /\ Numbers * q < Numbers
  BY <1>1, NumbersType
<1>3. q = 0
  BY <1>2, NumbersType
<1> QED
  BY <1>1, <1>3, NumbersType

LEMMA SameBetween ==
    ASSUME NEW a \in Int, NEW d \in 1..Numbers - 1
    PROVE  ~Same(a, a + d)
<1> SUFFICES ASSUME NEW q \in Int, a = a + d + Numbers * q PROVE FALSE
  BY DEF Same
<1>1. -Numbers < Numbers * q /\ Numbers * q < 0
  BY NumbersType
<1>2. q = 0
  BY <1>1, NumbersType
<1> QED
  BY <1>1, <1>2, NumbersType

LEMMA SameRefl == \A a \in Int : Same(a, a)
<1>1. \A a \in Int : 0 \in Int /\ a = a + Numbers * 0
  BY NumbersType
<1> QED
  BY <1>1 DEF Same

LEMMA SameSum ==
    ASSUME NEW a \in Int, NEW b \in Int, NEW c \in Int, NEW d \in Int, Same(a, b), Same(c, d)
    PROVE  Same(a + c, b + d) /\ Same(a - c, b - d)
<1>1. PICK q \in Int : a = b + Numbers * q
  BY DEF Same
<1>2. PICK r \in Int : c = d + Numbers * r
  BY DEF Same
<1>3. /\ q + r \in Int /\ a + c = (b + d) + Numbers * (q + r)
      /\ q - r \in Int /\ a - c = (b - d) + Numbers * (q - r)
  BY <1>1, <1>2, NumbersType
<1> QED
  BY <1>3 DEF Same

LEMMA SameChain ==
    ASSUME NEW a \in Int, NEW b \in Int, NEW c \in Int, Same(a, b), Same(b, c) \/ Same(c, b)
    PROVE  Same(a, c)
<1>1. PICK q \in Int : a = b + Numbers * q
  BY DEF Same
<1>2. PICK r \in Int : b = c + Numbers * r
  <2>1. CASE Same(b, c)
    BY <2>1 DEF Same
  <2>2. CASE Same(c, b)
    <3>1. PICK r \in Int : c = b + Numbers * r
      BY <2>2 DEF Same
    <3>2. -r \in Int /\ b = c + Numbers * (-r)
      BY <3>1, NumbersType
    <3> QED
      BY <3>2
  <2> QED
    BY <2>1, <2>2
<1>3. q + r \in Int /\ a = c + Numbers * (q + r)
  BY <1>1, <1>2, NumbersType
<1> QED
  BY <1>3 DEF Same

LEMMA SameCycle == \A a \in Int : Same(a + Numbers, a)
<1>1. \A a \in Int : 1 \in Int /\ a + Numbers = a + Numbers * 1
  BY NumbersType
<1> QED
  BY <1>1 DEF Same

-----------------------------------------------------------------------------
(* The packets that stay in a queue are packets of that queue.              *)

LEMMA LeastNumber ==
    ASSUME NEW T \in SUBSET Nat, T # {}
    PROVE  \E x \in T : \A y \in T : x <= y
<1> DEFINE R == OpToRel(<, Nat)
<1>1. IsWellFoundedOn(R, Nat)
  BY NatLessThanWellFounded, Zenon
<1>2. \A x, y \in Nat : y < x => <<y, x>> \in R
  BY DEF OpToRel
<1> HIDE DEF R
<1>3. PICK x \in T : \A y \in T : ~(<<y, x>> \in R)
  BY <1>1, WFMin
<1>4. \A y \in T : x <= y
  <2>1. ASSUME NEW y \in T PROVE x <= y
    <3>1. x \in Nat /\ y \in Nat
      OBVIOUS
    <3>2. ~(y < x)
      BY <1>2, <1>3, <3>1
    <3> QED
      BY <3>1, <3>2
  <2> QED
    BY <2>1
<1> QED
  BY <1>4

\* Every place up to the size of a set of indices is taken by an index.
LEMMA Ranked ==
    ASSUME NEW I \in SUBSET Nat, IsFiniteSet(I), NEW k \in 1..Cardinality(I)
    PROVE  \E i \in I : Cardinality({j \in I : j < i}) = k - 1
<1> DEFINE Below(i) == {j \in I : j < i}
           T == {n \in 1..Cardinality(I) : \A i \in I : Cardinality(Below(i)) # n - 1}
<1> SUFFICES ASSUME T # {} PROVE FALSE
  OBVIOUS
<1>n. \A i \in I : i \in Nat
  OBVIOUS
<1>1. Cardinality(I) \in Nat /\ \A i \in I : IsFiniteSet(Below(i)) /\ Cardinality(Below(i)) \in Nat
  <2>1. \A i \in I : IsFiniteSet(Below(i))
    BY FS_Subset
  <2> HIDE DEF Below
  <2> QED
    BY <2>1, FS_CardinalityType
<1>2. PICK n \in T : \A m \in T : n <= m
  <2>1. T \in SUBSET Nat
    BY <1>1
  <2> QED
    BY <2>1, LeastNumber
<1>3. n \in Nat /\ n >= 1 /\ n <= Cardinality(I)
  BY <1>1
<1>4. CASE n = 1
  <2>1. I # {}
    BY <1>3, <1>1, FS_EmptySet
  <2>2. PICK i \in I : \A j \in I : i <= j
    BY <2>1, LeastNumber
  <2>3. Below(i) = {}
    <3>1. ASSUME NEW j \in I PROVE ~(j < i)
      <4>1. i \in Nat /\ j \in Nat /\ i <= j
        BY <1>n, <2>2
      <4> QED
        BY <4>1
    <3> QED
      BY <3>1
  <2>4. Cardinality(Below(i)) = 0
    BY <2>3, FS_EmptySet
  <2> QED
    BY <1>4, <2>4
<1>5. CASE n # 1
  <2>1. n - 1 \in 1..Cardinality(I) /\ n - 1 \notin T
    <3>1. n - 1 \in 1..Cardinality(I) /\ ~(n <= n - 1)
      BY <1>1, <1>3, <1>5
    <3> HIDE DEF T
    <3> QED
      BY <1>2, <3>1
  <2>2. PICK i \in I : Cardinality(Below(i)) = n - 2
    <3>1. PICK i \in I : Cardinality(Below(i)) = (n - 1) - 1
      BY <2>1
    <3> HIDE DEF Below
    <3>2. (n - 1) - 1 = n - 2
      BY <1>3
    <3> QED
      BY <3>1, <3>2
  <2> DEFINE Up == {j \in I : j > i}
             Upto == Below(i) \union {i}
  <2>3. i \notin Below(i) /\ IsFiniteSet(Below(i))
    BY <1>1
  <2>4. Cardinality(Upto) = n - 1
    <3> HIDE DEF Below
    <3>1. Cardinality(Upto) = Cardinality(Below(i)) + 1
      BY <2>3, FS_AddElement
    <3> QED
      BY <1>3, <2>2, <3>1
  <2>5. Up # {}
    <3> SUFFICES ASSUME Up = {} PROVE FALSE
      OBVIOUS
    <3>1. ASSUME NEW j \in I PROVE j < i \/ j = i
      <4>1. i \in Nat /\ j \in Nat /\ ~(j > i)
        BY <1>n
      <4> QED
        BY <4>1
    <3>2. I = Upto
      BY <3>1
    <3> QED
      BY <1>1, <1>3, <2>4, <3>2
  <2>6. PICK u \in Up : \A j \in Up : u <= j
    BY <2>5, LeastNumber
  <2>7. Below(u) = Upto
    <3>1. ASSUME NEW j \in I PROVE j < u <=> (j < i \/ j = i)
      <4>1. i \in Nat /\ j \in Nat /\ u \in Nat /\ u > i /\ (j > i => u <= j)
        BY <1>n, <2>6
      <4> QED
        BY <4>1
    <3>2. u \in I
      OBVIOUS
    <3> QED
      BY <3>1, <3>2
  <2>8. u \in I /\ Cardinality(Below(u)) = n - 1
    BY <2>4, <2>7
  <2> QED
    BY <2>8
<1> QED
  BY <1>4, <1>5

LEMMA FilteredFrom ==
    ASSUME NEW S, NEW q \in Seq(S), NEW I \in SUBSET (DOMAIN q)
    PROVE  /\ Filtered(q, I) \in Seq(S)
           /\ \A k \in 1..Len(Filtered(q, I)) : \E i \in I : Filtered(q, I)[k] = q[i]
<1> DEFINE Nth(k) == CHOOSE i \in I : Cardinality({j \in I : j < i}) = k - 1
           F == [k \in 1..Cardinality(I) |-> q[Nth(k)]]
<1>1. DOMAIN q = 1..Len(q) /\ Len(q) \in Nat /\ 1 \in Int /\ Len(q) \in Int
  OBVIOUS
<1>2. IsFiniteSet(DOMAIN q)
  BY <1>1, FS_Interval, Zenon
<1>3. I \in SUBSET Nat /\ IsFiniteSet(I)
  BY <1>1, <1>2, FS_Subset
<1>4. Cardinality(I) \in Nat
  BY <1>3, FS_CardinalityType
<1>5. \A k \in 1..Cardinality(I) : Nth(k) \in I
  BY <1>3, Ranked
<1> HIDE DEF Nth
<1>6. \A k \in 1..Cardinality(I) : q[Nth(k)] \in S
  BY <1>1, <1>5
<1>7. F \in Seq(S) /\ Len(F) = Cardinality(I)
  BY <1>4, <1>6
<1>8. \A k \in 1..Len(F) : \E i \in I : F[k] = q[i]
  BY <1>5, <1>7
<1>9. Filtered(q, I) = F
  BY DEF Filtered, Nth
<1> HIDE DEF F
<1> QED
  BY <1>7, <1>8, <1>9

-----------------------------------------------------------------------------
(* The inductive invariant, in named parts, of a sender x, what it wrote w,  *)
(* the packets g the tracks have given and their number c.                   *)

Packet ==
    [kind : {"media", "rtx"}, src : Tracks, n : Nat, id : Nat, epoch : Nat, seq : Nat,
     drained : BOOLEAN]
Task == [p : Packet, gen : Nat, st : {"wait", "done"}]

SenderType ==
    [track : Tracks \union {None}, ready : BOOLEAN, stopped : BOOLEAN, sendSuppressed : BOOLEAN,
     paced : BOOLEAN, generation : Nat, sourceEpoch : Nat, last : 0..Numbers,
     seqOffset : 0..Numbers - 1, pending : BOOLEAN, rtpCache : SUBSET Packet,
     pendingRtp : Seq(Packet), draining : {"idle", "waits", "resume"},
     task : {Idle} \union Task, fifo : Seq(Packet), out : Seq(Packet)]

IsMedia(p) == p.kind = "media"

\* Packet p came in behind all media of w.
Behind(p, w) == \A i \in 1..Len(w) : IsMedia(w[i]) => w[i].id < p.id

\* The number of p was sent with p.
Sent(p, w) == \E i \in 1..Len(w) : IsMedia(w[i]) /\ w[i].seq = p.seq /\ w[i].id = p.id

\* A packet that may still be written: media of the present source are numbered
\* by it one after the other.
Good(p, x, w, g, c) ==
    /\ IsMedia(p) =>
         /\ p.epoch <= x.sourceEpoch /\ p.id < c /\ Behind(p, w)
         /\ p.epoch = x.sourceEpoch /\ ~x.stopped =>
              /\ p.src = x.track
              /\ Same(p.n, FirstNumber[p.src] + g[p.src] + p.id - c)
    /\ ~IsMedia(p) => Sent(p, w)

\* What waits may still be written.
WaitingInv(x, w, g, c) ==
    /\ x.task.st = "wait" => Good(x.task.p, x, w, g, c)
    /\ \A i \in 1..Len(x.fifo) : Good(x.fifo[i], x, w, g, c)
    /\ \A i \in 1..Len(x.pendingRtp) : IsMedia(x.pendingRtp[i]) /\ Good(x.pendingRtp[i], x, w, g, c)

Ordered(q) == \A i, j \in 1..Len(q) : i < j /\ IsMedia(q[i]) /\ IsMedia(q[j]) => q[i].id < q[j].id

Before(p, q) == IsMedia(p) => \A i \in 1..Len(q) : IsMedia(q[i]) => p.id < q[i].id
After(p, q) == IsMedia(p) => \A i \in 1..Len(q) : IsMedia(q[i]) => q[i].id < p.id

\* The packet under way, the FIFO and the held packets are one line.
LineInv(x) ==
    /\ Ordered(x.fifo) /\ Ordered(x.pendingRtp)
    /\ \A i \in 1..Len(x.fifo) : Before(x.fifo[i], x.pendingRtp)
    /\ x.task.st = "wait" => Before(x.task.p, x.fifo) /\ Before(x.task.p, x.pendingRtp)
    /\ x.task = Idle => x.fifo = <<>>

\* Numbers go up with the packets, and by no more than the packets do.
Numbered(w) ==
    \A i, j \in 1..Len(w) : i < j /\ IsMedia(w[i]) /\ IsMedia(w[j]) =>
        \E d \in 1..(w[j].id - w[i].id) : Same(w[j].seq, w[i].seq + d)

\* What was written; the last number; and the number the next packet of the
\* track would get when the source does not change.
StreamInv(x, w, g, c) ==
    /\ \A i \in 1..Len(w) : IsMedia(w[i]) => w[i].seq \in 0..Numbers - 1 /\ w[i].id < c
    /\ Ordered(w) /\ Numbered(w)
    /\ \A i \in 1..Len(w) : ~IsMedia(w[i]) =>
          \E j \in 1..i - 1 : IsMedia(w[j]) /\ w[j].seq = w[i].seq /\ w[j].id = w[i].id
    /\ x.last = NoNumber => \A i \in 1..Len(w) : ~IsMedia(w[i])
    /\ x.last # NoNumber => \E k \in 1..Len(w) :
          /\ IsMedia(w[k]) /\ w[k].seq = x.last
          /\ \A i \in 1..Len(w) : IsMedia(w[i]) => i <= k
          /\ ~x.pending /\ ~x.stopped /\ x.track # None =>
                Same(FirstNumber[x.track] + g[x.track] + x.seqOffset, x.last + c - w[k].id)

\* The history holds packets that were sent, one for each slot.
CacheInv(x, w) ==
    /\ \A p \in x.rtpCache : IsMedia(p) /\ Sent(p, w)
    /\ \A p, q \in x.rtpCache : p.seq % HistorySize = q.seq % HistorySize => p = q

\* What a step wrote is of the present source, and allowed.
OutInv(x) ==
    \A i \in 1..Len(x.out) :
        ~x.stopped /\ (IsMedia(x.out[i]) => ~x.sendSuppressed /\ x.out[i].src = x.track)

SenderInv(x, w, g, c) ==
    /\ x \in SenderType /\ Len(x.pendingRtp) <= MaxPending
    /\ (~scenario.pendingRtp => x.pendingRtp = <<>>)
    /\ WaitingInv(x, w, g, c) /\ LineInv(x) /\ StreamInv(x, w, g, c) /\ CacheInv(x, w) /\ OutInv(x)

RtpInv ==
    /\ wire \in Seq(Packet) /\ given \in [Tracks -> Nat]
    /\ count \in [packets : 0..MaxPackets, switches : Nat, nacks : Nat]
    /\ s.out = <<>>
    /\ SenderInv(s, wire, given, count.packets)

-----------------------------------------------------------------------------
(* Fields, and what an operation leaves alone.                               *)

LEMMA Fields ==
    ASSUME NEW x \in SenderType
    PROVE  /\ x.track \in Tracks \union {None} /\ x.sourceEpoch \in Nat /\ x.generation \in Nat
           /\ x.last \in 0..Numbers /\ x.seqOffset \in 0..Numbers - 1
           /\ x.ready \in BOOLEAN /\ x.stopped \in BOOLEAN /\ x.sendSuppressed \in BOOLEAN
           /\ x.paced \in BOOLEAN /\ x.pending \in BOOLEAN
           /\ x.rtpCache \in SUBSET Packet /\ x.draining \in {"idle", "waits", "resume"}
           /\ x.task \in {Idle} \union Task
           /\ x.fifo \in Seq(Packet) /\ x.pendingRtp \in Seq(Packet) /\ x.out \in Seq(Packet)
BY DEF SenderType

LEMMA PacketFields ==
    ASSUME NEW p \in Packet
    PROVE  /\ p.kind \in {"media", "rtx"} /\ p.src \in Tracks /\ p.n \in Nat /\ p.id \in Nat
           /\ p.epoch \in Nat /\ p.seq \in Nat /\ p.drained \in BOOLEAN
BY DEF Packet

LEMMA TaskForms ==
    ASSUME NEW t \in {Idle} \union Task
    PROVE  /\ t.st \in {"idle", "wait", "done"} /\ (t = Idle <=> t.st = "idle")
           /\ t.st # "idle" => t \in Task /\ t.p \in Packet /\ t.gen \in Nat
BY DEF Idle, Task

LEMMA NewTask ==
    ASSUME NEW p \in Packet, NEW gen \in Nat, NEW st \in {"wait", "done"}
    PROVE  LET t == [p |-> p, gen |-> gen, st |-> st] IN
           t \in {Idle} \union Task /\ t.p = p /\ t.st = st /\ t # Idle
BY DEF Idle, Task

StreamFields ==
    {"track", "stopped", "sendSuppressed", "sourceEpoch", "last", "seqOffset", "pending",
     "rtpCache", "out"}

LEMMA GoodFrame ==
    ASSUME NEW x, NEW y, y.track = x.track, y.stopped = x.stopped, y.sourceEpoch = x.sourceEpoch,
           NEW w, NEW g, NEW c, NEW p
    PROVE  Good(p, y, w, g, c) <=> Good(p, x, w, g, c)
BY DEF Good

LEMMA StreamFrame ==
    ASSUME NEW x, NEW y, \A f \in StreamFields : y[f] = x[f], NEW w, NEW g, NEW c,
           StreamInv(x, w, g, c), CacheInv(x, w), OutInv(x)
    PROVE  StreamInv(y, w, g, c) /\ CacheInv(y, w) /\ OutInv(y)
<1>1. /\ y.track = x.track /\ y.stopped = x.stopped /\ y.sendSuppressed = x.sendSuppressed
      /\ y.last = x.last /\ y.seqOffset = x.seqOffset /\ y.pending = x.pending
      /\ y.rtpCache = x.rtpCache /\ y.out = x.out
  BY DEF StreamFields
<1>2. StreamInv(y, w, g, c)
  BY <1>1 DEF StreamInv
<1>3. CacheInv(y, w)
  BY <1>1 DEF CacheInv
<1>4. OutInv(y)
  BY <1>1 DEF OutInv
<1> QED
  BY <1>2, <1>3, <1>4

\* A step that only moves packets between the queues.
LEMMA QueueFrame ==
    ASSUME NEW x, NEW y \in SenderType, \A f \in StreamFields : y[f] = x[f], NEW w, NEW g, NEW c,
           SenderInv(x, w, g, c), Len(y.pendingRtp) <= MaxPending,
           ~scenario.pendingRtp => y.pendingRtp = <<>>,
           WaitingInv(y, w, g, c), LineInv(y)
    PROVE  SenderInv(y, w, g, c)
BY StreamFrame DEF SenderInv

-----------------------------------------------------------------------------
(* Writing a packet.                                                         *)

LEMMA AssignFields ==
    ASSUME NEW x \in SenderType, NEW p \in Packet
    PROVE  LET y == assign(x, p) IN
           /\ y \in SenderType
           /\ \A f \in {"track", "ready", "stopped", "sendSuppressed", "paced", "generation",
                        "sourceEpoch", "rtpCache", "pendingRtp", "draining", "task", "fifo", "out"} :
                 y[f] = x[f]
           /\ y.pending = FALSE /\ y.last \in 0..Numbers - 1
           /\ Same(y.last, p.n + y.seqOffset)
           /\ IF x.pending /\ x.last # NoNumber THEN Same(y.last, x.last + 1)
              ELSE y.seqOffset = x.seqOffset
<1> DEFINE moved == x.pending /\ x.last # NoNumber
           target == x.last + 1 + Numbers - p.n
           offset == IF moved THEN target % Numbers ELSE x.seqOffset
           l == (p.n + offset) % Numbers
           y == [x EXCEPT !.pending = FALSE, !.seqOffset = offset, !.last = l]
<1>1. p.n \in Nat /\ x.last \in 0..Numbers /\ x.seqOffset \in 0..Numbers - 1 /\ target \in Int
      /\ Numbers \in Nat /\ x.last \in Int
  BY Fields, PacketFields, NumbersType
<1> HIDE DEF target
<1>2. offset \in 0..Numbers - 1 /\ (moved => Same(offset, target))
  BY <1>1, SameMod
<1>3. p.n + offset \in Int /\ offset \in Int
  BY <1>1, <1>2
<1> HIDE DEF offset
<1>4. l \in 0..Numbers - 1 /\ Same(l, p.n + offset)
  BY <1>3, SameMod
<1>5. moved => Same(l, x.last + 1)
  <2> SUFFICES ASSUME moved PROVE Same(l, x.last + 1)
    OBVIOUS
  <2>1. Same(p.n + offset, p.n + target)
    <3>1. p.n \in Int /\ offset \in Int /\ target \in Int
      BY <1>1, <1>3
    <3>2. Same(p.n, p.n) /\ Same(offset, target)
      BY <1>2, <3>1, SameRefl
    <3> HIDE DEF moved
    <3> QED
      BY <3>1, <3>2, SameSum, Zenon
  <2>2. p.n + target = x.last + 1 + Numbers
    BY <1>1 DEF target
  <2>3. Same(p.n + target, x.last + 1)
    BY <1>1, <2>2, SameCycle
  <2>4. p.n + offset \in Int /\ p.n + target \in Int /\ x.last + 1 \in Int /\ l \in Int
    BY <1>1, <1>3, <1>4
  <2> HIDE DEF l
  <2> QED
    BY <1>4, <2>1, <2>3, <2>4, SameChain
<1> HIDE DEF l
<1>6. l \in 0..Numbers
  BY <1>1, <1>4
<1>7. /\ y \in SenderType /\ y.pending = FALSE /\ y.last = l /\ y.seqOffset = offset
      /\ \A f \in {"track", "ready", "stopped", "sendSuppressed", "paced", "generation",
                   "sourceEpoch", "rtpCache", "pendingRtp", "draining", "task", "fifo", "out"} :
            y[f] = x[f]
  BY <1>2, <1>6 DEF SenderType
<1>8. assign(x, p) = y
  BY DEF assign, y, l, offset, target
<1>9. ~moved => offset = x.seqOffset
  BY DEF offset
<1> HIDE DEF y, moved
<1>10. /\ y.last \in 0..Numbers - 1 /\ Same(y.last, p.n + y.seqOffset)
       /\ moved => Same(y.last, x.last + 1)
       /\ ~moved => y.seqOffset = x.seqOffset
  BY <1>4, <1>5, <1>7, <1>9
<1> QED
  BY <1>7, <1>8, <1>10 DEF moved

LEMMA WriteFields ==
    ASSUME NEW x \in SenderType, NEW p \in Packet, x.out = <<>>
    PROVE  LET y == Write(x, p)
               q == [p EXCEPT !.seq = assign(x, p).last]
           IN
           /\ y \in SenderType
           /\ \A f \in {"track", "ready", "stopped", "sendSuppressed", "paced", "generation",
                        "sourceEpoch", "pendingRtp", "draining", "task", "fifo"} : y[f] = x[f]
           /\ ~IsMedia(p) => /\ y.out = <<p>>
                             /\ \A f \in {"last", "seqOffset", "pending", "rtpCache"} : y[f] = x[f]
           /\ IsMedia(p) =>
                /\ q \in Packet /\ IsMedia(q) /\ q.seq = y.last /\ q.id = p.id /\ q.src = p.src
                /\ y.out = <<q>>
                /\ \A f \in {"last", "seqOffset", "pending"} : y[f] = assign(x, p)[f]
                /\ y.rtpCache = {d \in x.rtpCache : d.seq % HistorySize # q.seq % HistorySize} \union {q}
<1> DEFINE a == assign(x, p)
           q == [p EXCEPT !.seq = a.last]
           cache == {d \in a.rtpCache : d.seq % HistorySize # q.seq % HistorySize} \union {q}
<1>1. CASE ~IsMedia(p)
  <2>1. p.kind = "rtx"
    BY <1>1, PacketFields DEF IsMedia
  <2>2. Write(x, p) = [x EXCEPT !.out = <<p>>]
    BY <2>1 DEF Write
  <2>3. <<p>> \in Seq(Packet)
    OBVIOUS
  <2> QED
    BY <1>1, <2>2, <2>3 DEF SenderType
<1>2. CASE IsMedia(p)
  <2>1. /\ a \in SenderType /\ a.last \in Nat
        /\ \A f \in {"track", "ready", "stopped", "sendSuppressed", "paced", "generation",
                     "sourceEpoch", "rtpCache", "pendingRtp", "draining", "task", "fifo", "out"} :
              a[f] = x[f]
    <3>1. a.last \in 0..Numbers - 1
      BY AssignFields
    <3>2. a.last \in Nat
      BY <3>1, NumbersType
    <3> QED
      BY <3>2, AssignFields
  <2> HIDE DEF a
  <2>2. q \in Packet /\ q.kind = p.kind /\ q.seq = a.last /\ q.id = p.id /\ q.src = p.src
    BY <2>1 DEF Packet
  <2> HIDE DEF q
  <2>3. <<q>> \in Seq(Packet) /\ cache \in SUBSET Packet
    BY <2>1, <2>2, Fields
  <2>4. Write(x, p) = [a EXCEPT !.out = <<q>>, !.rtpCache = cache]
    <3>1. a.out = <<>> /\ p.kind # "rtx"
      BY <1>2, <2>1 DEF IsMedia
    <3> QED
      BY <3>1 DEF Write, a, q
  <2>5. cache = {d \in x.rtpCache : d.seq % HistorySize # q.seq % HistorySize} \union {q}
    BY <2>1
  <2> HIDE DEF cache
  <2> DEFINE y == [a EXCEPT !.out = <<q>>, !.rtpCache = cache]
  <2>6. /\ y \in SenderType /\ y.out = <<q>> /\ y.rtpCache = cache
        /\ \A f \in {"track", "ready", "stopped", "sendSuppressed", "paced", "generation",
                     "sourceEpoch", "pendingRtp", "draining", "task", "fifo",
                     "last", "seqOffset", "pending"} : y[f] = a[f]
    BY <2>1, <2>3 DEF SenderType
  <2> HIDE DEF y
  <2>7. Write(x, p) = y
    BY <2>4 DEF y
  <2> QED
    BY <1>2, <2>1, <2>2, <2>5, <2>6, <2>7 DEF IsMedia, q, a
<1> QED
  BY <1>1, <1>2

\* Sums of the numbers a stream counts with.
LEMMA SumInt ==
    ASSUME NEW a \in Int, NEW b \in Int, NEW d \in Int, NEW h \in Int
    PROVE  /\ a + b - d \in Int /\ b - d \in Int
           /\ (a + b - d) - (b - d) = a
           /\ (h + b - a) - (b - d) = h + (d - a)
OBVIOUS

\* The number given to p follows the numbers given before.
LEMMA NumberFollows ==
    ASSUME NEW x \in SenderType, NEW w \in Seq(Packet), NEW g \in [Tracks -> Nat], NEW c \in Nat,
           StreamInv(x, w, g, c), NEW p \in Packet, IsMedia(p), Good(p, x, w, g, c),
           p.epoch = x.sourceEpoch, ~x.stopped, NEW y, y = assign(x, p)
    PROVE  /\ Same(FirstNumber[x.track] + g[x.track] + y.seqOffset, y.last + c - p.id)
           /\ \A i \in 1..Len(w) : IsMedia(w[i]) =>
                 \E d \in 1..(p.id - w[i].id) : Same(y.last, w[i].seq + d)
<1>t. /\ p.id \in Nat /\ p.n \in Nat /\ p.src = x.track /\ p.src \in Tracks /\ p.id < c /\ Behind(p, w)
      /\ Same(p.n, FirstNumber[x.track] + g[x.track] + p.id - c)
  BY PacketFields DEF Good
<1> DEFINE F == FirstNumber[x.track] + g[x.track]
<1>f. F \in Nat
  BY <1>t, ConstantsAssumption
<1>1. /\ y \in SenderType /\ y.last \in 0..Numbers - 1 /\ Same(y.last, p.n + y.seqOffset)
      /\ IF x.pending /\ x.last # NoNumber THEN Same(y.last, x.last + 1)
         ELSE y.seqOffset = x.seqOffset
  BY AssignFields
<1>2. y.last \in Int /\ y.seqOffset \in Int /\ p.n \in Int /\ p.id \in Int /\ c \in Int
      /\ x.last \in Int
  BY <1>1, <1>t, Fields, NumbersType
<1> HIDE DEF F
<1>3. Same(p.n + y.seqOffset, F + p.id - c + y.seqOffset)
  <2>1. Same(p.n, F + p.id - c) /\ Same(y.seqOffset, y.seqOffset) /\ F + p.id - c \in Int
    BY <1>2, <1>f, <1>t, SameRefl DEF F
  <2> QED
    BY <1>2, <2>1, SameSum
<1>4. Same(y.last, F + p.id - c + y.seqOffset)
  <2>1. p.n + y.seqOffset \in Int /\ F + p.id - c + y.seqOffset \in Int
    BY <1>2, <1>f
  <2> QED
    BY <1>1, <1>2, <1>3, <2>1, SameChain
<1>5. Same(F + y.seqOffset, y.last + c - p.id)
  <2>1. c - p.id \in Int /\ Same(c - p.id, c - p.id) /\ F + p.id - c + y.seqOffset \in Int
    BY <1>2, <1>f, SameRefl
  <2>2. Same(y.last + (c - p.id), (F + p.id - c + y.seqOffset) + (c - p.id))
    BY <1>2, <1>4, <2>1, SameSum
  <2>3. y.last + (c - p.id) = y.last + c - p.id
        /\ (F + p.id - c + y.seqOffset) + (c - p.id) = F + y.seqOffset
    BY <1>2, <1>f
  <2>4. Same(y.last + c - p.id, F + y.seqOffset)
    BY <2>2, <2>3
  <2>5. y.last + c - p.id \in Int /\ F + y.seqOffset \in Int
    BY <1>2, <1>f
  <2> QED
    BY <2>4, <2>5, SameChain, SameRefl
<1>6. ASSUME NEW i \in 1..Len(w), IsMedia(w[i])
      PROVE  \E d \in 1..(p.id - w[i].id) : Same(y.last, w[i].seq + d)
  <2>t. w[i].id \in Nat /\ w[i].seq \in Nat /\ w[i].id < p.id
    BY <1>6, <1>t, PacketFields DEF Behind
  <2>1. x.last # NoNumber
    BY <1>6 DEF StreamInv
  <2>2. PICK k \in 1..Len(w) :
          /\ IsMedia(w[k]) /\ w[k].seq = x.last
          /\ \A j \in 1..Len(w) : IsMedia(w[j]) => j <= k
          /\ ~x.pending /\ ~x.stopped /\ x.track # None =>
                Same(F + x.seqOffset, x.last + c - w[k].id)
    BY <2>1 DEF StreamInv, F
  <2>k. w[k].id \in Nat /\ w[k].id < p.id
    BY <1>t, <2>2, PacketFields DEF Behind
  \* The step from the last number to the new one.
  <2>3. \E e \in 1..(p.id - w[k].id) : Same(y.last, x.last + e)
    <3>1. CASE x.pending
      <4>1. Same(y.last, x.last + 1)
        BY <1>1, <2>1, <3>1
      <4>2. 1 \in 1..(p.id - w[k].id)
        BY <1>t, <2>k
      <4> QED
        BY <4>1, <4>2
    <3>2. CASE ~x.pending
      <4>1. x.track # None /\ y.seqOffset = x.seqOffset
        BY <1>1, <1>t, <3>2, ConstantsAssumption
      <4>2. Same(F + y.seqOffset, x.last + c - w[k].id)
        BY <2>2, <3>2, <4>1
      <4> DEFINE m == w[k].id
                 e == p.id - m
      <4>m. m \in Int /\ Same(F + y.seqOffset, x.last + c - m) /\ e \in 1..(p.id - w[k].id)
        BY <1>t, <2>k, <4>2
      <4>i. m \in Int
        BY <2>k
      <4>e. e = p.id - m
        OBVIOUS
      <4> HIDE DEF m, e
      <4>3. Same(y.last + c - p.id, x.last + c - m)
        <5>a. y.last + c - p.id \in Int
          BY <1>2, SumInt
        <5>b. F + y.seqOffset \in Int
          BY <1>2, <1>f
        <5>c. x.last + c - m \in Int
          BY <1>2, <4>i, SumInt
        <5>1. y.last + c - p.id \in Int /\ F + y.seqOffset \in Int /\ x.last + c - m \in Int
          BY <5>a, <5>b, <5>c
        <5>2. Same(y.last + c - p.id, F + y.seqOffset)
          BY <1>5, <5>1, SameChain, SameRefl
        <5> QED
          BY <4>m, <5>1, <5>2, SameChain
      <4>4. Same((y.last + c - p.id) - (c - p.id), (x.last + c - m) - (c - p.id))
        <5>a. y.last + c - p.id \in Int
          BY <1>2, SumInt
        <5>b. x.last + c - m \in Int
          BY <1>2, <4>i, SumInt
        <5>c. c - p.id \in Int
          BY <1>2, SumInt
        <5>d. Same(c - p.id, c - p.id)
          BY <5>c, SameRefl
        <5> QED
          BY <4>3, <5>a, <5>b, <5>c, <5>d, SameSum
      <4>5. /\ (y.last + c - p.id) - (c - p.id) = y.last
            /\ (x.last + c - m) - (c - p.id) = x.last + e
        <5>1. (y.last + c - p.id) - (c - p.id) = y.last
          BY <1>2, SumInt
        <5>2. (x.last + c - m) - (c - p.id) = x.last + (p.id - m)
          BY <1>2, <4>i, SumInt
        <5> QED
          BY <4>e, <5>1, <5>2
      <4> QED
        BY <4>4, <4>5, <4>m
    <3> QED
      BY <3>1, <3>2
  <2>4. PICK e \in 1..(p.id - w[k].id) : Same(y.last, x.last + e)
    BY <2>3
  <2>5. CASE i = k
    BY <2>2, <2>4, <2>5
  <2>6. CASE i # k
    <3>1. i < k
      BY <1>6, <2>2, <2>6
    <3>2. PICK d \in 1..(w[k].id - w[i].id) : Same(x.last, w[i].seq + d)
      BY <1>6, <2>2, <3>1 DEF StreamInv, Numbered
    <3>3. d \in Int /\ e \in Int /\ d >= 1 /\ e >= 1 /\ d <= w[k].id - w[i].id /\ e <= p.id - w[k].id
      BY <1>t, <2>k, <2>t
    <3>4. Same(x.last + e, w[i].seq + d + e)
      <4>1. w[i].seq + d \in Int
        BY <2>t, <3>3
      <4>2. Same(e, e)
        BY <3>3, SameRefl
      <4>3. Same(x.last, w[i].seq + d) /\ x.last \in Int /\ e \in Int
        BY <1>2, <3>2, <3>3
      <4> QED
        BY <4>1, <4>2, <4>3, SameSum
    <3>5. Same(y.last, w[i].seq + (d + e))
      <4>1. w[i].seq + d + e = w[i].seq + (d + e) /\ w[i].seq + d + e \in Int
        BY <2>t, <3>3
      <4>2. x.last + e \in Int /\ y.last \in Int
        BY <1>2, <3>3
      <4>3. Same(y.last, w[i].seq + d + e)
        BY <2>4, <3>4, <4>1, <4>2, SameChain
      <4> QED
        BY <4>1, <4>3
    <3>6. d + e \in 1..(p.id - w[i].id)
      <4>1. p.id \in Int /\ w[k].id \in Int /\ w[i].id \in Int
        BY <1>2, <2>k, <2>t
      <4> QED
        BY <3>3, <4>1
    <3> QED
      BY <3>5, <3>6
  <2> QED
    BY <2>5, <2>6
<1> QED
  BY <1>5, <1>6 DEF F

LEMMA Grown ==
    ASSUME NEW w \in Seq(Packet), NEW q \in Packet
    PROVE  LET v == w \o <<q>> IN
           /\ v \in Seq(Packet) /\ Len(v) = Len(w) + 1 /\ v[Len(w) + 1] = q
           /\ \A i \in 1..Len(w) : v[i] = w[i] /\ i \in 1..Len(v)
           /\ \A i \in 1..Len(v) : i \in 1..Len(w) \/ i = Len(w) + 1
<1>1. <<q>> \in Seq(Packet) /\ Len(<<q>>) = 1 /\ <<q>>[1] = q
  OBVIOUS
<1>2. Len(w) \in Nat
  OBVIOUS
<1>3. /\ w \o <<q>> \in Seq(Packet) /\ Len(w \o <<q>>) = Len(w) + 1
      /\ \A i \in 1..Len(w) + 1 :
            (w \o <<q>>)[i] = IF i <= Len(w) THEN w[i] ELSE <<q>>[i - Len(w)]
  BY <1>1, ConcatProperties
<1>4. (w \o <<q>>)[Len(w) + 1] = q
  BY <1>1, <1>2, <1>3
<1> QED
  BY <1>2, <1>3, <1>4

LEMMA GoodGrown ==
    ASSUME NEW w \in Seq(Packet), NEW q \in Packet, NEW x, NEW g, NEW c, NEW p,
           Good(p, x, w, g, c), IsMedia(q) /\ IsMedia(p) => q.id < p.id
    PROVE  Good(p, x, w \o <<q>>, g, c)
<1> DEFINE v == w \o <<q>>
<1>1. /\ Len(v) = Len(w) + 1 /\ v[Len(w) + 1] = q
      /\ \A i \in 1..Len(w) : v[i] = w[i] /\ i \in 1..Len(v)
      /\ \A i \in 1..Len(v) : i \in 1..Len(w) \/ i = Len(w) + 1
  BY Grown
<1> HIDE DEF v
<1>2. CASE IsMedia(p)
  <2>1. Behind(p, v)
    BY <1>1, <1>2 DEF Good, Behind
  <2> QED
    BY <1>2, <2>1 DEF Good, v
<1>3. CASE ~IsMedia(p)
  <2>1. PICK i \in 1..Len(w) : IsMedia(w[i]) /\ w[i].seq = p.seq /\ w[i].id = p.id
    BY <1>3 DEF Good, Sent
  <2>2. i \in 1..Len(v) /\ v[i] = w[i]
    BY <1>1
  <2>3. Sent(p, v)
    BY <2>1, <2>2 DEF Sent
  <2> QED
    BY <1>3, <2>3 DEF Good, v
<1> QED
  BY <1>2, <1>3

\* A packet that may be sent, and none of those that wait came in before it, is
\* numbered, kept in the history and written.
LEMMA WriteInv ==
    ASSUME NEW x, NEW w \in Seq(Packet), NEW g \in [Tracks -> Nat], NEW c \in Nat,
           SenderInv(x, w, g, c), x.out = <<>>, NEW p \in Packet, Good(p, x, w, g, c),
           Sendable(x, p), x.task.st # "wait", Before(p, x.fifo), Before(p, x.pendingRtp)
    PROVE  /\ SenderInv(Write(x, p), w \o Write(x, p).out, g, c)
           /\ Write(x, p).out \in Seq(Packet) /\ Write(x, p).task = x.task
           /\ Write(x, p).fifo = x.fifo /\ Write(x, p).pendingRtp = x.pendingRtp
           /\ Write(x, p).generation = x.generation
<1> DEFINE y == Write(x, p)
           q == IF IsMedia(p) THEN [p EXCEPT !.seq = assign(x, p).last] ELSE p
           v == w \o <<q>>
<1>i. /\ x \in SenderType /\ Len(x.pendingRtp) <= MaxPending
      /\ (~scenario.pendingRtp => x.pendingRtp = <<>>)
      /\ WaitingInv(x, w, g, c) /\ LineInv(x) /\ StreamInv(x, w, g, c) /\ CacheInv(x, w) /\ OutInv(x)
  BY DEF SenderInv
<1>1. /\ y \in SenderType /\ q \in Packet /\ y.out = <<q>>
      /\ y.track = x.track /\ y.stopped = x.stopped /\ y.sendSuppressed = x.sendSuppressed
      /\ y.sourceEpoch = x.sourceEpoch /\ y.pendingRtp = x.pendingRtp /\ y.task = x.task
      /\ y.fifo = x.fifo /\ y.generation = x.generation
      /\ IsMedia(q) <=> IsMedia(p)
      /\ q.id = p.id /\ q.src = p.src
  BY <1>i, WriteFields
<1>2. IsMedia(p) =>
         /\ q.seq = y.last /\ y.last = assign(x, p).last /\ y.seqOffset = assign(x, p).seqOffset
         /\ y.pending = assign(x, p).pending
         /\ y.rtpCache = {d \in x.rtpCache : d.seq % HistorySize # q.seq % HistorySize} \union {q}
  <2> SUFFICES ASSUME IsMedia(p)
               PROVE  /\ q.seq = y.last /\ y.last = assign(x, p).last
                      /\ y.seqOffset = assign(x, p).seqOffset /\ y.pending = assign(x, p).pending
                      /\ y.rtpCache = {d \in x.rtpCache : d.seq % HistorySize # q.seq % HistorySize}
                                        \union {q}
    OBVIOUS
  <2> DEFINE r == [p EXCEPT !.seq = assign(x, p).last]
  <2>1. /\ r.seq = y.last
        /\ \A f \in {"last", "seqOffset", "pending"} : y[f] = assign(x, p)[f]
    BY <1>i, WriteFields
  <2>2. y.rtpCache = {d \in x.rtpCache : d.seq % HistorySize # r.seq % HistorySize} \union {r}
    BY <1>i, WriteFields
  <2>3. q = r
    OBVIOUS
  <2> HIDE DEF r, q, y
  <2> QED
    BY <2>1, <2>2, <2>3
<1>3. ~IsMedia(p) => /\ q = p /\ y.last = x.last /\ y.seqOffset = x.seqOffset
                     /\ y.pending = x.pending /\ y.rtpCache = x.rtpCache
  BY <1>i, WriteFields
<1> HIDE DEF y, q
<1>4. /\ v \in Seq(Packet) /\ Len(v) = Len(w) + 1 /\ v[Len(w) + 1] = q
      /\ \A i \in 1..Len(w) : v[i] = w[i] /\ i \in 1..Len(v)
      /\ \A i \in 1..Len(v) : i \in 1..Len(w) \/ i = Len(w) + 1
  BY <1>1, Grown
<1>5. /\ ~x.stopped /\ (x.sendSuppressed => ~IsMedia(p))
      /\ IsMedia(p) => p.epoch = x.sourceEpoch
  BY DEF Sendable, isStaleSource, IsMedia
<1>6. p.id \in Nat /\ q.id \in Nat /\ Len(w) \in Nat
  BY <1>1, PacketFields
<1>7. WaitingInv(y, v, g, c)
  <2>1. ASSUME NEW r, Good(r, x, w, g, c), IsMedia(p) /\ IsMedia(r) => p.id < r.id
        PROVE  Good(r, y, v, g, c)
    <3>1. Good(r, x, v, g, c)
      BY <1>1, <2>1, GoodGrown
    <3> QED
      BY <1>1, <3>1, GoodFrame
  <2>2. \A i \in 1..Len(x.fifo) : Good(x.fifo[i], y, v, g, c)
    BY <1>i, <2>1 DEF WaitingInv, Before
  <2>3. \A i \in 1..Len(x.pendingRtp) : IsMedia(x.pendingRtp[i]) /\ Good(x.pendingRtp[i], y, v, g, c)
    BY <1>i, <2>1 DEF WaitingInv, Before
  <2> QED
    BY <1>1, <2>2, <2>3 DEF WaitingInv
<1>8. LineInv(y)
  BY <1>1, <1>i DEF LineInv
<1> HIDE DEF v
<1>s. Sent(q, v) \/ ~IsMedia(p)
  BY <1>1, <1>4, <1>6 DEF Sent
<1>9. StreamInv(y, v, g, c)
  <2>1. CASE IsMedia(p)
    <3>1. /\ Same(FirstNumber[x.track] + g[x.track] + y.seqOffset, y.last + c - p.id)
          /\ \A i \in 1..Len(w) : IsMedia(w[i]) =>
                \E d \in 1..(p.id - w[i].id) : Same(y.last, w[i].seq + d)
      <4>1. /\ Same(FirstNumber[x.track] + g[x.track] + assign(x, p).seqOffset, assign(x, p).last + c - p.id)
            /\ \A i \in 1..Len(w) : IsMedia(w[i]) =>
                  \E d \in 1..(p.id - w[i].id) : Same(assign(x, p).last, w[i].seq + d)
        BY <1>5, <1>i, <2>1, NumberFollows
      <4> QED
        BY <1>2, <2>1, <4>1
    <3>2. y.last \in 0..Numbers - 1 /\ y.last # NoNumber
      <4>1. y.last \in 0..Numbers - 1
        BY <1>2, <1>i, <2>1, AssignFields
      <4> QED
        BY <4>1, NumbersType
    <3>3. p.id < c /\ Behind(p, w)
      BY <2>1 DEF Good
    <3>4. \A i \in 1..Len(v) : IsMedia(v[i]) => v[i].seq \in 0..Numbers - 1 /\ v[i].id < c
      BY <1>1, <1>2, <1>4, <1>i, <2>1, <3>2, <3>3 DEF StreamInv
    <3>5. Ordered(v)
      <4>1. ASSUME NEW i \in 1..Len(v), NEW j \in 1..Len(v), i < j, IsMedia(v[i]), IsMedia(v[j])
            PROVE  v[i].id < v[j].id
        <5>1. i \in 1..Len(w)
          BY <1>4, <1>6, <4>1
        <5>2. CASE j \in 1..Len(w)
          BY <1>4, <1>i, <4>1, <5>1, <5>2 DEF StreamInv, Ordered
        <5>3. CASE j = Len(w) + 1
          BY <1>1, <1>4, <3>3, <4>1, <5>1, <5>3 DEF Behind
        <5> QED
          BY <1>4, <5>2, <5>3
      <4> QED
        BY <4>1 DEF Ordered
    <3>6. Numbered(v)
      <4>1. ASSUME NEW i \in 1..Len(v), NEW j \in 1..Len(v), i < j, IsMedia(v[i]), IsMedia(v[j])
            PROVE  \E d \in 1..(v[j].id - v[i].id) : Same(v[j].seq, v[i].seq + d)
        <5>1. i \in 1..Len(w) /\ v[i] = w[i]
          BY <1>4, <1>6, <4>1
        <5>2. CASE j \in 1..Len(w)
          BY <1>4, <1>i, <4>1, <5>1, <5>2 DEF StreamInv, Numbered
        <5>3. CASE j = Len(w) + 1
          <6>1. v[j].id = p.id /\ v[j].seq = y.last
            BY <1>1, <1>2, <1>4, <2>1, <5>3
          <6>2. IsMedia(w[i])
            BY <4>1, <5>1
          <6> QED
            BY <3>1, <5>1, <6>1, <6>2
        <5> QED
          BY <1>4, <5>2, <5>3
      <4> QED
        BY <4>1 DEF Numbered
    <3>7. \A i \in 1..Len(v) : ~IsMedia(v[i]) =>
             \E j \in 1..i - 1 : IsMedia(v[j]) /\ v[j].seq = v[i].seq /\ v[j].id = v[i].id
      <4>1. ASSUME NEW i \in 1..Len(v), ~IsMedia(v[i])
            PROVE  \E j \in 1..i - 1 : IsMedia(v[j]) /\ v[j].seq = v[i].seq /\ v[j].id = v[i].id
        <5>1. i \in 1..Len(w) /\ v[i] = w[i]
          BY <1>1, <1>4, <2>1, <4>1
        <5>2. PICK j \in 1..i - 1 : IsMedia(w[j]) /\ w[j].seq = w[i].seq /\ w[j].id = w[i].id
          BY <1>i, <4>1, <5>1 DEF StreamInv
        <5>3. j \in 1..Len(w)
          BY <1>6, <5>1
        <5> QED
          BY <1>4, <5>1, <5>2, <5>3
      <4> QED
        BY <4>1
    <3>8. Len(w) + 1 \in 1..Len(v) /\ IsMedia(v[Len(w) + 1]) /\ v[Len(w) + 1].seq = y.last
          /\ v[Len(w) + 1].id = p.id /\ \A i \in 1..Len(v) : i <= Len(w) + 1
      BY <1>1, <1>2, <1>4, <1>6, <2>1
    <3> QED
      BY <1>1, <3>1, <3>2, <3>4, <3>5, <3>6, <3>7, <3>8 DEF StreamInv
  <2>2. CASE ~IsMedia(p)
    <3>1. ~IsMedia(q) /\ q = p
      BY <1>1, <1>3, <2>2
    <3>2. \A i \in 1..Len(v) : IsMedia(v[i]) => i \in 1..Len(w) /\ v[i] = w[i]
      BY <1>4, <3>1
    <3>3. \A i \in 1..Len(v) : IsMedia(v[i]) => v[i].seq \in 0..Numbers - 1 /\ v[i].id < c
      BY <1>i, <3>2 DEF StreamInv
    <3>4. Ordered(v)
      BY <1>i, <3>2 DEF StreamInv, Ordered
    <3>5. Numbered(v)
      BY <1>i, <3>2 DEF StreamInv, Numbered
    <3>6. \A i \in 1..Len(v) : ~IsMedia(v[i]) =>
             \E j \in 1..i - 1 : IsMedia(v[j]) /\ v[j].seq = v[i].seq /\ v[j].id = v[i].id
      <4>1. ASSUME NEW i \in 1..Len(v), ~IsMedia(v[i])
            PROVE  \E j \in 1..i - 1 : IsMedia(v[j]) /\ v[j].seq = v[i].seq /\ v[j].id = v[i].id
        <5>1. CASE i \in 1..Len(w)
          <6>1. v[i] = w[i]
            BY <1>4, <5>1
          <6>2. PICK j \in 1..i - 1 : IsMedia(w[j]) /\ w[j].seq = w[i].seq /\ w[j].id = w[i].id
            BY <1>i, <4>1, <5>1, <6>1 DEF StreamInv
          <6>3. j \in 1..Len(w)
            BY <1>6, <5>1
          <6> QED
            BY <1>4, <6>1, <6>2, <6>3
        <5>2. CASE i = Len(w) + 1
          <6>1. PICK j \in 1..Len(w) : IsMedia(w[j]) /\ w[j].seq = p.seq /\ w[j].id = p.id
            BY <2>2 DEF Good, Sent
          <6>2. v[i] = p /\ v[j] = w[j] /\ j \in 1..i - 1
            BY <1>4, <1>6, <3>1, <5>2
          <6> QED
            BY <6>1, <6>2
        <5> QED
          BY <1>4, <5>1, <5>2
      <4> QED
        BY <4>1
    <3>7. y.last = NoNumber => \A i \in 1..Len(v) : ~IsMedia(v[i])
      BY <1>3, <1>i, <2>2, <3>2 DEF StreamInv
    <3>8. y.last # NoNumber => \E k \in 1..Len(v) :
             /\ IsMedia(v[k]) /\ v[k].seq = y.last
             /\ \A i \in 1..Len(v) : IsMedia(v[i]) => i <= k
             /\ ~y.pending /\ ~y.stopped /\ y.track # None =>
                   Same(FirstNumber[y.track] + g[y.track] + y.seqOffset, y.last + c - v[k].id)
      <4> SUFFICES ASSUME y.last # NoNumber
                   PROVE  \E k \in 1..Len(v) :
                            /\ IsMedia(v[k]) /\ v[k].seq = y.last
                            /\ \A i \in 1..Len(v) : IsMedia(v[i]) => i <= k
                            /\ ~y.pending /\ ~y.stopped /\ y.track # None =>
                                 Same(FirstNumber[y.track] + g[y.track] + y.seqOffset, y.last + c - v[k].id)
        OBVIOUS
      <4>1. PICK k \in 1..Len(w) :
              /\ IsMedia(w[k]) /\ w[k].seq = x.last
              /\ \A i \in 1..Len(w) : IsMedia(w[i]) => i <= k
              /\ ~x.pending /\ ~x.stopped /\ x.track # None =>
                    Same(FirstNumber[x.track] + g[x.track] + x.seqOffset, x.last + c - w[k].id)
        BY <1>3, <1>i, <2>2 DEF StreamInv
      <4>2. k \in 1..Len(v) /\ v[k] = w[k]
        BY <1>4
      <4>3. \A i \in 1..Len(v) : IsMedia(v[i]) => i <= k
        BY <3>2, <4>1
      <4> QED
        BY <1>1, <1>3, <2>2, <4>1, <4>2, <4>3
    <3> QED
      BY <3>3, <3>4, <3>5, <3>6, <3>7, <3>8 DEF StreamInv
  <2> QED
    BY <2>1, <2>2
<1>10. CacheInv(y, v)
  <2>1. ASSUME NEW r \in x.rtpCache PROVE IsMedia(r) /\ Sent(r, v)
    BY <1>4, <1>i DEF CacheInv, Sent
  <2>2. CASE IsMedia(p)
    BY <1>1, <1>2, <1>i, <1>s, <2>1, <2>2 DEF CacheInv
  <2>3. CASE ~IsMedia(p)
    BY <1>3, <1>i, <2>1, <2>3 DEF CacheInv
  <2> QED
    BY <2>2, <2>3
<1>11. OutInv(y)
  <2>1. IsMedia(p) => p.src = x.track
    BY <1>5 DEF Good
  <2>2. \A i \in 1..Len(<<q>>) : <<q>>[i] = q
    OBVIOUS
  <2> QED
    BY <1>1, <1>5, <2>1, <2>2 DEF OutInv
<1> QED
  BY <1>1, <1>7, <1>8, <1>9, <1>10, <1>11, <1>i DEF SenderInv, v, y

-----------------------------------------------------------------------------
(* The FIFO and the held packets.                                            *)

\* The step so far is right: what is on the wire and what it has just written.
Reached(y, w, g, c) == y.out \in Seq(Packet) /\ SenderInv(y, w \o y.out, g, c)

LEMMA NothingWritten ==
    ASSUME NEW y, NEW w \in Seq(Packet), NEW g, NEW c, y.out = <<>>, SenderInv(y, w, g, c)
    PROVE  Reached(y, w, g, c)
<1>1. w \o <<>> = w /\ <<>> \in Seq(Packet)
  BY ConcatEmptySeq
<1> QED
  BY <1>1 DEF Reached

LEMMA SetTask ==
    ASSUME NEW x, NEW w, NEW g, NEW c, SenderInv(x, w, g, c), NEW t \in {Idle} \union Task,
           t = Idle => x.fifo = <<>>,
           t.st = "wait" => Good(t.p, x, w, g, c) /\ Before(t.p, x.fifo) /\ Before(t.p, x.pendingRtp)
    PROVE  LET y == [x EXCEPT !.task = t] IN SenderInv(y, w, g, c) /\ y.out = x.out /\ y.task = t
<1> DEFINE y == [x EXCEPT !.task = t]
<1>i. x \in SenderType /\ WaitingInv(x, w, g, c) /\ LineInv(x) /\ Len(x.pendingRtp) <= MaxPending
      /\ (~scenario.pendingRtp => x.pendingRtp = <<>>)
  BY DEF SenderInv
<1>1. /\ y \in SenderType /\ y.task = t
      /\ \A f \in {"track", "stopped", "sendSuppressed", "sourceEpoch", "last", "seqOffset",
                   "pending", "rtpCache", "out", "pendingRtp", "fifo"} : y[f] = x[f]
  BY <1>i DEF SenderType
<1> HIDE DEF y
<1>2. y.track = x.track /\ y.stopped = x.stopped /\ y.sourceEpoch = x.sourceEpoch
      /\ y.pendingRtp = x.pendingRtp /\ y.fifo = x.fifo /\ y.out = x.out
  BY <1>1
<1>3. \A f \in StreamFields : y[f] = x[f]
  BY <1>1 DEF StreamFields
<1>4. WaitingInv(y, w, g, c)
  BY <1>1, <1>2, <1>i, GoodFrame DEF WaitingInv
<1>5. LineInv(y)
  BY <1>1, <1>2, <1>i DEF LineInv
<1>6. SenderInv(y, w, g, c)
  BY <1>1, <1>2, <1>3, <1>4, <1>5, <1>i, QueueFrame
<1> QED
  BY <1>1, <1>2, <1>6 DEF y

LEMMA SetDraining ==
    ASSUME NEW x, NEW w, NEW g, NEW c, SenderInv(x, w, g, c), NEW d \in {"idle", "waits", "resume"}
    PROVE  LET y == [x EXCEPT !.draining = d] IN
           /\ SenderInv(y, w, g, c) /\ y.draining = d
           /\ \A f \in {"track", "ready", "stopped", "sendSuppressed", "paced", "generation",
                        "sourceEpoch", "last", "seqOffset", "pending", "rtpCache", "pendingRtp",
                        "task", "fifo", "out"} : y[f] = x[f]
<1> DEFINE y == [x EXCEPT !.draining = d]
<1>i. x \in SenderType /\ WaitingInv(x, w, g, c) /\ LineInv(x) /\ Len(x.pendingRtp) <= MaxPending
      /\ (~scenario.pendingRtp => x.pendingRtp = <<>>)
  BY DEF SenderInv
<1>1. /\ y \in SenderType /\ y.draining = d
      /\ \A f \in {"track", "ready", "stopped", "sendSuppressed", "paced", "generation",
                   "sourceEpoch", "last", "seqOffset", "pending", "rtpCache", "pendingRtp",
                   "task", "fifo", "out"} : y[f] = x[f]
  BY <1>i DEF SenderType
<1> HIDE DEF y
<1>2. y.track = x.track /\ y.stopped = x.stopped /\ y.sourceEpoch = x.sourceEpoch
      /\ y.pendingRtp = x.pendingRtp /\ y.fifo = x.fifo /\ y.task = x.task
  BY <1>1
<1>3. \A f \in StreamFields : y[f] = x[f]
  BY <1>1 DEF StreamFields
<1>4. WaitingInv(y, w, g, c)
  BY <1>2, <1>i, GoodFrame DEF WaitingInv
<1>5. LineInv(y)
  BY <1>2, <1>i DEF LineInv
<1>6. SenderInv(y, w, g, c)
  BY <1>1, <1>2, <1>3, <1>4, <1>5, <1>i, QueueFrame
<1> QED
  BY <1>1, <1>6 DEF y

LEMMA Settles ==
    ASSUME NEW x, NEW w, NEW g, NEW c, SenderInv(x, w, g, c), NEW packets
    PROVE  LET y == Settle(x, packets) IN
           /\ SenderInv(y, w, g, c)
           /\ \A f \in {"track", "ready", "stopped", "sendSuppressed", "paced", "generation",
                        "sourceEpoch", "last", "seqOffset", "pending", "rtpCache", "pendingRtp",
                        "task", "fifo", "out"} : y[f] = x[f]
<1>1. CASE Settle(x, packets) = x
  BY <1>1
<1>2. CASE Settle(x, packets) = [x EXCEPT !.draining = "resume"]
  <2> DEFINE y == [x EXCEPT !.draining = "resume"]
  <2>1. /\ SenderInv(y, w, g, c)
        /\ \A f \in {"track", "ready", "stopped", "sendSuppressed", "paced", "generation",
                     "sourceEpoch", "last", "seqOffset", "pending", "rtpCache", "pendingRtp",
                     "task", "fifo", "out"} : y[f] = x[f]
    BY SetDraining
  <2> HIDE DEF y
  <2>2. Settle(x, packets) = y
    BY <1>2 DEF y
  <2> QED
    BY <2>1, <2>2
<1> QED
  BY <1>1, <1>2 DEF Settle

\* q is f without its first e elements.
Later(q, f, e) == \A i \in 1..Len(q) : i + e \in 1..Len(f) /\ q[i] = f[i + e]

\* The first e packets leave the FIFO.
LEMMA DropFirst ==
    ASSUME NEW x, NEW w, NEW g, NEW c, SenderInv(x, w, g, c), x.task # Idle,
           NEW q \in Seq(Packet), NEW e \in Nat, Later(q, x.fifo, e)
    PROVE  LET y == [x EXCEPT !.fifo = q] IN
           /\ SenderInv(y, w, g, c) /\ y.fifo = q
           /\ \A f \in {"track", "ready", "stopped", "sendSuppressed", "paced", "generation",
                        "sourceEpoch", "last", "seqOffset", "pending", "rtpCache", "pendingRtp",
                        "task", "draining", "out"} : y[f] = x[f]
<1> DEFINE y == [x EXCEPT !.fifo = q]
<1>i. x \in SenderType /\ WaitingInv(x, w, g, c) /\ LineInv(x) /\ Len(x.pendingRtp) <= MaxPending
      /\ (~scenario.pendingRtp => x.pendingRtp = <<>>)
  BY DEF SenderInv
<1>l. \A i \in 1..Len(q) : i + e \in 1..Len(x.fifo) /\ q[i] = x.fifo[i + e]
  BY DEF Later
<1>1. /\ y \in SenderType /\ y.fifo = q
      /\ \A f \in {"track", "ready", "stopped", "sendSuppressed", "paced", "generation",
                   "sourceEpoch", "last", "seqOffset", "pending", "rtpCache", "pendingRtp",
                   "task", "draining", "out"} : y[f] = x[f]
  BY <1>i DEF SenderType
<1> HIDE DEF y
<1>2. y.track = x.track /\ y.stopped = x.stopped /\ y.sourceEpoch = x.sourceEpoch
      /\ y.pendingRtp = x.pendingRtp /\ y.fifo = q /\ y.task = x.task
  BY <1>1
<1>3. \A f \in StreamFields : y[f] = x[f]
  BY <1>1 DEF StreamFields
<1>4. WaitingInv(y, w, g, c)
  <2>1. \A i \in 1..Len(q) : Good(q[i], y, w, g, c)
    BY <1>2, <1>i, <1>l, GoodFrame DEF WaitingInv
  <2> QED
    BY <1>2, <1>i, <2>1, GoodFrame DEF WaitingInv
<1>5. LineInv(y)
  <2>1. Ordered(q)
    <3>1. ASSUME NEW i \in 1..Len(q), NEW j \in 1..Len(q), i < j, IsMedia(q[i]), IsMedia(q[j])
          PROVE  q[i].id < q[j].id
      <4>1. i + e \in 1..Len(x.fifo) /\ j + e \in 1..Len(x.fifo) /\ i + e < j + e
        BY <1>l, <3>1
      <4>2. q[i] = x.fifo[i + e] /\ q[j] = x.fifo[j + e]
        BY <1>l
      <4> QED
        BY <1>i, <3>1, <4>1, <4>2 DEF LineInv, Ordered
    <3> QED
      BY <3>1 DEF Ordered
  <2>2. \A i \in 1..Len(q) : Before(q[i], x.pendingRtp)
    BY <1>i, <1>l DEF LineInv
  <2>3. x.task.st = "wait" => Before(x.task.p, q)
    BY <1>i, <1>l DEF LineInv, Before
  <2> QED
    BY <1>2, <1>i, <2>1, <2>2, <2>3 DEF LineInv
<1>6. SenderInv(y, w, g, c)
  BY <1>1, <1>2, <1>3, <1>4, <1>5, <1>i, QueueFrame
<1> QED
  BY <1>1, <1>6 DEF y

\* A packet joins the end of the FIFO.
Joins(p, x) ==
    /\ After(p, x.fifo) /\ Before(p, x.pendingRtp)
    /\ x.task.st = "wait" /\ IsMedia(x.task.p) /\ IsMedia(p) => x.task.p.id < p.id

IsAppend(q, f, p) == q = Append(f, p)

LEMMA JoinFifo ==
    ASSUME NEW x, NEW w, NEW g, NEW c, SenderInv(x, w, g, c), x.task # Idle,
           NEW p \in Packet, Good(p, x, w, g, c), Joins(p, x), NEW q, IsAppend(q, x.fifo, p)
    PROVE  LET y == [x EXCEPT !.fifo = q] IN
           /\ SenderInv(y, w, g, c) /\ y.fifo = q
           /\ y.task = x.task /\ y.out = x.out /\ y.paced = x.paced
<1> DEFINE y == [x EXCEPT !.fifo = q]
<1>i. x \in SenderType /\ WaitingInv(x, w, g, c) /\ LineInv(x) /\ Len(x.pendingRtp) <= MaxPending
      /\ (~scenario.pendingRtp => x.pendingRtp = <<>>) /\ x.fifo \in Seq(Packet)
  BY Fields DEF SenderInv
<1>q. /\ q \in Seq(Packet) /\ Len(q) = Len(x.fifo) + 1 /\ q[Len(x.fifo) + 1] = p
      /\ \A i \in 1..Len(x.fifo) : q[i] = x.fifo[i]
      /\ Len(x.fifo) \in Nat
      /\ \A i \in 1..Len(q) : i \in 1..Len(x.fifo) \/ i = Len(x.fifo) + 1
  <2>1. /\ q \in Seq(Packet) /\ Len(q) = Len(x.fifo) + 1 /\ q[Len(x.fifo) + 1] = p
        /\ \A i \in 1..Len(x.fifo) : q[i] = x.fifo[i]
    BY <1>i, AppendProperties DEF IsAppend
  <2>2. Len(x.fifo) \in Nat
    BY <1>i
  <2> QED
    BY <2>1, <2>2
<1>1. /\ y \in SenderType /\ y.fifo = q
      /\ \A f \in {"track", "stopped", "sendSuppressed", "sourceEpoch", "last", "seqOffset",
                   "pending", "rtpCache", "out", "pendingRtp", "task", "paced"} : y[f] = x[f]
  BY <1>i, <1>q DEF SenderType
<1> HIDE DEF y
<1>2. y.track = x.track /\ y.stopped = x.stopped /\ y.sourceEpoch = x.sourceEpoch
      /\ y.pendingRtp = x.pendingRtp /\ y.fifo = q /\ y.task = x.task
  BY <1>1
<1>3. \A f \in StreamFields : y[f] = x[f]
  BY <1>1 DEF StreamFields
<1>4. WaitingInv(y, w, g, c)
  <2>1. \A i \in 1..Len(q) : Good(q[i], y, w, g, c)
    BY <1>2, <1>i, <1>q, GoodFrame DEF WaitingInv
  <2> QED
    BY <1>2, <1>i, <2>1, GoodFrame DEF WaitingInv
<1>5. LineInv(y)
  <2>1. Ordered(q)
    <3>1. ASSUME NEW i \in 1..Len(q), NEW j \in 1..Len(q), i < j, IsMedia(q[i]), IsMedia(q[j])
          PROVE  q[i].id < q[j].id
      <4>1. i \in 1..Len(x.fifo)
        BY <1>q, <3>1
      <4>2. CASE j \in 1..Len(x.fifo)
        BY <1>i, <1>q, <3>1, <4>1, <4>2 DEF LineInv, Ordered
      <4>3. CASE j = Len(x.fifo) + 1
        BY <1>q, <3>1, <4>1, <4>3 DEF Joins, After
      <4> QED
        BY <1>q, <4>2, <4>3
    <3> QED
      BY <3>1 DEF Ordered
  <2>2. \A i \in 1..Len(q) : Before(q[i], x.pendingRtp)
    BY <1>i, <1>q DEF LineInv, Joins
  <2>3. x.task.st = "wait" => Before(x.task.p, q)
    BY <1>i, <1>q DEF LineInv, Before, Joins
  <2> QED
    BY <1>2, <1>i, <2>1, <2>2, <2>3 DEF LineInv
<1>6. SenderInv(y, w, g, c)
  BY <1>1, <1>2, <1>3, <1>4, <1>5, <1>i, QueueFrame
<1> QED
  BY <1>1, <1>6 DEF y

LEMMA TrimInv ==
    ASSUME NEW x, NEW w, NEW g, NEW c, SenderInv(x, w, g, c), x.task # Idle,
           NEW old \in Nat, old <= Len(x.fifo)
    PROVE  SenderInv(trim(x, old), w, g, c) /\ trim(x, old).out = x.out
<1> DEFINE n == Len(x.fifo)
           excess == IF n > MaxQueue THEN n - MaxQueue ELSE 0
           drop == IF old > excess THEN old ELSE excess
           q == SubSeq(x.fifo, drop + 1, n)
           z == [x EXCEPT !.fifo = q]
<1>1. x.fifo \in Seq(Packet) /\ n \in Nat
  BY Fields DEF SenderInv
<1>2. drop \in Nat /\ drop <= n
  BY <1>1, ConstantsAssumption
<1> HIDE DEF drop
<1>3. q \in Seq(Packet) /\ Later(q, x.fifo, drop)
  <2>1. /\ q \in Seq(Packet)
        /\ Len(q) = IF drop + 1 <= n THEN n - (drop + 1) + 1 ELSE 0
        /\ \A i \in 1..n - (drop + 1) + 1 : q[i] = x.fifo[drop + 1 + i - 1]
    <3>1. drop + 1 \in 1..n + 1 /\ n \in drop..n
      BY <1>1, <1>2
    <3> QED
      BY <1>1, <1>2, <3>1, SubSeqProperties
  <2> HIDE DEF q
  <2>2. ASSUME NEW i \in 1..Len(q) PROVE i + drop \in 1..n /\ q[i] = x.fifo[i + drop]
    <3> HIDE DEF n
    <3>1. i \in 1..n - (drop + 1) + 1 /\ i + drop \in 1..n /\ drop + 1 + i - 1 = i + drop
      BY <1>1, <1>2, <2>1
    <3> QED
      BY <2>1, <3>1
  <2> QED
    BY <2>1, <2>2 DEF Later
<1>4. trim(x, old) = IF ~x.paced THEN x ELSE Settle(z, SubSeq(x.fifo, 1, drop))
  BY DEF trim, drop
<1> HIDE DEF q
<1>5. SenderInv(z, w, g, c) /\ z.out = x.out
  BY <1>2, <1>3, DropFirst
<1> HIDE DEF z
<1>6. /\ SenderInv(Settle(z, SubSeq(x.fifo, 1, drop)), w, g, c)
      /\ Settle(z, SubSeq(x.fifo, 1, drop)).out = z.out
  BY <1>5, Settles
<1> QED
  BY <1>4, <1>5, <1>6

LEMMA StartInv ==
    ASSUME NEW x, NEW w \in Seq(Packet), NEW g \in [Tracks -> Nat], NEW c \in Nat,
           SenderInv(x, w, g, c), x.out = <<>>, NEW p \in Packet, Good(p, x, w, g, c),
           x.task.st # "wait", Before(p, x.fifo), Before(p, x.pendingRtp)
    PROVE  Reached(start(x, p), w, g, c)
<1> DEFINE t(st) == [p |-> p, gen |-> x.generation, st |-> st]
<1>1. x.generation \in Nat
  BY Fields DEF SenderInv
<1>2. \A st \in {"wait", "done"} : t(st) \in {Idle} \union Task /\ t(st).p = p /\ t(st).st = st /\ t(st) # Idle
  BY <1>1, NewTask
<1>3. CASE ~x.ready \/ ~Sendable(x, p)
  <2> DEFINE u == t("done")
             y == [x EXCEPT !.task = u]
  <2>1. u \in {Idle} \union Task /\ u.st = "done" /\ u # Idle
    BY <1>2
  <2>2. start(x, p) = y
    BY <1>3 DEF start
  <2> HIDE DEF u
  <2>3. SenderInv(y, w, g, c) /\ y.out = x.out
    BY <2>1, SetTask
  <2> HIDE DEF y
  <2> QED
    BY <2>2, <2>3, NothingWritten
<1>4. CASE x.ready /\ Sendable(x, p) /\ x.paced
  <2> DEFINE u == t("wait")
             y == [x EXCEPT !.task = u]
  <2>1. u \in {Idle} \union Task /\ u.p = p /\ u # Idle
    BY <1>2
  <2>2. start(x, p) = y
    BY <1>4 DEF start
  <2> HIDE DEF u
  <2>3. SenderInv(y, w, g, c) /\ y.out = x.out
    BY <2>1, SetTask
  <2> HIDE DEF y
  <2> QED
    BY <2>2, <2>3, NothingWritten
<1>5. CASE x.ready /\ Sendable(x, p) /\ ~x.paced
  <2> DEFINE u == t("done")
             v == Write(x, p)
             y == [v EXCEPT !.task = u]
  <2>1. u \in {Idle} \union Task /\ u.st = "done" /\ u # Idle
    BY <1>2
  <2>2. start(x, p) = y
    BY <1>5 DEF start
  <2>3. SenderInv(v, w \o v.out, g, c) /\ v.out \in Seq(Packet)
    BY <1>5, WriteInv
  <2> HIDE DEF u, v
  <2>4. SenderInv(y, w \o v.out, g, c) /\ y.out = v.out
    BY <2>1, <2>3, SetTask
  <2> HIDE DEF y
  <2> QED
    BY <2>2, <2>3, <2>4 DEF Reached
<1> QED
  BY <1>3, <1>4, <1>5

LEMMA DispatchInv ==
    ASSUME NEW x, NEW w \in Seq(Packet), NEW g \in [Tracks -> Nat], NEW c \in Nat,
           SenderInv(x, w, g, c), x.out = <<>>, NEW p \in Packet, Good(p, x, w, g, c), Joins(p, x),
           NEW old \in Nat, old <= Len(x.fifo)
    PROVE  Reached(dispatchOutgoing(x, p, old), w, g, c)
<1>i. x \in SenderType /\ LineInv(x)
  BY DEF SenderInv
<1>t. x.task = Idle <=> x.task.st = "idle"
  BY <1>i, Fields, TaskForms
<1>1. CASE x.task = Idle /\ ~x.paced
  <2> DEFINE y == IF x.ready /\ Sendable(x, p) THEN Write(x, p) ELSE x
  <2>1. x.fifo = <<>> /\ x.task.st # "wait"
    BY <1>1, <1>i, <1>t DEF LineInv
  <2>2. Before(p, x.fifo) /\ Before(p, x.pendingRtp)
    BY <2>1 DEF Before, Joins
  <2>3. y.out \in Seq(Packet) /\ SenderInv(y, w \o y.out, g, c)
    <3>1. CASE x.ready /\ Sendable(x, p)
      BY <2>1, <2>2, <3>1, WriteInv
    <3>2. CASE ~(x.ready /\ Sendable(x, p))
      <4>1. y = x
        BY <3>2
      <4>2. Reached(x, w, g, c)
        BY NothingWritten
      <4> QED
        BY <4>1, <4>2 DEF Reached
    <3> QED
      BY <3>1, <3>2
  <2>4. dispatchOutgoing(x, p, old) = IF p.drained THEN [y EXCEPT !.draining = "resume"] ELSE y
    BY <1>1 DEF dispatchOutgoing
  <2> HIDE DEF y
  <2> DEFINE z == [y EXCEPT !.draining = "resume"]
  <2>5. SenderInv(z, w \o y.out, g, c) /\ z.out = y.out
    BY <2>3, SetDraining
  <2> HIDE DEF z
  <2>6. dispatchOutgoing(x, p, old) = z \/ dispatchOutgoing(x, p, old) = y
    BY <2>4 DEF z
  <2> QED
    BY <2>3, <2>5, <2>6 DEF Reached
<1>2. CASE x.task = Idle /\ x.paced
  <2>1. x.fifo = <<>> /\ x.task.st # "wait"
    BY <1>2, <1>i, <1>t DEF LineInv
  <2>2. Before(p, x.fifo) /\ Before(p, x.pendingRtp)
    BY <2>1 DEF Before, Joins
  <2>3. dispatchOutgoing(x, p, old) = start(x, p)
    BY <1>2 DEF dispatchOutgoing
  <2> QED
    BY <2>1, <2>2, <2>3, StartInv
<1>3. CASE x.task # Idle
  <2> DEFINE q == Append(x.fifo, p)
             y == [x EXCEPT !.fifo = q]
  <2>2. dispatchOutgoing(x, p, old) = trim(y, old)
    BY <1>3 DEF dispatchOutgoing
  <2>q. q = Append(x.fifo, p) /\ IsAppend(q, x.fifo, p)
    BY DEF IsAppend
  <2> HIDE DEF q
  <2>s. SenderInv(y, w, g, c)
    BY <1>3, <2>q, JoinFifo
  <2>1. SenderInv(y, w, g, c) /\ y.fifo = q /\ y.task = x.task /\ y.out = x.out
    BY <1>i, <2>s DEF SenderType
  <2> HIDE DEF y
  <2>3. old <= Len(y.fifo)
    <3>1. x.fifo \in Seq(Packet) /\ Len(x.fifo) \in Nat
      BY <1>i, Fields
    <3>2. Len(Append(x.fifo, p)) = Len(x.fifo) + 1
      BY <3>1, AppendProperties
    <3> QED
      BY <2>1, <2>q, <3>1, <3>2
  <2>4. SenderInv(trim(y, old), w, g, c) /\ trim(y, old).out = <<>>
    BY <1>3, <2>1, <2>3, TrimInv
  <2> QED
    BY <2>2, <2>4, NothingWritten
<1> QED
  BY <1>1, <1>2, <1>3, <1>i, Fields

-----------------------------------------------------------------------------
(* A packet comes in.                                                        *)

LEMMA GivenGood ==
    ASSUME NEW x \in SenderType, NEW w, NEW g \in [Tracks -> Nat], NEW c \in Nat,
           x.track \in Tracks, NEW p \in Packet, Good(p, x, w, g, c)
    PROVE  Good(p, x, w, [g EXCEPT ![x.track] = @ + 1], c + 1)
<1> DEFINE h == [g EXCEPT ![x.track] = @ + 1]
           F == FirstNumber[x.track]
           G == g[x.track]
<1>1. /\ p.id \in Nat /\ p.epoch \in Nat /\ F \in Nat /\ G \in Nat
      /\ h[x.track] = G + 1
  BY PacketFields, ConstantsAssumption
<1> HIDE DEF h, F, G
<1>2. CASE IsMedia(p)
  <2>1. p.id < c + 1
    BY <1>1, <1>2 DEF Good
  <2>2. ASSUME p.epoch = x.sourceEpoch, ~x.stopped
        PROVE  p.src = x.track /\ Same(p.n, FirstNumber[p.src] + h[p.src] + p.id - (c + 1))
    <3>1. p.src = x.track /\ Same(p.n, F + G + p.id - c)
      BY <1>2, <2>2 DEF Good, F, G
    <3>2. F + G + p.id - c = F + (G + 1) + p.id - (c + 1)
      BY <1>1
    <3>3. Same(p.n, F + h[x.track] + p.id - (c + 1))
      BY <1>1, <3>1, <3>2
    <3> QED
      BY <3>1, <3>3 DEF F
  <2> QED
    BY <1>2, <2>1, <2>2 DEF Good, h
<1>3. CASE ~IsMedia(p)
  BY <1>3 DEF Good
<1> QED
  BY <1>2, <1>3

LEMMA GivenInv ==
    ASSUME NEW x, NEW w \in Seq(Packet), NEW g \in [Tracks -> Nat], NEW c \in Nat,
           SenderInv(x, w, g, c), x.track \in Tracks
    PROVE  SenderInv(x, w, [g EXCEPT ![x.track] = @ + 1], c + 1)
<1> DEFINE h == [g EXCEPT ![x.track] = @ + 1]
           F == FirstNumber[x.track]
           G == g[x.track]
<1>i. x \in SenderType /\ WaitingInv(x, w, g, c) /\ StreamInv(x, w, g, c)
  BY DEF SenderInv
<1>1. F \in Nat /\ G \in Nat /\ h[x.track] = G + 1
  BY ConstantsAssumption
<1>2. WaitingInv(x, w, h, c + 1)
  <2>1. \A p \in Packet : Good(p, x, w, g, c) => Good(p, x, w, h, c + 1)
    BY <1>i, GivenGood
  <2>2. x.fifo \in Seq(Packet) /\ x.pendingRtp \in Seq(Packet)
        /\ (x.task.st = "wait" => x.task.p \in Packet)
    BY <1>i, Fields, TaskForms
  <2>3. /\ \A i \in 1..Len(x.fifo) : x.fifo[i] \in Packet
        /\ \A i \in 1..Len(x.pendingRtp) : x.pendingRtp[i] \in Packet
    BY <2>2
  <2> HIDE DEF h
  <2> QED
    BY <1>i, <2>1, <2>2, <2>3 DEF WaitingInv
<1> HIDE DEF h, F, G
<1>3. StreamInv(x, w, h, c + 1)
  <2>1. \A i \in 1..Len(w) : IsMedia(w[i]) => w[i].seq \in 0..Numbers - 1 /\ w[i].id < c + 1
    <3>1. ASSUME NEW i \in 1..Len(w), IsMedia(w[i])
          PROVE  w[i].seq \in 0..Numbers - 1 /\ w[i].id < c + 1
      <4>1. w[i].id \in Nat
        BY PacketFields
      <4>2. w[i].seq \in 0..Numbers - 1 /\ w[i].id < c
        BY <1>i, <3>1 DEF StreamInv
      <4> QED
        BY <4>1, <4>2
    <3> QED
      BY <3>1
  <2>2. ASSUME x.last # NoNumber
        PROVE  \E k \in 1..Len(w) :
                 /\ IsMedia(w[k]) /\ w[k].seq = x.last
                 /\ \A i \in 1..Len(w) : IsMedia(w[i]) => i <= k
                 /\ ~x.pending /\ ~x.stopped /\ x.track # None =>
                      Same(FirstNumber[x.track] + h[x.track] + x.seqOffset, x.last + (c + 1) - w[k].id)
    <3>1. PICK k \in 1..Len(w) :
            /\ IsMedia(w[k]) /\ w[k].seq = x.last
            /\ \A i \in 1..Len(w) : IsMedia(w[i]) => i <= k
            /\ ~x.pending /\ ~x.stopped /\ x.track # None =>
                 Same(F + G + x.seqOffset, x.last + c - w[k].id)
      BY <1>i, <2>2 DEF StreamInv, F, G
    <3>2. ASSUME Same(F + G + x.seqOffset, x.last + c - w[k].id)
          PROVE  Same(F + (G + 1) + x.seqOffset, x.last + (c + 1) - w[k].id)
      <4> DEFINE m == w[k].id
      <4>1. m \in Int
        BY PacketFields
      <4>2. x.last \in Int /\ x.seqOffset \in Int
        BY <1>i, Fields, NumbersType
      <4> HIDE DEF m
      <4>3. Same((F + G + x.seqOffset) + 1, (x.last + c - m) + 1)
        <5>1. F + G + x.seqOffset \in Int /\ x.last + c - m \in Int /\ Same(1, 1)
          BY <1>1, <4>1, <4>2, SameRefl
        <5> QED
          BY <3>2, <5>1, SameSum DEF m
      <4>4. /\ (F + G + x.seqOffset) + 1 = F + (G + 1) + x.seqOffset
            /\ (x.last + c - m) + 1 = x.last + (c + 1) - m
        BY <1>1, <4>1, <4>2
      <4> QED
        BY <4>3, <4>4 DEF m
    <3> QED
      BY <1>1, <3>1, <3>2 DEF F
  <2> QED
    BY <1>i, <2>1, <2>2 DEF StreamInv
<1> QED
  BY <1>2, <1>3 DEF SenderInv, h

\* Packet p came in last.
Newest(p, x) ==
    /\ After(p, x.fifo) /\ After(p, x.pendingRtp)
    /\ x.task.st = "wait" /\ IsMedia(x.task.p) /\ IsMedia(p) => x.task.p.id < p.id

LEMMA FreshGood ==
    ASSUME NEW x, NEW w \in Seq(Packet), NEW g \in [Tracks -> Nat], NEW c \in Nat,
           SenderInv(x, w, g, c), x.track \in Tracks, NEW p \in Packet,
           IsMedia(p), p.src = x.track, p.n = (FirstNumber[x.track] + g[x.track]) % Numbers,
           p.id = c, p.epoch = x.sourceEpoch
    PROVE  Good(p, x, w, [g EXCEPT ![x.track] = @ + 1], c + 1) /\ Newest(p, x)
<1> DEFINE h == [g EXCEPT ![x.track] = @ + 1]
           F == FirstNumber[x.track]
           G == g[x.track]
<1>i. x \in SenderType /\ WaitingInv(x, w, g, c) /\ StreamInv(x, w, g, c)
  BY DEF SenderInv
<1>1. F \in Nat /\ G \in Nat /\ h[x.track] = G + 1 /\ p.n = (F + G) % Numbers
  BY ConstantsAssumption
<1>e. x.sourceEpoch \in Nat
  BY <1>i, Fields
<1> HIDE DEF h, F, G
<1>2. Same(p.n, F + h[x.track] + p.id - (c + 1))
  <2>1. F + G \in Int
    BY <1>1
  <2>2. Same((F + G) % Numbers, F + G)
    BY <2>1, SameMod
  <2>3. F + (G + 1) + c - (c + 1) = F + G
    BY <1>1
  <2> QED
    BY <1>1, <2>2, <2>3
<1>3. Behind(p, w)
  BY <1>i DEF Behind, StreamInv
<1>4. Good(p, x, w, h, c + 1)
  <2>1. p.epoch <= x.sourceEpoch /\ p.id < c + 1
    BY <1>e
  <2> QED
    BY <1>2, <1>3, <2>1 DEF Good, F
<1>5. Newest(p, x)
  BY <1>i DEF Newest, After, WaitingInv, Good
<1> QED
  BY <1>4, <1>5 DEF h

LEMMA EnqueueInv ==
    ASSUME NEW x, NEW w, NEW g, NEW c, SenderInv(x, w, g, c), scenario.pendingRtp,
           NEW p \in Packet, IsMedia(p), Good(p, x, w, g, c), Newest(p, x)
    PROVE  SenderInv(enqueue(x, p), w, g, c) /\ enqueue(x, p).out = x.out
<1> DEFINE held == Append(x.pendingRtp, p)
           q == IF Len(held) > MaxPending THEN Tail(held) ELSE held
           n == Len(x.pendingRtp)
           y == [x EXCEPT !.pendingRtp = q]
<1>i. /\ x \in SenderType /\ WaitingInv(x, w, g, c) /\ LineInv(x) /\ x.pendingRtp \in Seq(Packet)
      /\ n <= MaxPending /\ n \in Nat /\ MaxPending \in Nat
  <2>1. x \in SenderType /\ WaitingInv(x, w, g, c) /\ LineInv(x) /\ n <= MaxPending
    BY DEF SenderInv
  <2>2. x.pendingRtp \in Seq(Packet)
    BY <2>1, Fields
  <2> QED
    BY <2>1, <2>2, ConstantsAssumption
<1>1. /\ held \in Seq(Packet) /\ Len(held) = n + 1 /\ held[n + 1] = p
      /\ \A i \in 1..n : held[i] = x.pendingRtp[i]
  BY <1>i, AppendProperties
<1>2. enqueue(x, p) = y
  BY DEF enqueue
<1> HIDE DEF held
<1>h. \A i \in 1..n + 1 : i \in 1..n \/ i = n + 1
  BY <1>i
\* Any part of the queue of packets held is in line.
<1>3. /\ \A i \in 1..n + 1 : IsMedia(held[i]) /\ Good(held[i], x, w, g, c)
      /\ \A i \in 1..Len(x.fifo) : Before(x.fifo[i], held)
      /\ x.task.st = "wait" => Before(x.task.p, held)
  <2>1. \A i \in 1..n + 1 : IsMedia(held[i]) /\ Good(held[i], x, w, g, c)
    BY <1>i, <1>1, <1>h DEF WaitingInv
  <2>2. \A i \in 1..Len(x.fifo) : Before(x.fifo[i], held)
    BY <1>i, <1>1, <1>h DEF LineInv, Before, Newest, After
  <2>3. x.task.st = "wait" => Before(x.task.p, held)
    BY <1>i, <1>1, <1>h DEF LineInv, Before, Newest
  <2> QED
    BY <2>1, <2>2, <2>3
<1>4. Ordered(held)
  <2>1. ASSUME NEW i \in 1..n + 1, NEW j \in 1..n + 1, i < j, IsMedia(held[i]), IsMedia(held[j])
        PROVE  held[i].id < held[j].id
    <3>1. i \in 1..n
      BY <1>i, <2>1
    <3>2. CASE j \in 1..n
      BY <1>i, <1>1, <2>1, <3>1, <3>2 DEF LineInv, Ordered
    <3>3. CASE j = n + 1
      BY <1>1, <2>1, <3>1, <3>3 DEF Newest, After
    <3> QED
      BY <1>h, <3>2, <3>3
  <2> QED
    BY <1>1, <2>1 DEF Ordered
<1>5. \E e \in Nat : q \in Seq(Packet) /\ Len(q) <= MaxPending /\ Later(q, held, e)
  <2>1. CASE n + 1 > MaxPending
    <3>1. q = Tail(held) /\ held # <<>>
      BY <1>1, <1>i, <2>1
    <3>2. /\ q \in Seq(Packet) /\ Len(q) = Len(held) - 1
          /\ \A i \in 1..Len(q) : q[i] = held[i + 1]
      BY <1>1, <3>1, HeadTailProperties
    <3>3. Len(q) = n
      BY <1>1, <1>i, <3>2
    <3> HIDE DEF q
    <3>4. \A i \in 1..Len(q) : i + 1 \in 1..Len(held)
      BY <1>1, <1>i, <3>3
    <3>5. Later(q, held, 1)
      BY <3>2, <3>4 DEF Later
    <3> QED
      BY <1>i, <3>2, <3>3, <3>5
  <2>2. CASE ~(n + 1 > MaxPending)
    <3>1. q = held
      BY <1>1, <2>2
    <3>2. Later(held, held, 0)
      <4>1. \A i \in 1..Len(held) : i + 0 = i
        BY <1>1, <1>i
      <4> QED
        BY <4>1 DEF Later
    <3>3. Len(held) <= MaxPending
      BY <1>1, <1>i, <2>2
    <3> QED
      BY <1>1, <3>1, <3>2, <3>3
  <2> QED
    BY <2>1, <2>2
<1> HIDE DEF q
<1>6. PICK e \in Nat : q \in Seq(Packet) /\ Len(q) <= MaxPending /\ Later(q, held, e)
  BY <1>5
<1>l. \A i \in 1..Len(q) : i + e \in 1..n + 1 /\ q[i] = held[i + e]
  BY <1>1, <1>6 DEF Later
<1>7. /\ y \in SenderType /\ y.pendingRtp = q
      /\ \A f \in {"track", "stopped", "sendSuppressed", "sourceEpoch", "last", "seqOffset",
                   "pending", "rtpCache", "out", "task", "fifo"} : y[f] = x[f]
  BY <1>i, <1>6 DEF SenderType
<1> HIDE DEF y
<1>8. y.track = x.track /\ y.stopped = x.stopped /\ y.sourceEpoch = x.sourceEpoch
      /\ y.pendingRtp = q /\ y.fifo = x.fifo /\ y.task = x.task /\ y.out = x.out
  BY <1>7
<1>9. \A f \in StreamFields : y[f] = x[f]
  BY <1>7 DEF StreamFields
<1>10. WaitingInv(y, w, g, c)
  <2>1. \A i \in 1..Len(q) : IsMedia(q[i]) /\ Good(q[i], x, w, g, c)
    BY <1>3, <1>l
  <2> QED
    BY <1>8, <1>i, <2>1, GoodFrame DEF WaitingInv
<1>11. LineInv(y)
  <2>1. Ordered(q)
    <3>1. ASSUME NEW i \in 1..Len(q), NEW j \in 1..Len(q), i < j, IsMedia(q[i]), IsMedia(q[j])
          PROVE  q[i].id < q[j].id
      <4>1. i + e \in 1..n + 1 /\ j + e \in 1..n + 1 /\ i + e < j + e
        BY <1>l, <3>1
      <4>2. q[i] = held[i + e] /\ q[j] = held[j + e]
        BY <1>l
      <4> QED
        BY <1>1, <1>4, <3>1, <4>1, <4>2 DEF Ordered
    <3> QED
      BY <3>1 DEF Ordered
  <2>2. \A r : Before(r, held) => Before(r, q)
    BY <1>1, <1>l DEF Before
  <2> QED
    BY <1>3, <1>8, <1>i, <2>1, <2>2 DEF LineInv
<1>12. SenderInv(y, w, g, c)
  BY <1>6, <1>7, <1>8, <1>9, <1>10, <1>11, QueueFrame
<1> QED
  BY <1>2, <1>8, <1>12

LEMMA DrainInv ==
    ASSUME NEW x, NEW w \in Seq(Packet), NEW g \in [Tracks -> Nat], NEW c \in Nat,
           SenderInv(x, w, g, c), x.out = <<>>
    PROVE  Reached(drain(x), w, g, c)
<1>1. CASE ~(x.draining = "idle" /\ x.pendingRtp # <<>> /\ canSendRtp(x))
  <2>1. drain(x) = x
    BY <1>1 DEF drain
  <2> QED
    BY <2>1, NothingWritten
<1>2. CASE x.draining = "idle" /\ x.pendingRtp # <<>> /\ canSendRtp(x)
  <2> DEFINE q == Tail(x.pendingRtp)
             h == Head(x.pendingRtp)
             p == [h EXCEPT !.drained = TRUE]
             y == [x EXCEPT !.pendingRtp = q, !.draining = "waits"]
  <2>i. /\ x \in SenderType /\ WaitingInv(x, w, g, c) /\ LineInv(x) /\ x.pendingRtp \in Seq(Packet)
        /\ Len(x.pendingRtp) <= MaxPending /\ scenario.pendingRtp
    BY <1>2, Fields DEF SenderInv
  <2>1. /\ h \in Packet /\ h = x.pendingRtp[1] /\ q \in Seq(Packet)
        /\ Len(q) = Len(x.pendingRtp) - 1
        /\ \A i \in 1..Len(q) : q[i] = x.pendingRtp[i + 1]
    <3>1. h \in Packet /\ h = x.pendingRtp[1]
      BY <1>2, <2>i
    <3> QED
      BY <1>2, <2>i, <3>1, HeadTailProperties
  <2>l. /\ 1 \in 1..Len(x.pendingRtp) /\ Len(q) <= MaxPending
        /\ \A i \in 1..Len(q) : i + 1 \in 1..Len(x.pendingRtp) /\ 1 < i + 1
    <3>1. Len(x.pendingRtp) \in Nat \ {0} /\ MaxPending \in Nat
      BY <1>2, <2>i, ConstantsAssumption
    <3> QED
      BY <2>1, <2>i, <3>1
  <2>2. drain(x) = dispatchOutgoing(y, p, 0)
    BY <1>2 DEF drain
  <2> HIDE DEF q, h
  <2>3. p \in Packet /\ p.kind = h.kind /\ p.id = h.id /\ p.epoch = h.epoch /\ p.src = h.src /\ p.n = h.n
        /\ p.seq = h.seq
    BY <2>1 DEF Packet
  <2> HIDE DEF p
  <2>h. IsMedia(h) /\ IsMedia(p) /\ Good(h, x, w, g, c)
    <3>1. IsMedia(h) /\ Good(h, x, w, g, c)
      BY <2>1, <2>i, <2>l DEF WaitingInv
    <3> QED
      BY <2>3, <3>1 DEF IsMedia
  <2>4. /\ y \in SenderType /\ y.pendingRtp = q
        /\ \A f \in {"track", "stopped", "sendSuppressed", "sourceEpoch", "last", "seqOffset",
                     "pending", "rtpCache", "out", "task", "fifo"} : y[f] = x[f]
    BY <2>1, <2>i DEF SenderType
  <2> HIDE DEF y
  <2>5. y.track = x.track /\ y.stopped = x.stopped /\ y.sourceEpoch = x.sourceEpoch
        /\ y.pendingRtp = q /\ y.fifo = x.fifo /\ y.task = x.task /\ y.out = <<>>
    BY <2>4
  <2>6. \A f \in StreamFields : y[f] = x[f]
    BY <2>4 DEF StreamFields
  <2>7. WaitingInv(y, w, g, c)
    <3>1. \A i \in 1..Len(q) : IsMedia(q[i]) /\ Good(q[i], x, w, g, c)
      BY <2>1, <2>i, <2>l DEF WaitingInv
    <3> QED
      BY <2>5, <2>i, <3>1, GoodFrame DEF WaitingInv
  <2>8. LineInv(y)
    <3>1. Ordered(q)
      <4>1. ASSUME NEW i \in 1..Len(q), NEW j \in 1..Len(q), i < j, IsMedia(q[i]), IsMedia(q[j])
            PROVE  q[i].id < q[j].id
        <5>1. i + 1 \in 1..Len(x.pendingRtp) /\ j + 1 \in 1..Len(x.pendingRtp) /\ i + 1 < j + 1
          BY <2>l, <4>1
        <5>2. q[i] = x.pendingRtp[i + 1] /\ q[j] = x.pendingRtp[j + 1]
          BY <2>1
        <5> QED
          BY <2>i, <4>1, <5>1, <5>2 DEF LineInv, Ordered
      <4> QED
        BY <4>1 DEF Ordered
    <3>2. \A r : Before(r, x.pendingRtp) => Before(r, q)
      BY <2>1, <2>l DEF Before
    <3> QED
      BY <2>5, <2>i, <3>1, <3>2 DEF LineInv
  <2>9. SenderInv(y, w, g, c)
    BY <2>4, <2>5, <2>6, <2>7, <2>8, <2>i, <2>l, QueueFrame
  <2>10. Good(p, y, w, g, c)
    BY <2>3, <2>5, <2>h DEF Good, Behind
  <2>11. Joins(p, y)
    <3>1. After(p, x.fifo)
      BY <2>1, <2>3, <2>h, <2>i, <2>l DEF LineInv, Before, After
    <3>2. Before(p, q)
      <4>1. ASSUME NEW i \in 1..Len(q), IsMedia(q[i]) PROVE p.id < q[i].id
        <5>1. i + 1 \in 1..Len(x.pendingRtp) /\ 1 < i + 1 /\ q[i] = x.pendingRtp[i + 1]
          BY <2>1, <2>l
        <5> QED
          BY <2>1, <2>3, <2>h, <2>i, <2>l, <4>1, <5>1 DEF LineInv, Ordered
      <4> QED
        BY <4>1 DEF Before
    <3>3. x.task.st = "wait" /\ IsMedia(x.task.p) => x.task.p.id < p.id
      BY <2>1, <2>3, <2>h, <2>i, <2>l DEF LineInv, Before
    <3> QED
      BY <2>5, <3>1, <3>2, <3>3 DEF Joins
  <2>12. 0 \in Nat /\ 0 <= Len(y.fifo)
    BY <2>4, Fields
  <2> QED
    BY <2>2, <2>3, <2>5, <2>9, <2>10, <2>11, <2>12, DispatchInv
<1> QED
  BY <1>1, <1>2

-----------------------------------------------------------------------------
(* The source changes.                                                       *)

\* Nothing that waits is of the present source.
StaleQueues(x) ==
    /\ x.task.st = "wait" /\ IsMedia(x.task.p) => x.task.p.epoch < x.sourceEpoch
    /\ \A i \in 1..Len(x.fifo) : ~IsMedia(x.fifo[i])
    /\ x.pendingRtp = <<>>

LEMMA GoodStale ==
    ASSUME NEW x, NEW y, NEW w, NEW g, NEW h, NEW c, NEW p \in Packet, Good(p, x, w, g, c),
           x.sourceEpoch \in Nat, y.sourceEpoch \in Nat, y.sourceEpoch >= x.sourceEpoch,
           IsMedia(p) => p.epoch < y.sourceEpoch \/ y.stopped
    PROVE  Good(p, y, w, h, c)
<1>1. p.epoch \in Nat
  BY PacketFields
<1>2. IsMedia(p) => p.epoch <= y.sourceEpoch
  BY <1>1 DEF Good
<1>3. IsMedia(p) => p.epoch # y.sourceEpoch \/ y.stopped
  BY <1>1
<1>4. CASE IsMedia(p)
  <2>1. p.id < c /\ Behind(p, w)
    BY <1>4 DEF Good
  <2> QED
    BY <1>2, <1>3, <1>4, <2>1 DEF Good
<1>5. CASE ~IsMedia(p)
  BY <1>5 DEF Good
<1> QED
  BY <1>4, <1>5

LEMMA InvalidateInv ==
    ASSUME NEW x, NEW w \in Seq(Packet), NEW g, NEW c, SenderInv(x, w, g, c)
    PROVE  LET y == invalidateQueuedSource(x) IN
           /\ SenderInv(y, w, g, c) /\ StaleQueues(y)
           /\ \A f \in {"track", "ready", "stopped", "sendSuppressed", "paced", "generation",
                        "last", "seqOffset", "pending", "rtpCache", "task", "out"} : y[f] = x[f]
<1> DEFINE epoch == x.sourceEpoch + 1
           stale == {i \in DOMAIN x.fifo : x.fifo[i].kind = "media" /\ x.fifo[i].epoch # epoch}
           I == DOMAIN x.fifo \ stale
           q == Filtered(x.fifo, I)
           packets == Filtered(x.fifo, stale)
           z == [x EXCEPT !.sourceEpoch = epoch, !.fifo = q, !.pendingRtp = <<>>]
<1>i. /\ x \in SenderType /\ WaitingInv(x, w, g, c) /\ LineInv(x)
      /\ StreamInv(x, w, g, c) /\ CacheInv(x, w) /\ OutInv(x)
  BY DEF SenderInv
<1>1. /\ x.fifo \in Seq(Packet) /\ DOMAIN x.fifo = 1..Len(x.fifo) /\ x.sourceEpoch \in Nat
      /\ epoch \in Nat /\ epoch > x.sourceEpoch
  <2>1. x.fifo \in Seq(Packet) /\ x.sourceEpoch \in Nat
    BY <1>i, Fields
  <2> QED
    BY <2>1
<1>2. \A i \in I : i \in 1..Len(x.fifo) /\ ~IsMedia(x.fifo[i])
  <2>1. ASSUME NEW i \in 1..Len(x.fifo), IsMedia(x.fifo[i]) PROVE i \in stale
    <3> DEFINE e == x.fifo[i].epoch
    <3>1. e \in Nat
      BY <1>1, PacketFields
    <3>2. e <= x.sourceEpoch
      BY <1>i, <2>1 DEF WaitingInv, Good
    <3> HIDE DEF e
    <3>3. e # epoch
      BY <1>1, <3>1, <3>2
    <3> QED
      BY <1>1, <2>1, <3>3 DEF IsMedia, e
  <2> HIDE DEF stale
  <2> QED
    BY <1>1, <2>1
<1>3. q \in Seq(Packet) /\ \A k \in 1..Len(q) : \E i \in I : q[k] = x.fifo[i]
  <2>1. I \in SUBSET (DOMAIN x.fifo)
    OBVIOUS
  <2> HIDE DEF I
  <2> QED
    BY <1>1, <2>1, FilteredFrom, Zenon
<1>4. invalidateQueuedSource(x) = Settle(z, packets)
  BY DEF invalidateQueuedSource
<1> HIDE DEF q, packets, I, epoch
<1>5. \A k \in 1..Len(q) : ~IsMedia(q[k]) /\ Good(q[k], x, w, g, c) /\ q[k] \in Packet
  <2>1. ASSUME NEW k \in 1..Len(q) PROVE ~IsMedia(q[k]) /\ Good(q[k], x, w, g, c) /\ q[k] \in Packet
    <3>1. PICK i \in I : q[k] = x.fifo[i]
      BY <1>3
    <3>2. i \in 1..Len(x.fifo) /\ ~IsMedia(x.fifo[i])
      BY <1>2
    <3> QED
      BY <1>1, <1>i, <3>1, <3>2 DEF WaitingInv
  <2> QED
    BY <2>1
<1>6. /\ z \in SenderType /\ z.sourceEpoch = epoch /\ z.fifo = q /\ z.pendingRtp = <<>>
      /\ \A f \in {"track", "ready", "stopped", "sendSuppressed", "paced", "generation",
                   "last", "seqOffset", "pending", "rtpCache", "task", "out"} : z[f] = x[f]
  <2>1. <<>> \in Seq(Packet)
    OBVIOUS
  <2> QED
    BY <1>1, <1>3, <1>i, <2>1 DEF SenderType
<1> HIDE DEF z
<1>7. z.stopped = x.stopped /\ z.task = x.task
  BY <1>6
<1>t. x.task.st = "wait" => x.task.p \in Packet
  BY <1>i, Fields, TaskForms
<1>8. ASSUME x.task.st = "wait", IsMedia(x.task.p) PROVE x.task.p.epoch < epoch
  <2> DEFINE e == x.task.p.epoch
  <2>1. e \in Nat
    BY <1>8, <1>t, PacketFields
  <2>2. e <= x.sourceEpoch
    BY <1>8, <1>i DEF WaitingInv, Good
  <2> HIDE DEF e
  <2>3. e < epoch
    BY <1>1, <2>1, <2>2
  <2> QED
    BY <2>3 DEF e
<1>9. StaleQueues(z)
  BY <1>5, <1>6, <1>7, <1>8 DEF StaleQueues
<1>e. z.sourceEpoch \in Nat /\ z.sourceEpoch >= x.sourceEpoch
  BY <1>1, <1>6
<1>10. WaitingInv(z, w, g, c)
  <2>1. \A i \in 1..Len(q) : Good(q[i], z, w, g, c)
    <3>1. ASSUME NEW i \in 1..Len(q) PROVE Good(q[i], z, w, g, c)
      BY <1>1, <1>5, <1>e, GoodStale
    <3> QED
      BY <3>1
  <2>2. x.task.st = "wait" => Good(x.task.p, z, w, g, c)
    <3> SUFFICES ASSUME x.task.st = "wait" PROVE Good(x.task.p, z, w, g, c)
      OBVIOUS
    <3>1. Good(x.task.p, x, w, g, c) /\ x.task.p \in Packet
      BY <1>i, <1>t DEF WaitingInv
    <3> QED
      BY <1>1, <1>6, <1>8, <1>e, <3>1, GoodStale
  <2>3. \A i \in 1..Len(z.pendingRtp) : FALSE
    BY <1>6
  <2> QED
    BY <1>6, <1>7, <2>1, <2>2, <2>3 DEF WaitingInv
<1>11. LineInv(z)
  <2>1. Ordered(<<>>) /\ Ordered(q)
    BY <1>5 DEF Ordered
  <2>2. \A r : Before(r, <<>>) /\ Before(r, q)
    BY <1>5 DEF Before
  <2>3. x.task = Idle => q = <<>>
    <3> SUFFICES ASSUME x.task = Idle, q # <<>> PROVE FALSE
      OBVIOUS
    <3>1. Len(q) \in Nat \ {0}
      BY <1>3
    <3>2. 1 \in 1..Len(q)
      BY <3>1
    <3>3. PICK i \in I : q[1] = x.fifo[i]
      BY <1>3, <3>2
    <3>4. i \in 1..Len(x.fifo) /\ x.fifo = <<>>
      BY <1>2, <1>i DEF LineInv
    <3> QED
      BY <3>4
  <2> QED
    BY <1>6, <1>7, <2>1, <2>2, <2>3 DEF LineInv
<1>12. StreamInv(z, w, g, c) /\ CacheInv(z, w) /\ OutInv(z)
  <2>1. z.track = x.track /\ z.stopped = x.stopped /\ z.sendSuppressed = x.sendSuppressed
        /\ z.last = x.last /\ z.seqOffset = x.seqOffset /\ z.pending = x.pending
        /\ z.rtpCache = x.rtpCache /\ z.out = x.out
    BY <1>6
  <2>2. StreamInv(z, w, g, c)
    BY <1>i, <2>1 DEF StreamInv
  <2>3. CacheInv(z, w)
    BY <1>i, <2>1 DEF CacheInv
  <2>4. OutInv(z)
    BY <1>i, <2>1 DEF OutInv
  <2> QED
    BY <2>2, <2>3, <2>4
<1>13. SenderInv(z, w, g, c)
  <2>1. Len(<<>>) <= MaxPending
    BY ConstantsAssumption
  <2> QED
    BY <1>6, <1>10, <1>11, <1>12, <2>1 DEF SenderInv
<1> DEFINE y == Settle(z, packets)
<1>14. /\ SenderInv(y, w, g, c)
       /\ \A f \in {"track", "ready", "stopped", "sendSuppressed", "paced", "generation",
                    "sourceEpoch", "last", "seqOffset", "pending", "rtpCache", "pendingRtp",
                    "task", "fifo", "out"} : y[f] = z[f]
  BY <1>13, Settles
<1> HIDE DEF y
<1>15. StaleQueues(y)
  <2>1. y.task = z.task /\ y.sourceEpoch = z.sourceEpoch /\ y.fifo = z.fifo /\ y.pendingRtp = z.pendingRtp
    BY <1>14
  <2> QED
    BY <1>9, <2>1 DEF StaleQueues
<1>16. \A f \in {"track", "ready", "stopped", "sendSuppressed", "paced", "generation",
                 "last", "seqOffset", "pending", "rtpCache", "task", "out"} : y[f] = x[f]
  BY <1>6, <1>14
<1> QED
  BY <1>4, <1>14, <1>15, <1>16 DEF y

\* Another source: nothing that waits is of it, and its numbers go on from the
\* last one or nothing is known of them.
LEMMA SourceInv ==
    ASSUME NEW x, NEW y \in SenderType, NEW w \in Seq(Packet), NEW g, NEW h, NEW c,
           SenderInv(x, w, g, c), StaleQueues(x), x.out = <<>>,
           \A f \in {"stopped", "sendSuppressed", "sourceEpoch", "last", "seqOffset", "pendingRtp",
                     "task", "fifo", "out"} : y[f] = x[f],
           y.rtpCache = x.rtpCache \/ y.rtpCache = {},
           y.last = NoNumber \/ y.pending \/ y.track = None
    PROVE  SenderInv(y, w, h, c)
<1>i. /\ x \in SenderType /\ Len(x.pendingRtp) <= MaxPending /\ WaitingInv(x, w, g, c) /\ LineInv(x)
      /\ StreamInv(x, w, g, c) /\ CacheInv(x, w) /\ x.pendingRtp = <<>>
  BY DEF SenderInv, StaleQueues
<1>1. /\ y.stopped = x.stopped /\ y.sendSuppressed = x.sendSuppressed
      /\ y.sourceEpoch = x.sourceEpoch /\ y.last = x.last /\ y.seqOffset = x.seqOffset
      /\ y.pendingRtp = x.pendingRtp /\ y.task = x.task /\ y.fifo = x.fifo /\ y.out = <<>>
  OBVIOUS
<1>2. /\ x.sourceEpoch \in Nat /\ x.sourceEpoch >= x.sourceEpoch
      /\ x.fifo \in Seq(Packet) /\ (x.task.st = "wait" => x.task.p \in Packet)
  <2>1. x.sourceEpoch \in Nat /\ x.fifo \in Seq(Packet) /\ (x.task.st = "wait" => x.task.p \in Packet)
    BY <1>i, Fields, TaskForms
  <2> QED
    BY <2>1
<1>3. WaitingInv(y, w, h, c)
  <2>1. \A i \in 1..Len(x.fifo) : Good(x.fifo[i], y, w, h, c)
    <3>1. ASSUME NEW i \in 1..Len(x.fifo) PROVE Good(x.fifo[i], y, w, h, c)
      <4>1. x.fifo[i] \in Packet /\ ~IsMedia(x.fifo[i]) /\ Good(x.fifo[i], x, w, g, c)
        BY <1>2, <1>i DEF StaleQueues, WaitingInv
      <4> QED
        BY <1>1, <1>2, <4>1, GoodStale
    <3> QED
      BY <3>1
  <2>2. x.task.st = "wait" => Good(x.task.p, y, w, h, c)
    <3> SUFFICES ASSUME x.task.st = "wait" PROVE Good(x.task.p, y, w, h, c)
      OBVIOUS
    <3>1. /\ x.task.p \in Packet /\ Good(x.task.p, x, w, g, c)
          /\ IsMedia(x.task.p) => x.task.p.epoch < x.sourceEpoch
      BY <1>2, <1>i DEF StaleQueues, WaitingInv
    <3> QED
      BY <1>1, <1>2, <3>1, GoodStale
  <2>3. \A i \in 1..Len(y.pendingRtp) : FALSE
    BY <1>1, <1>i
  <2> QED
    BY <1>1, <2>1, <2>2, <2>3 DEF WaitingInv
<1>4. LineInv(y)
  BY <1>1, <1>i DEF LineInv
<1>5. StreamInv(y, w, h, c)
  BY <1>1, <1>i DEF StreamInv
<1>6. CacheInv(y, w)
  BY <1>i DEF CacheInv
<1>7. OutInv(y)
  BY <1>1 DEF OutInv
<1> QED
  BY <1>1, <1>3, <1>4, <1>5, <1>6, <1>7, <1>i DEF SenderInv

\* The transport, the estimator or the direction changes.
LEMMA SettingInv ==
    ASSUME NEW x, NEW y \in SenderType, NEW w, NEW g, NEW c, SenderInv(x, w, g, c), x.out = <<>>,
           \A f \in {"track", "stopped", "sourceEpoch", "last", "seqOffset", "pending", "rtpCache",
                     "task", "fifo", "out"} : y[f] = x[f],
           y.pendingRtp = x.pendingRtp \/ y.pendingRtp = <<>>
    PROVE  SenderInv(y, w, g, c)
<1>i. /\ x \in SenderType /\ Len(x.pendingRtp) <= MaxPending /\ WaitingInv(x, w, g, c) /\ LineInv(x)
      /\ StreamInv(x, w, g, c) /\ CacheInv(x, w) /\ (~scenario.pendingRtp => x.pendingRtp = <<>>)
  BY DEF SenderInv
<1>1. /\ y.track = x.track /\ y.stopped = x.stopped /\ y.sourceEpoch = x.sourceEpoch
      /\ y.last = x.last /\ y.seqOffset = x.seqOffset /\ y.pending = x.pending
      /\ y.rtpCache = x.rtpCache /\ y.task = x.task /\ y.fifo = x.fifo /\ y.out = <<>>
  OBVIOUS
<1>2. /\ Len(y.pendingRtp) <= MaxPending
      /\ \A i \in 1..Len(y.pendingRtp) : i \in 1..Len(x.pendingRtp) /\ y.pendingRtp[i] = x.pendingRtp[i]
  <2>1. Len(<<>>) <= MaxPending /\ \A i \in 1..Len(<<>>) : FALSE
    BY ConstantsAssumption
  <2> QED
    BY <1>i, <2>1
<1>3. WaitingInv(y, w, g, c)
  BY <1>1, <1>2, <1>i, GoodFrame DEF WaitingInv
<1>4. LineInv(y)
  <2>1. Ordered(y.pendingRtp)
    BY <1>2, <1>i DEF LineInv, Ordered
  <2>2. \A r : Before(r, x.pendingRtp) => Before(r, y.pendingRtp)
    BY <1>2 DEF Before
  <2> QED
    BY <1>1, <1>i, <2>1, <2>2 DEF LineInv
<1>5. StreamInv(y, w, g, c)
  BY <1>1, <1>i DEF StreamInv
<1>6. CacheInv(y, w)
  BY <1>1, <1>i DEF CacheInv
<1>7. OutInv(y)
  BY <1>1 DEF OutInv
<1> QED
  BY <1>1, <1>2, <1>3, <1>4, <1>5, <1>6, <1>7, <1>i DEF SenderInv

LEMMA StopInv ==
    ASSUME NEW x, NEW y \in SenderType, NEW w, NEW g, NEW c, SenderInv(x, w, g, c), x.out = <<>>,
           \A f \in {"sourceEpoch", "last", "seqOffset", "rtpCache", "task", "fifo", "out"} :
               y[f] = x[f],
           y.pendingRtp = <<>>, y.stopped
    PROVE  SenderInv(y, w, g, c)
<1>i. /\ x \in SenderType /\ WaitingInv(x, w, g, c) /\ LineInv(x)
      /\ StreamInv(x, w, g, c) /\ CacheInv(x, w)
  BY DEF SenderInv
<1>1. /\ y.sourceEpoch = x.sourceEpoch /\ y.last = x.last /\ y.seqOffset = x.seqOffset
      /\ y.rtpCache = x.rtpCache /\ y.task = x.task /\ y.fifo = x.fifo /\ y.out = <<>>
  OBVIOUS
<1>2. Len(<<>>) <= MaxPending /\ \A i \in 1..Len(<<>>) : FALSE
  BY ConstantsAssumption
<1>g. \A p : Good(p, x, w, g, c) => Good(p, y, w, g, c)
  BY <1>1 DEF Good
<1>3. WaitingInv(y, w, g, c)
  BY <1>1, <1>2, <1>g, <1>i DEF WaitingInv
<1>4. LineInv(y)
  <2>1. Ordered(y.pendingRtp)
    BY <1>2 DEF Ordered
  <2>2. \A r : Before(r, y.pendingRtp)
    BY <1>2 DEF Before
  <2> QED
    BY <1>1, <1>i, <2>1, <2>2 DEF LineInv
<1>5. StreamInv(y, w, g, c)
  BY <1>1, <1>i DEF StreamInv
<1>6. CacheInv(y, w)
  BY <1>1, <1>i DEF CacheInv
<1>7. OutInv(y)
  BY <1>1 DEF OutInv
<1> QED
  BY <1>1, <1>2, <1>3, <1>4, <1>5, <1>6, <1>7, <1>i DEF SenderInv

-----------------------------------------------------------------------------
(* The actions.                                                              *)

\* The step ends in a sender that is right with what it wrote.
Stepped ==
    /\ \E x : Become(x) /\ Reached(x, wire, given', count'.packets)
    /\ given' \in [Tracks -> Nat]
    /\ count' \in [packets : 0..MaxPackets, switches : Nat, nacks : Nat]
    /\ scenario' = scenario

LEMMA InvFacts ==
    ASSUME RtpInv
    PROVE  /\ wire \in Seq(Packet) /\ given \in [Tracks -> Nat]
           /\ count \in [packets : 0..MaxPackets, switches : Nat, nacks : Nat]
           /\ count.packets \in Nat /\ s.out = <<>> /\ s \in SenderType
           /\ SenderInv(s, wire, given, count.packets)
<1>1. count \in [packets : 0..MaxPackets, switches : Nat, nacks : Nat]
  BY DEF RtpInv
<1>2. count.packets \in 0..MaxPackets
  BY <1>1
<1>3. MaxPackets \in Nat
  BY ConstantsAssumption
<1>4. count.packets \in Nat
  BY <1>2, <1>3
<1> QED
  BY <1>4 DEF RtpInv, SenderInv

LEMMA QuietStep ==
    ASSUME RtpInv, NEW x, Become(x), Reached(x, wire, given, count.packets),
           UNCHANGED <<scenario, given, count>>
    PROVE  Stepped
BY InvFacts DEF Stepped

LEMMA SwitchStep ==
    ASSUME RtpInv, NEW x, Switch(x), Reached(x, wire, given, count.packets)
    PROVE  Stepped
<1>1. count \in [packets : 0..MaxPackets, switches : Nat, nacks : Nat]
  BY InvFacts
<1>2. count' = [count EXCEPT !.switches = @ + 1] /\ Become(x) /\ scenario' = scenario /\ given' = given
  BY DEF Switch
<1>3. /\ count' \in [packets : 0..MaxPackets, switches : Nat, nacks : Nat]
      /\ count'.packets = count.packets
  BY <1>1, <1>2
<1> QED
  BY <1>2, <1>3, InvFacts DEF Stepped

LEMMA WaitEndsStep ==
    ASSUME RtpInv, waitEnds
    PROVE  Stepped
<1> DEFINE c == count.packets
           p == s.task.p
           t == [s.task EXCEPT !.st = "done"]
           x == [s EXCEPT !.task = t]
           y == IF s.task.gen = s.generation /\ Sendable(s, p) THEN Write(x, p) ELSE x
<1>i. /\ wire \in Seq(Packet) /\ given \in [Tracks -> Nat] /\ c \in Nat /\ s.out = <<>>
      /\ s \in SenderType /\ SenderInv(s, wire, given, c)
  BY InvFacts
<1>1. s.task.st = "wait" /\ UNCHANGED <<scenario, given, count>>
  BY DEF waitEnds
<1>2. Become(y)
  BY DEF waitEnds
<1>3. s.task \in Task /\ p \in Packet
  BY <1>1, <1>i, Fields, TaskForms
<1>4. Good(p, s, wire, given, c) /\ Before(p, s.fifo) /\ Before(p, s.pendingRtp)
  BY <1>1, <1>i DEF SenderInv, WaitingInv, LineInv
<1>5. t \in {Idle} \union Task /\ t.st = "done" /\ t # Idle
  <2>1. t \in Task /\ t.st = "done"
    BY <1>3 DEF Task
  <2> HIDE DEF t
  <2> QED
    BY <2>1, TaskForms
<1> HIDE DEF t, p
<1>6. SenderInv(x, wire, given, c) /\ x.out = s.out /\ x.task = t
  BY <1>5, <1>i, SetTask
<1>7. \A f \in {"track", "stopped", "sendSuppressed", "sourceEpoch", "fifo", "pendingRtp"} : x[f] = s[f]
  BY <1>i DEF SenderType
<1>8. /\ x.track = s.track /\ x.stopped = s.stopped /\ x.sendSuppressed = s.sendSuppressed
      /\ x.sourceEpoch = s.sourceEpoch /\ x.fifo = s.fifo /\ x.pendingRtp = s.pendingRtp
  BY <1>7
<1>y. y = x \/ (y = Write(x, p) /\ Sendable(s, p))
  OBVIOUS
<1> HIDE DEF x
<1>9. Good(p, x, wire, given, c)
  BY <1>4, <1>8, GoodFrame
<1>10. Reached(y, wire, given, c)
  <2>1. CASE y = x
    BY <1>6, <1>i, <2>1, NothingWritten
  <2>2. CASE y = Write(x, p) /\ Sendable(s, p)
    <3>1. Sendable(x, p)
      BY <1>8, <2>2 DEF Sendable, isStaleSource
    <3>2. /\ SenderInv(Write(x, p), wire \o Write(x, p).out, given, c)
          /\ Write(x, p).out \in Seq(Packet)
      BY <1>3, <1>4, <1>5, <1>6, <1>8, <1>9, <1>i, <3>1, WriteInv
    <3> QED
      BY <2>2, <3>2 DEF Reached
  <2> QED
    BY <1>y, <2>1, <2>2
<1> HIDE DEF y
<1> QED
  BY <1>1, <1>2, <1>10, QuietStep

LEMMA TaskEndsStep ==
    ASSUME RtpInv, taskEnds
    PROVE  Stepped
<1> DEFINE c == count.packets
           x == Settle(s, <<s.task.p>>)
<1>i. /\ wire \in Seq(Packet) /\ given \in [Tracks -> Nat] /\ c \in Nat /\ s.out = <<>>
      /\ s \in SenderType /\ SenderInv(s, wire, given, c)
  BY InvFacts
<1>1. /\ s.task.st = "done" /\ UNCHANGED <<scenario, given, count>>
      /\ Become(IF x.fifo = <<>> THEN [x EXCEPT !.task = Idle]
                ELSE start([x EXCEPT !.fifo = Tail(x.fifo)], Head(x.fifo)))
  BY DEF taskEnds
<1>2. SenderInv(x, wire, given, c) /\ x.out = s.out /\ x.task = s.task
  BY <1>i, Settles
<1> HIDE DEF x
<1>3. x.task # Idle
  BY <1>1, <1>2 DEF Idle
<1>t. x \in SenderType /\ x.fifo \in Seq(Packet) /\ WaitingInv(x, wire, given, c) /\ LineInv(x)
  BY <1>2, Fields DEF SenderInv
<1>4. CASE x.fifo = <<>>
  <2> DEFINE y == [x EXCEPT !.task = Idle]
  <2>1. Idle \in {Idle} \union Task /\ Idle.st # "wait"
    BY DEF Idle
  <2>2. SenderInv(y, wire, given, c) /\ y.out = x.out
    BY <1>2, <1>4, <2>1, SetTask
  <2>3. Become(y)
    BY <1>1, <1>4
  <2> HIDE DEF y
  <2>4. Reached(y, wire, given, c)
    BY <1>2, <1>i, <2>2, NothingWritten
  <2> QED
    BY <1>1, <2>3, <2>4, QuietStep
<1>5. CASE x.fifo # <<>>
  <2> DEFINE q == Tail(x.fifo)
             p == Head(x.fifo)
             z == [x EXCEPT !.fifo = q]
  <2>1. p \in Packet /\ p = x.fifo[1] /\ q \in Seq(Packet) /\ Len(q) = Len(x.fifo) - 1
        /\ \A i \in 1..Len(q) : q[i] = x.fifo[i + 1]
    <3>1. p \in Packet /\ p = x.fifo[1]
      BY <1>5, <1>t
    <3> QED
      BY <1>5, <1>t, <3>1, HeadTailProperties
  <2>2. 1 \in 1..Len(x.fifo) /\ \A i \in 1..Len(q) : i + 1 \in 1..Len(x.fifo) /\ 1 < i + 1
    <3>1. Len(x.fifo) \in Nat \ {0}
      BY <1>5, <1>t
    <3> QED
      BY <2>1, <3>1
  <2>3. Become(start(z, p))
    BY <1>1, <1>5
  <2> HIDE DEF p, q
  <2>4. Later(q, x.fifo, 1) /\ 1 \in Nat
    BY <2>1, <2>2 DEF Later
  <2>5. /\ SenderInv(z, wire, given, c) /\ z.fifo = q
        /\ \A f \in {"track", "ready", "stopped", "sendSuppressed", "paced", "generation",
                     "sourceEpoch", "last", "seqOffset", "pending", "rtpCache", "pendingRtp",
                     "task", "draining", "out"} : z[f] = x[f]
    <3>1. q \in Seq(Packet)
      BY <2>1
    <3>2. Later(q, x.fifo, 1) /\ 1 \in Nat
      BY <2>4
    <3> QED
      BY <1>2, <1>3, <3>1, <3>2, DropFirst
  <2> HIDE DEF z
  <2>6. /\ z.track = x.track /\ z.stopped = x.stopped /\ z.sourceEpoch = x.sourceEpoch
        /\ z.pendingRtp = x.pendingRtp /\ z.task = x.task /\ z.out = x.out
    BY <2>5
  <2>7. Good(p, x, wire, given, c) /\ Before(p, x.pendingRtp)
    BY <1>t, <2>1, <2>2 DEF WaitingInv, LineInv
  <2>8. Good(p, z, wire, given, c)
    BY <2>6, <2>7, GoodFrame
  <2>9. Before(p, q)
    <3>1. ASSUME NEW i \in 1..Len(q), IsMedia(p), IsMedia(q[i]) PROVE p.id < q[i].id
      <4>1. i + 1 \in 1..Len(x.fifo) /\ 1 < i + 1 /\ q[i] = x.fifo[i + 1]
        BY <2>1, <2>2
      <4> QED
        BY <1>t, <2>1, <2>2, <3>1, <4>1 DEF LineInv, Ordered
    <3> QED
      BY <3>1 DEF Before
  <2>10. z.task.st # "wait" /\ z.out = <<>>
    BY <1>1, <1>2, <1>i, <2>6
  <2>11. Reached(start(z, p), wire, given, c)
    BY <1>i, <2>1, <2>5, <2>6, <2>7, <2>8, <2>9, <2>10, StartInv
  <2> QED
    BY <1>1, <2>3, <2>11, QuietStep
<1> QED
  BY <1>4, <1>5

LEMMA DrainResumesStep ==
    ASSUME RtpInv, drainResumes
    PROVE  Stepped
<1> DEFINE c == count.packets
           x == [s EXCEPT !.draining = "idle"]
<1>i. /\ wire \in Seq(Packet) /\ given \in [Tracks -> Nat] /\ c \in Nat /\ s.out = <<>>
      /\ SenderInv(s, wire, given, c)
  BY InvFacts
<1>1. Become(drain(x)) /\ UNCHANGED <<scenario, given, count>>
  BY DEF drainResumes
<1>2. SenderInv(x, wire, given, c) /\ x.out = s.out
  BY <1>i, SetDraining
<1> HIDE DEF x
<1>3. Reached(drain(x), wire, given, c)
  BY <1>2, <1>i, DrainInv
<1> QED
  BY <1>1, <1>3, QuietStep

LEMMA SendRtpStep ==
    ASSUME RtpInv, NEW old \in 0..MaxQueue, sendRtp(old)
    PROVE  Stepped
<1> DEFINE c == count.packets
           t == s.track
           p == [kind |-> "media", src |-> t, n |-> (FirstNumber[t] + given[t]) % Numbers,
                 id |-> c, epoch |-> s.sourceEpoch, seq |-> NoNumber, drained |-> FALSE]
           y == IF s.stopped \/ s.sendSuppressed THEN s
                ELSE IF scenario.pendingRtp
                THEN drain(enqueue(s, p))
                ELSE IF canSendRtp(s) THEN dispatchOutgoing(s, p, old) ELSE s
           g == [given EXCEPT ![t] = @ + 1]
<1>i. /\ wire \in Seq(Packet) /\ given \in [Tracks -> Nat] /\ c \in Nat /\ s.out = <<>>
      /\ s \in SenderType /\ SenderInv(s, wire, given, c)
      /\ count \in [packets : 0..MaxPackets, switches : Nat, nacks : Nat]
  BY InvFacts
<1>1. /\ t # None /\ c < MaxPackets /\ old <= Len(s.fifo) /\ given' = g
      /\ count' = [count EXCEPT !.packets = c + 1] /\ scenario' = scenario /\ Become(y)
  BY DEF sendRtp
<1>o. old \in Nat
  BY ConstantsAssumption
<1>2. t \in Tracks
  BY <1>1, <1>i, Fields
<1>3. count' \in [packets : 0..MaxPackets, switches : Nat, nacks : Nat] /\ count'.packets = c + 1
  <2>1. c + 1 \in 0..MaxPackets
    BY <1>1, <1>i, ConstantsAssumption
  <2> QED
    BY <1>1, <1>i, <2>1
<1>4. g \in [Tracks -> Nat] /\ c + 1 \in Nat
  BY <1>2, <1>i
<1>5. p \in Packet /\ IsMedia(p)
  <2> DEFINE m == (FirstNumber[t] + given[t]) % Numbers
  <2>1. FirstNumber[t] + given[t] \in Int
    BY <1>2, <1>i, ConstantsAssumption
  <2>2. m \in 0..Numbers - 1
    BY <2>1, SameMod
  <2>3. m \in Nat /\ NoNumber \in Nat /\ s.sourceEpoch \in Nat
    BY <1>i, <2>2, NumbersType, Fields
  <2> HIDE DEF m
  <2> QED
    BY <1>2, <1>i, <2>3 DEF Packet, IsMedia, m
<1>6. /\ p.src = s.track /\ p.n = (FirstNumber[s.track] + given[s.track]) % Numbers
      /\ p.id = c /\ p.epoch = s.sourceEpoch
  OBVIOUS
<1>y. y = s \/ (scenario.pendingRtp /\ y = drain(enqueue(s, p)))
        \/ (~scenario.pendingRtp /\ y = dispatchOutgoing(s, p, old))
  OBVIOUS
<1> HIDE DEF p, y
<1>7. Good(p, s, wire, g, c + 1) /\ Newest(p, s)
  BY <1>2, <1>5, <1>6, <1>i, FreshGood
<1>8. SenderInv(s, wire, g, c + 1)
  BY <1>2, <1>i, GivenInv
<1> HIDE DEF g
<1>9. Reached(y, wire, g, c + 1)
  <2>1. CASE y = s
    BY <1>8, <1>i, <2>1, NothingWritten
  <2>2. CASE scenario.pendingRtp /\ y = drain(enqueue(s, p))
    <3> DEFINE x == enqueue(s, p)
    <3>1. SenderInv(x, wire, g, c + 1) /\ x.out = s.out
      BY <1>5, <1>7, <1>8, <2>2, EnqueueInv
    <3> HIDE DEF x
    <3>2. Reached(drain(x), wire, g, c + 1)
      BY <1>4, <1>i, <3>1, DrainInv
    <3> QED
      BY <2>2, <3>2 DEF x
  <2>3. CASE ~scenario.pendingRtp /\ y = dispatchOutgoing(s, p, old)
    <3>1. s.pendingRtp = <<>>
      BY <1>i, <2>3 DEF SenderInv
    <3>2. Joins(p, s)
      BY <1>7, <3>1 DEF Joins, Newest, Before
    <3> QED
      BY <1>1, <1>4, <1>5, <1>7, <1>8, <1>i, <1>o, <2>3, <3>2, DispatchInv
  <2> QED
    BY <1>y, <2>1, <2>2, <2>3
<1> QED
  BY <1>1, <1>3, <1>4, <1>9 DEF Stepped

\* The source is invalidated and the sender made ready for another one.
LEMMA ScheduleFields ==
    ASSUME NEW x, NEW w \in Seq(Packet), NEW g, NEW c, SenderInv(x, w, g, c), x.out = <<>>
    PROVE  LET y == scheduleRtpContinuity(x) IN
           /\ y \in SenderType /\ SenderInv(y, w, g, c) /\ StaleQueues(y)
           /\ y.pending /\ y.out = <<>> /\ y.last = x.last
<1> DEFINE z == invalidateQueuedSource(x)
           y == [z EXCEPT !.pending = TRUE, !.rtpCache = {}]
<1>1. /\ SenderInv(z, w, g, c) /\ StaleQueues(z)
      /\ \A f \in {"track", "ready", "stopped", "sendSuppressed", "paced", "generation",
                   "last", "seqOffset", "pending", "rtpCache", "task", "out"} : z[f] = x[f]
  BY InvalidateInv
<1>2. scheduleRtpContinuity(x) = y
  BY DEF scheduleRtpContinuity
<1> HIDE DEF z
<1>3. z \in SenderType /\ z.out = <<>> /\ z.last = x.last
  BY <1>1 DEF SenderInv
<1>4. /\ y \in SenderType /\ y.pending /\ y.rtpCache = {}
      /\ \A f \in {"stopped", "sendSuppressed", "sourceEpoch", "last", "seqOffset", "pendingRtp",
                   "task", "fifo", "out"} : y[f] = z[f]
  BY <1>3 DEF SenderType
<1> HIDE DEF y
<1>5. SenderInv(y, w, g, c)
  BY <1>1, <1>3, <1>4, SourceInv
<1>6. y.task = z.task /\ y.fifo = z.fifo /\ y.pendingRtp = z.pendingRtp
      /\ y.sourceEpoch = z.sourceEpoch /\ y.last = z.last /\ y.out = z.out
  BY <1>4
<1>7. StaleQueues(y)
  BY <1>1, <1>6 DEF StaleQueues
<1> QED
  BY <1>2, <1>3, <1>4, <1>5, <1>6, <1>7

LEMMA ReplaceTrackStep ==
    ASSUME RtpInv, NEW t \in Tracks, replaceTrack(t)
    PROVE  Stepped
<1> DEFINE c == count.packets
           x == IF s.last # NoNumber THEN scheduleRtpContinuity(s) ELSE invalidateQueuedSource(s)
           y == [x EXCEPT !.track = t]
<1>i. /\ wire \in Seq(Packet) /\ s.out = <<>> /\ SenderInv(s, wire, given, c)
  BY InvFacts
<1>1. Switch(y)
  BY DEF replaceTrack
<1>2. /\ x \in SenderType /\ SenderInv(x, wire, given, c) /\ StaleQueues(x) /\ x.out = <<>>
      /\ x.last = NoNumber \/ x.pending
  <2>1. CASE s.last # NoNumber
    BY <1>i, <2>1, ScheduleFields
  <2>2. CASE s.last = NoNumber
    <3> DEFINE z == invalidateQueuedSource(s)
    <3>1. x = z
      BY <2>2
    <3>2. /\ SenderInv(z, wire, given, c) /\ StaleQueues(z)
          /\ \A f \in {"track", "ready", "stopped", "sendSuppressed", "paced", "generation",
                       "last", "seqOffset", "pending", "rtpCache", "task", "out"} : z[f] = s[f]
      BY <1>i, InvalidateInv
    <3> HIDE DEF z, x
    <3> QED
      BY <1>i, <2>2, <3>1, <3>2 DEF SenderInv
  <2> QED
    BY <2>1, <2>2
<1> HIDE DEF x
<1>3. /\ y \in SenderType /\ y.rtpCache = x.rtpCache /\ y.pending = x.pending
      /\ \A f \in {"stopped", "sendSuppressed", "sourceEpoch", "last", "seqOffset", "pendingRtp",
                   "task", "fifo", "out"} : y[f] = x[f]
  BY <1>2 DEF SenderType
<1> HIDE DEF y
<1>4. y.last = x.last /\ y.out = <<>>
  BY <1>2, <1>3
<1>5. SenderInv(y, wire, given, c)
  BY <1>2, <1>3, <1>4, <1>i, SourceInv
<1>6. Reached(y, wire, given, c)
  BY <1>4, <1>5, <1>i, NothingWritten
<1> QED
  BY <1>1, <1>6, SwitchStep

LEMMA DetachTrackStep ==
    ASSUME RtpInv, detachTrack
    PROVE  Stepped
<1> DEFINE c == count.packets
           d == [s EXCEPT !.pending = FALSE, !.pendingRtp = <<>>]
           y == [invalidateQueuedSource(d) EXCEPT !.track = None]
           x == invalidateQueuedSource(s)
           z == [x EXCEPT !.pending = FALSE, !.track = None]
<1>i. /\ wire \in Seq(Packet) /\ s.out = <<>> /\ SenderInv(s, wire, given, c) /\ s \in SenderType
  BY InvFacts
<1>1. Switch(y)
  BY DEF detachTrack
<1>2. /\ SenderInv(x, wire, given, c) /\ StaleQueues(x)
      /\ \A f \in {"track", "ready", "stopped", "sendSuppressed", "paced", "generation",
                   "last", "seqOffset", "pending", "rtpCache", "task", "out"} : x[f] = s[f]
  BY <1>i, InvalidateInv
<1>3. y = z
  <2> DEFINE epoch == s.sourceEpoch + 1
             stale == {i \in DOMAIN s.fifo : s.fifo[i].kind = "media" /\ s.fifo[i].epoch # epoch}
             packets == Filtered(s.fifo, stale)
             q == Filtered(s.fifo, DOMAIN s.fifo \ stale)
             v == [s EXCEPT !.sourceEpoch = epoch, !.fifo = q, !.pendingRtp = <<>>]
             u == [d EXCEPT !.sourceEpoch = epoch, !.fifo = q, !.pendingRtp = <<>>]
  <2>1. x = Settle(v, packets)
    BY DEF invalidateQueuedSource
  <2>2. d.fifo = s.fifo /\ d.sourceEpoch = s.sourceEpoch
    BY <1>i DEF SenderType
  <2>3. invalidateQueuedSource(d) = Settle(u, packets)
    <3> HIDE DEF d
    <3> QED
      BY <2>2 DEF invalidateQueuedSource
  <2> HIDE DEF q, packets, epoch
  <2>4. u = [v EXCEPT !.pending = FALSE]
    BY <1>i DEF SenderType
  <2> HIDE DEF x
  <2>5. [u EXCEPT !.track = None] = [v EXCEPT !.pending = FALSE, !.track = None]
    BY <1>i DEF SenderType
  <2>6. [[u EXCEPT !.draining = "resume"] EXCEPT !.track = None]
          = [[v EXCEPT !.draining = "resume"] EXCEPT !.pending = FALSE, !.track = None]
    BY <1>i DEF SenderType
  <2> HIDE DEF u, v
  <2>7. CASE \E i \in DOMAIN packets : packets[i].drained
    BY <2>1, <2>3, <2>6, <2>7 DEF Settle
  <2>8. CASE ~ \E i \in DOMAIN packets : packets[i].drained
    BY <2>1, <2>3, <2>5, <2>8 DEF Settle
  <2> QED
    BY <2>7, <2>8
<1> HIDE DEF x, y
<1>4. x \in SenderType /\ x.out = <<>>
  BY <1>2, <1>i DEF SenderInv
<1>5. /\ z \in SenderType /\ z.rtpCache = x.rtpCache /\ z.track = None
      /\ \A f \in {"stopped", "sendSuppressed", "sourceEpoch", "last", "seqOffset", "pendingRtp",
                   "task", "fifo", "out"} : z[f] = x[f]
  BY <1>4 DEF SenderType
<1> HIDE DEF z
<1>6. z.out = <<>>
  BY <1>4, <1>5
<1>7. SenderInv(z, wire, given, c)
  BY <1>2, <1>4, <1>5, <1>i, SourceInv
<1>8. Reached(z, wire, given, c)
  BY <1>6, <1>7, <1>i, NothingWritten
<1> QED
  BY <1>1, <1>3, <1>8, SwitchStep

LEMMA ReplaceRTPStep ==
    ASSUME RtpInv, replaceRTP
    PROVE  Stepped
<1> DEFINE c == count.packets
           x == scheduleRtpContinuity(s)
           g == [given EXCEPT ![s.track] = @ + 3]
<1>i. /\ wire \in Seq(Packet) /\ given \in [Tracks -> Nat] /\ s.out = <<>> /\ s \in SenderType
      /\ SenderInv(s, wire, given, c)
      /\ count \in [packets : 0..MaxPackets, switches : Nat, nacks : Nat]
  BY InvFacts
<1>1. /\ s.track # None /\ given' = g /\ count' = [count EXCEPT !.switches = @ + 1]
      /\ Become(x) /\ scenario' = scenario
  BY DEF replaceRTP
<1>2. g \in [Tracks -> Nat]
  BY <1>1, <1>i, Fields
<1>3. count' \in [packets : 0..MaxPackets, switches : Nat, nacks : Nat] /\ count'.packets = c
  BY <1>1, <1>i
<1>4. x \in SenderType /\ SenderInv(x, wire, given, c) /\ StaleQueues(x) /\ x.pending /\ x.out = <<>>
  BY <1>i, ScheduleFields
<1> HIDE DEF x, g
<1>5. SenderInv(x, wire, g, c)
  BY <1>4, <1>i, SourceInv
<1>6. Reached(x, wire, g, c)
  BY <1>4, <1>5, <1>i, NothingWritten
<1> QED
  BY <1>1, <1>2, <1>3, <1>6 DEF Stepped

LEMMA SuppressStep ==
    ASSUME RtpInv, NEW b \in BOOLEAN, setSendSuppressed(b)
    PROVE  Stepped
<1> DEFINE c == count.packets
           x == [s EXCEPT !.sendSuppressed = b]
           z == [x EXCEPT !.pendingRtp = <<>>]
           y == IF b THEN invalidateQueuedSource(z) ELSE drain(x)
<1>i. /\ wire \in Seq(Packet) /\ given \in [Tracks -> Nat] /\ c \in Nat /\ s.out = <<>>
      /\ s \in SenderType /\ SenderInv(s, wire, given, c)
  BY InvFacts
<1>1. Switch(y)
  BY DEF setSendSuppressed
<1>2. /\ x \in SenderType /\ x.pendingRtp = s.pendingRtp
      /\ \A f \in {"track", "stopped", "sourceEpoch", "last", "seqOffset", "pending", "rtpCache",
                   "task", "fifo", "out"} : x[f] = s[f]
  BY <1>i DEF SenderType
<1>3. /\ z \in SenderType /\ z.pendingRtp = <<>>
      /\ \A f \in {"track", "stopped", "sourceEpoch", "last", "seqOffset", "pending", "rtpCache",
                   "task", "fifo", "out"} : z[f] = s[f]
  <2>1. <<>> \in Seq(Packet)
    OBVIOUS
  <2> QED
    BY <1>i, <2>1 DEF SenderType
<1>y. (b /\ y = invalidateQueuedSource(z)) \/ (~b /\ y = drain(x))
  OBVIOUS
<1> HIDE DEF x, y, z
<1>4. Reached(y, wire, given, c)
  <2>1. CASE b /\ y = invalidateQueuedSource(z)
    <3>1. SenderInv(z, wire, given, c)
      BY <1>3, <1>i, SettingInv
    <3>2. /\ SenderInv(y, wire, given, c)
          /\ \A f \in {"track", "ready", "stopped", "sendSuppressed", "paced", "generation",
                       "last", "seqOffset", "pending", "rtpCache", "task", "out"} : y[f] = z[f]
      BY <1>i, <2>1, <3>1, InvalidateInv
    <3>3. y.out = <<>>
      BY <1>3, <1>i, <3>2
    <3> QED
      BY <1>i, <3>2, <3>3, NothingWritten
  <2>2. CASE ~b /\ y = drain(x)
    <3>1. SenderInv(x, wire, given, c)
      BY <1>2, <1>i, SettingInv
    <3>2. x.out = <<>>
      BY <1>2, <1>i
    <3> QED
      BY <1>i, <2>2, <3>1, <3>2, DrainInv
  <2> QED
    BY <1>y, <2>1, <2>2
<1> QED
  BY <1>1, <1>4, SwitchStep

LEMMA ReadyStep ==
    ASSUME RtpInv, NEW b \in BOOLEAN, ready(b)
    PROVE  Stepped
<1> DEFINE c == count.packets
           x == [s EXCEPT !.ready = b]
           y == IF b /\ ~s.stopped THEN drain(x) ELSE x
<1>i. /\ wire \in Seq(Packet) /\ given \in [Tracks -> Nat] /\ c \in Nat /\ s.out = <<>>
      /\ s \in SenderType /\ SenderInv(s, wire, given, c)
  BY InvFacts
<1>1. Switch(y)
  BY DEF ready
<1>2. /\ x \in SenderType /\ x.pendingRtp = s.pendingRtp
      /\ \A f \in {"track", "stopped", "sourceEpoch", "last", "seqOffset", "pending", "rtpCache",
                   "task", "fifo", "out"} : x[f] = s[f]
  BY <1>i DEF SenderType
<1>y. y = drain(x) \/ y = x
  OBVIOUS
<1> HIDE DEF x, y
<1>3. SenderInv(x, wire, given, c)
  BY <1>2, <1>i, SettingInv
<1>4. x.out = <<>>
  BY <1>2, <1>i
<1>5. Reached(y, wire, given, c)
  BY <1>3, <1>4, <1>i, <1>y, DrainInv, NothingWritten
<1> QED
  BY <1>1, <1>5, SwitchStep

LEMMA EstimatorStep ==
    ASSUME RtpInv, NEW b \in BOOLEAN, setBandwidthEstimator(b)
    PROVE  Stepped
<1> DEFINE c == count.packets
           x == [s EXCEPT !.paced = b, !.generation = @ + 1]
<1>i. /\ wire \in Seq(Packet) /\ s.out = <<>> /\ s \in SenderType /\ SenderInv(s, wire, given, c)
  BY InvFacts
<1>1. Switch(x)
  BY DEF setBandwidthEstimator
<1>2. s.generation + 1 \in Nat
  BY <1>i, Fields
<1>3. /\ x \in SenderType /\ x.pendingRtp = s.pendingRtp
      /\ \A f \in {"track", "stopped", "sourceEpoch", "last", "seqOffset", "pending", "rtpCache",
                   "task", "fifo", "out"} : x[f] = s[f]
  BY <1>2, <1>i DEF SenderType
<1> HIDE DEF x
<1>4. SenderInv(x, wire, given, c) /\ x.out = <<>>
  BY <1>3, <1>i, SettingInv
<1>5. Reached(x, wire, given, c)
  BY <1>4, <1>i, NothingWritten
<1> QED
  BY <1>1, <1>5, SwitchStep

LEMMA StopStep ==
    ASSUME RtpInv, stop
    PROVE  Stepped
<1> DEFINE c == count.packets
           x == [s EXCEPT !.stopped = TRUE, !.pending = FALSE, !.pendingRtp = <<>>,
                          !.generation = @ + 1, !.track = None]
<1>i. /\ wire \in Seq(Packet) /\ s.out = <<>> /\ s \in SenderType /\ SenderInv(s, wire, given, c)
  BY InvFacts
<1>1. Switch(x)
  BY DEF stop
<1>2. s.generation + 1 \in Nat /\ <<>> \in Seq(Packet)
  BY <1>i, Fields
<1>3. /\ x \in SenderType /\ x.pendingRtp = <<>> /\ x.stopped
      /\ \A f \in {"sourceEpoch", "last", "seqOffset", "rtpCache", "task", "fifo", "out"} : x[f] = s[f]
  BY <1>2, <1>i DEF SenderType
<1> HIDE DEF x
<1>4. SenderInv(x, wire, given, c) /\ x.out = <<>>
  BY <1>3, <1>i, StopInv
<1>5. Reached(x, wire, given, c)
  BY <1>4, <1>i, NothingWritten
<1> QED
  BY <1>1, <1>5, SwitchStep

LEMMA NackStep ==
    ASSUME RtpInv, NEW seq, handleNack(seq)
    PROVE  Stepped
<1> DEFINE c == count.packets
<1>i. /\ wire \in Seq(Packet) /\ given \in [Tracks -> Nat] /\ c \in Nat /\ s.out = <<>>
      /\ s \in SenderType /\ SenderInv(s, wire, given, c)
      /\ count \in [packets : 0..MaxPackets, switches : Nat, nacks : Nat]
  BY InvFacts
<1>1. PICK h \in FromCache(seq) :
        Become(dispatchOutgoing(s, [h EXCEPT !.kind = "rtx", !.seq = seq, !.drained = FALSE], 0))
  BY DEF handleNack
<1>2. count' = [count EXCEPT !.nacks = @ + 1] /\ scenario' = scenario /\ given' = given
  BY DEF handleNack
<1>3. count' \in [packets : 0..MaxPackets, switches : Nat, nacks : Nat] /\ count'.packets = c
  BY <1>2, <1>i
<1> DEFINE p == [h EXCEPT !.kind = "rtx", !.seq = seq, !.drained = FALSE]
<1>4. h \in s.rtpCache /\ h.seq = seq
  BY DEF FromCache
<1>5. h \in Packet /\ seq \in Nat
  BY <1>4, <1>i, Fields, PacketFields
<1>6. p \in Packet /\ p.kind = "rtx" /\ p.seq = h.seq /\ p.id = h.id
  BY <1>4, <1>5 DEF Packet
<1>7. Become(dispatchOutgoing(s, p, 0))
  BY <1>1
<1> HIDE DEF p
<1>8. ~IsMedia(p)
  BY <1>6 DEF IsMedia
<1>9. Good(p, s, wire, given, c)
  <2>1. Sent(h, wire)
    BY <1>4, <1>i DEF SenderInv, CacheInv
  <2>2. Sent(p, wire)
    BY <1>6, <2>1 DEF Sent
  <2> QED
    BY <1>8, <2>2 DEF Good
<1>10. Joins(p, s)
  BY <1>8 DEF Joins, Before, After
<1>11. 0 \in Nat /\ 0 <= Len(s.fifo)
  BY <1>i, Fields
<1>12. Reached(dispatchOutgoing(s, p, 0), wire, given, c)
  BY <1>6, <1>9, <1>10, <1>11, <1>i, DispatchInv
<1> QED
  BY <1>2, <1>3, <1>7, <1>12, <1>i DEF Stepped

-----------------------------------------------------------------------------
(* The theorems.                                                             *)

LEMMA InitInv == Init => RtpInv
<1> SUFFICES ASSUME Init PROVE RtpInv
  OBVIOUS
<1> DEFINE x == NewSender
<1>1. /\ s = x /\ wire = <<>> /\ given = [t \in Tracks |-> 0]
      /\ count = [packets |-> 0, switches |-> 0, nacks |-> 0]
  BY DEF Init
<1>2. /\ wire \in Seq(Packet) /\ given \in [Tracks -> Nat]
      /\ count \in [packets : 0..MaxPackets, switches : Nat, nacks : Nat]
  <2>1. 0 \in 0..MaxPackets
    BY ConstantsAssumption
  <2> QED
    BY <1>1, <2>1
<1>3. /\ x.out = <<>> /\ x.fifo = <<>> /\ x.pendingRtp = <<>> /\ x.task = Idle
      /\ x.last = NoNumber /\ x.rtpCache = {}
  BY DEF NewSender
<1>4. x \in SenderType
  <2>1. NoNumber \in 0..Numbers /\ 0 \in 0..Numbers - 1 /\ <<>> \in Seq(Packet)
    BY NumbersType
  <2> QED
    BY <2>1 DEF NewSender, SenderType
<1> HIDE DEF x
<1>5. x.task.st # "wait"
  BY <1>3 DEF Idle
<1>6. Len(<<>>) <= MaxPending /\ \A i \in 1..Len(<<>>) : FALSE
  BY ConstantsAssumption
<1>7. WaitingInv(x, <<>>, given, 0) /\ LineInv(x)
  BY <1>3, <1>5, <1>6 DEF WaitingInv, LineInv, Ordered
<1>8. StreamInv(x, <<>>, given, 0)
  BY <1>3, <1>6 DEF StreamInv, Ordered, Numbered
<1>9. CacheInv(x, <<>>) /\ OutInv(x)
  BY <1>3, <1>6 DEF CacheInv, OutInv
<1>10. SenderInv(x, <<>>, given, 0)
  BY <1>3, <1>4, <1>6, <1>7, <1>8, <1>9 DEF SenderInv
<1>11. count.packets = 0
  BY <1>1
<1> QED
  BY <1>1, <1>2, <1>3, <1>10, <1>11 DEF RtpInv

LEMMA NextStep ==
    ASSUME RtpInv, Next
    PROVE  Stepped
<1>1. CASE waitEnds
  BY <1>1, WaitEndsStep
<1>2. CASE taskEnds
  BY <1>2, TaskEndsStep
<1>3. CASE drainResumes
  BY <1>3, DrainResumesStep
<1>4. CASE \E old \in 0..MaxQueue : sendRtp(old)
  BY <1>4, SendRtpStep
<1>5. CASE \E t \in Tracks : replaceTrack(t)
  BY <1>5, ReplaceTrackStep
<1>6. CASE \E b \in BOOLEAN : setSendSuppressed(b) \/ setBandwidthEstimator(b) \/ ready(b)
  BY <1>6, SuppressStep, EstimatorStep, ReadyStep
<1>7. CASE detachTrack
  BY <1>7, DetachTrackStep
<1>8. CASE replaceRTP
  BY <1>8, ReplaceRTPStep
<1>9. CASE stop
  BY <1>9, StopStep
<1>10. CASE \E i \in DOMAIN wire : handleNack(wire[i].seq)
  BY <1>10, NackStep
<1> QED
  BY <1>1, <1>2, <1>3, <1>4, <1>5, <1>6, <1>7, <1>8, <1>9, <1>10 DEF Next, Progress

\* The sender behind a step.
LEMMA Becomes ==
    ASSUME NEW x, NEW w, NEW g, NEW c, SenderInv(x, w, g, c)
    PROVE  LET y == [x EXCEPT !.out = <<>>] IN
           /\ SenderInv(y, w, g, c) /\ y.out = <<>> /\ y.stopped = x.stopped
           /\ y.sendSuppressed = x.sendSuppressed /\ y.track = x.track
<1> DEFINE y == [x EXCEPT !.out = <<>>]
<1>i. /\ x \in SenderType /\ Len(x.pendingRtp) <= MaxPending
      /\ (~scenario.pendingRtp => x.pendingRtp = <<>>)
      /\ WaitingInv(x, w, g, c) /\ LineInv(x) /\ StreamInv(x, w, g, c) /\ CacheInv(x, w)
  BY DEF SenderInv
<1>1. /\ y \in SenderType /\ y.out = <<>>
      /\ \A f \in {"track", "stopped", "sendSuppressed", "sourceEpoch", "last", "seqOffset",
                   "pending", "rtpCache", "pendingRtp", "task", "fifo"} : y[f] = x[f]
  <2>1. <<>> \in Seq(Packet)
    OBVIOUS
  <2> QED
    BY <1>i, <2>1 DEF SenderType
<1> HIDE DEF y
<1>2. /\ y.track = x.track /\ y.stopped = x.stopped /\ y.sendSuppressed = x.sendSuppressed
      /\ y.sourceEpoch = x.sourceEpoch /\ y.last = x.last /\ y.seqOffset = x.seqOffset
      /\ y.pending = x.pending /\ y.rtpCache = x.rtpCache /\ y.pendingRtp = x.pendingRtp
      /\ y.task = x.task /\ y.fifo = x.fifo
  BY <1>1
<1>3. WaitingInv(y, w, g, c)
  BY <1>2, <1>i, GoodFrame DEF WaitingInv
<1>4. LineInv(y)
  BY <1>2, <1>i DEF LineInv
<1>5. StreamInv(y, w, g, c)
  BY <1>2, <1>i DEF StreamInv
<1>6. CacheInv(y, w)
  BY <1>2, <1>i DEF CacheInv
<1>7. OutInv(y)
  BY <1>1 DEF OutInv
<1>8. SenderInv(y, w, g, c)
  BY <1>1, <1>2, <1>3, <1>4, <1>5, <1>6, <1>7, <1>i DEF SenderInv
<1> QED
  BY <1>1, <1>2, <1>8 DEF y

LEMMA SteppedInv ==
    ASSUME RtpInv, Stepped
    PROVE  RtpInv'
<1>1. PICK x : Become(x) /\ Reached(x, wire, given', count'.packets)
  BY DEF Stepped
<1>2. /\ given' \in [Tracks -> Nat] /\ scenario' = scenario
      /\ count' \in [packets : 0..MaxPackets, switches : Nat, nacks : Nat]
  BY DEF Stepped
<1>3. s' = [x EXCEPT !.out = <<>>] /\ wire' = wire \o x.out
  BY <1>1 DEF Become
<1>4. x.out \in Seq(Packet) /\ SenderInv(x, wire', given', count'.packets)
  BY <1>1, <1>3 DEF Reached
<1>5. wire' \in Seq(Packet)
  BY <1>3, <1>4, InvFacts, ConcatProperties
<1>6. SenderInv(s', wire', given', count'.packets) /\ s'.out = <<>>
  BY <1>3, <1>4, Becomes
<1>7. SenderInv(s, wire, given, count.packets)'
  BY <1>2, <1>6 DEF SenderInv
<1> QED
  BY <1>2, <1>5, <1>6, <1>7 DEF RtpInv

\* What waits in the sender may still be written, in line and with the numbers
\* that follow; what is on the wire is numbered and in order.
THEOREM SenderInvariant == Spec => []RtpInv
<1>1. RtpInv /\ [Next]_vars => RtpInv'
  <2> SUFFICES ASSUME RtpInv, [Next]_vars PROVE RtpInv'
    OBVIOUS
  <2>1. CASE Next
    BY <2>1, NextStep, SteppedInv
  <2>2. CASE UNCHANGED vars
    <3>1. scenario' = scenario /\ s' = s /\ wire' = wire /\ given' = given /\ count' = count
      BY <2>2 DEF vars
    <3>2. SenderInv(s, wire, given, count.packets)'
      BY <3>1, InvFacts DEF SenderInv
    <3> QED
      BY <3>1, <3>2, InvFacts DEF RtpInv
  <2> QED
    BY <2>1, <2>2
<1> QED
  BY <1>1, InitInv, PTL DEF Spec

\* Distinct packets of one cycle have distinct numbers.
LEMMA NumbersDiffer == RtpInv => NumbersUnique
<1> SUFFICES ASSUME RtpInv, NEW i \in DOMAIN wire, NEW j \in DOMAIN wire, i < j, Media(i), Media(j),
                    wire[i].seq = wire[j].seq
             PROVE  FALSE
  BY DEF NumbersUnique
<1>i. /\ wire \in Seq(Packet) /\ StreamInv(s, wire, given, count.packets)
      /\ count \in [packets : 0..MaxPackets, switches : Nat, nacks : Nat]
  BY InvFacts DEF SenderInv
<1>1. i \in 1..Len(wire) /\ j \in 1..Len(wire) /\ IsMedia(wire[i]) /\ IsMedia(wire[j])
  BY <1>i DEF Media, IsMedia
<1>2. PICK d \in 1..(wire[j].id - wire[i].id) : Same(wire[j].seq, wire[i].seq + d)
  BY <1>1, <1>i DEF StreamInv, Numbered
<1> DEFINE a == wire[i].id
           b == wire[j].id
           n == wire[i].seq
<1>3. a \in Nat /\ b \in Nat /\ n \in Nat
  BY <1>1, <1>i, PacketFields
<1>4. b < count.packets
  BY <1>1, <1>i DEF StreamInv
<1>5. Same(n, n + d) /\ d \in 1..(b - a)
  BY <1>2
<1> HIDE DEF a, b, n
<1>6. count.packets \in 0..MaxPackets /\ MaxPackets \in 0..Numbers /\ Numbers \in Nat
  BY <1>i, ConstantsAssumption
<1> DEFINE m == count.packets
<1> HIDE DEF m
<1>7. b < m /\ m \in 0..MaxPackets
  BY <1>4, <1>6 DEF m
<1>8. d \in 1..Numbers - 1
  BY <1>3, <1>5, <1>6, <1>7
<1>9. n \in Int
  BY <1>3
<1> QED
  BY <1>5, <1>8, <1>9, SameBetween

\* The history has a packet for each slot at most.
LEMMA HistoryBounded == RtpInv => Cardinality(s.rtpCache) <= HistorySize
<1> SUFFICES ASSUME RtpInv PROVE Cardinality(s.rtpCache) <= HistorySize
  OBVIOUS
<1> DEFINE C == s.rtpCache
           T == 0..HistorySize - 1
           f == [p \in C |-> p.seq % HistorySize]
<1>1. C \in SUBSET Packet /\ \A p, q \in C : p.seq % HistorySize = q.seq % HistorySize => p = q
  BY InvFacts, Fields DEF SenderInv, CacheInv
<1> HIDE DEF C
<1>2. HistorySize \in Nat \ {0} /\ 0 \in Int /\ HistorySize - 1 \in Int
  BY ConstantsAssumption
<1>3. \A p \in C : p.seq % HistorySize \in T
  <2>1. ASSUME NEW p \in C PROVE p.seq % HistorySize \in T
    <3>1. p.seq \in Int
      BY <1>1, PacketFields
    <3> QED
      BY <1>2, <3>1, Quotient
  <2> QED
    BY <2>1
<1>4. IsFiniteSet(T) /\ Cardinality(T) = HistorySize
  <2>1. /\ IsFiniteSet(T)
        /\ Cardinality(T) = IF 0 > HistorySize - 1 THEN 0 ELSE HistorySize - 1 - 0 + 1
    BY <1>2, FS_Interval
  <2> QED
    BY <1>2, <2>1
<1> HIDE DEF T
<1>5. f \in Injection(C, T)
  BY <1>1, <1>3 DEF Injection, IsInjective
<1> HIDE DEF f
<1>6. Cardinality(C) <= Cardinality(T)
  BY <1>4, <1>5, FS_Injection
<1> QED
  BY <1>4, <1>6 DEF C

\* For every set of tracks, size of history and cap of the queues, and for any
\* order of packets, changes of source, of estimator and of direction, waits and
\* retransmissions within one cycle: numbers are used once and in order, and a
\* retransmission is the packet the number was given to.
THEOREM StreamIsRight == Spec => []StreamRight
<1>1. RtpInv => StreamRight
  <2> SUFFICES ASSUME RtpInv PROVE StreamRight
    OBVIOUS
  <2>i. /\ wire \in Seq(Packet) /\ s \in SenderType /\ s.out = <<>>
        /\ SenderInv(s, wire, given, count.packets)
    BY InvFacts
  <2>d. DOMAIN wire = 1..Len(wire)
    BY <2>i
  <2>1. TypeOK
    <3>1. Len(s.pendingRtp) <= MaxPending
      BY <2>i DEF SenderInv
    <3> QED
      BY <2>i, <3>1, Fields, HistoryBounded DEF TypeOK
  <2>2. InOrder
    BY <2>d, <2>i DEF InOrder, Media, IsMedia, SenderInv, StreamInv, Ordered
  <2>3. RetransmitsRight
    BY <2>d, <2>i DEF RetransmitsRight, Media, IsMedia, SenderInv, StreamInv
  <2> QED
    BY <2>1, <2>2, <2>3, NumbersDiffer DEF StreamRight, StreamContinuous
<1> QED
  BY <1>1, SenderInvariant, PTL

\* A packet of a source that was replaced, detached or turned off is not written
\* any more, however long it waited; a stopped sender writes nothing.
THEOREM OnlyAllowedWrites == Spec => WritesAllowed
<1> DEFINE A == Len(wire') > Len(wire) =>
                  LET p == Last(wire')
                  IN  /\ ~s'.stopped
                      /\ p.kind = "media" => ~s'.sendSuppressed /\ p.src = s'.track
<1>1. RtpInv /\ [Next]_vars => [A]_vars
  <2> SUFFICES ASSUME RtpInv, Next PROVE A
    BY DEF vars
  <2>1. PICK x : Become(x) /\ Reached(x, wire, given', count'.packets)
    BY NextStep DEF Stepped
  <2>2. s' = [x EXCEPT !.out = <<>>] /\ wire' = wire \o x.out
    BY <2>1 DEF Become
  <2>3. x.out \in Seq(Packet) /\ SenderInv(x, wire', given', count'.packets)
    BY <2>1, <2>2 DEF Reached
  <2>4. s'.stopped = x.stopped /\ s'.sendSuppressed = x.sendSuppressed /\ s'.track = x.track
    BY <2>2, <2>3, Becomes
  <2>5. OutInv(x)
    BY <2>3 DEF SenderInv
  <2> SUFFICES ASSUME Len(wire') > Len(wire)
               PROVE  /\ ~s'.stopped
                      /\ Last(wire').kind = "media" => ~s'.sendSuppressed /\ Last(wire').src = s'.track
    OBVIOUS
  <2> DEFINE m == Len(wire)
             n == Len(x.out)
  <2>6. wire \in Seq(Packet) /\ m \in Nat /\ n \in Nat
    BY <2>3, InvFacts
  <2>7. /\ Len(wire') = m + n
        /\ \A i \in 1..m + n : (wire')[i] = IF i <= m THEN wire[i] ELSE (x.out)[i - m]
    BY <2>2, <2>3, <2>6, ConcatProperties
  <2> HIDE DEF m, n
  <2>8. m + n > m
    BY <2>7 DEF m
  <2>9. n \in 1..n /\ m + n \in 1..m + n /\ ~(m + n <= m) /\ (m + n) - m = n
    BY <2>6, <2>8
  <2>10. Last(wire') = (x.out)[n]
    BY <2>7, <2>9 DEF Last
  <2> QED
    BY <2>4, <2>5, <2>9, <2>10 DEF OutInv, IsMedia, n
<1> QED
  BY <1>1, SenderInvariant, PTL DEF Spec, WritesAllowed

=============================================================================
