-------------------------- MODULE MediaStreamProofs --------------------------
(***************************************************************************)
(* What the receiver says of a media stream is what has arrived, and the   *)
(* jitter buffer plays it in order: proved for every cycle length, first   *)
(* number, network delay, latency, buffer and window size that the         *)
(* assumptions of MediaStream and SrtpStream allow.                        *)
(*                                                                         *)
(* The parts: folds and sorting, then ReceiverTWCC's sendTWCC; the media   *)
(* stream as an SRTP stream; the network and the log; StreamStatistics;    *)
(* NackHandler; the transport-wide numbers; ReceiverTWCC; the bounds of    *)
(* what is held; the jitter buffer.                                        *)
(***************************************************************************)
EXTENDS MediaStream, SrtpStreamProofs, FiniteSetTheorems, WellFoundedInduction

-----------------------------------------------------------------------------
(* Induction, stated about sets.                                           *)

(* A set of naturals has a least element.                                  *)
LEMMA LeastNatural ==
    ASSUME NEW S, S \subseteq Nat, S # {}
    PROVE  \E n \in S : \A m \in S : n <= m
<1> DEFINE Below(n) == {k \in Nat : k < n}
           Sets == {Below(n) : n \in S}
<1>1. \A n \in Nat : Below(n) = 0..(n - 1)
  OBVIOUS
<1>2. Sets \subseteq FiniteSubsetsOf(Nat)
  <2>1. \A n \in Nat : IsFiniteSet(0..(n - 1))
    BY FS_Interval
  <2> QED
    BY <1>1, <2>1 DEF FiniteSubsetsOf
<1>3. \E x \in Sets : \A y \in Sets : ~(<<y, x>> \in StrictSubsetOrdering(Nat))
  <2>1. Sets # {}
    OBVIOUS
  <2> HIDE DEF Sets
  <2> QED
    BY <1>2, <2>1, FS_StrictSubsetOrderingWellFounded, WFMin
<1>4. PICK n \in S : \A m \in S : ~(<<Below(m), Below(n)>> \in StrictSubsetOrdering(Nat))
  BY <1>3
<1>5. ASSUME NEW m \in S, m < n PROVE FALSE
  <2>1. m \in Nat /\ n \in Nat
    OBVIOUS
  <2>2. /\ Below(m) \subseteq Below(n) /\ m \in Below(n) /\ m \notin Below(m)
        /\ Below(n) \subseteq Nat /\ Below(m) \subseteq Nat
    BY <1>5, <2>1
  <2>3. <<Below(m), Below(n)>> \in StrictSubsetOrdering(Nat)
    <3> HIDE DEF Below
    <3> QED
      BY <2>2 DEF StrictSubsetOrdering
  <2> QED
    BY <1>4, <2>3
<1> QED
  BY <1>5

(* Induction: a set that holds the first number and the successor of each  *)
(* holds all up to n.                                                      *)
LEMMA UpTo ==
    ASSUME NEW n \in Nat, NEW S, 0 \in S, \A k \in 1..n : k - 1 \in S => k \in S
    PROVE  \A k \in 0..n : k \in S
<1> SUFFICES ASSUME (0..n) \ S # {} PROVE FALSE
  OBVIOUS
<1>0. (0..n) \ S \subseteq Nat
  OBVIOUS
<1>1. PICK k \in (0..n) \ S : \A m \in (0..n) \ S : k <= m
  BY <1>0, LeastNatural
<1>2. k # 0 /\ k \in 1..n /\ k - 1 \in 0..n
  BY <1>1
<1> QED
  BY <1>1, <1>2

(* In a set of k numbers, q ascending, the last one is the largest.        *)
LEMMA LargestIsMax ==
    ASSUME NEW S, S \subseteq Int, NEW k \in S, \A y \in S : y <= k
    PROVE  T!Max(S) = k
<1> DEFINE m == T!Max(S)
<1>1. \E x \in S : \A y \in S : x >= y
  <2>1. \A y \in S : k >= y
    OBVIOUS
  <2> QED
    BY <2>1
<1>2. m \in S /\ \A y \in S : m >= y
  BY <1>1 DEF T!Max
<1> HIDE DEF m
<1>3. m \in Int /\ k \in Int /\ m >= k /\ m <= k
  BY <1>2
<1>4. m = k
  BY <1>3
<1> QED
  BY <1>4 DEF m

(* What a fold over a sequence computes exists: a function on the sets of  *)
(* positions, each taken apart at its largest member.                      *)
Folds(f, n, base, G) ==
    \A s \in SUBSET (1..n) :
        f[s] = IF s = {} THEN base ELSE G[<<f[s \ {T!Max(s)}], T!Max(s)>>]

(* FoldLeft over a sequence is a function: the value after each element    *)
(* exists, and the one after the last is the fold.                         *)
LEMMA FoldExists ==
    ASSUME NEW n \in Nat, NEW X, NEW base \in X, NEW G \in [X \X (1..n) -> X]
    PROVE  \E f \in [SUBSET (1..n) -> X] : Folds(f, n, base, G)
<1> DEFINE Computes(f, k) ==
              \A s \in SUBSET (1..k) :
                 f[s] = IF s = {} THEN base ELSE G[<<f[s \ {T!Max(s)}], T!Max(s)>>]
           Done == {k \in 0..n : \E f \in [SUBSET (1..k) -> X] : Computes(f, k)}
<1>1. 0 \in Done
  <2> DEFINE f == [s \in SUBSET (1..0) |-> base]
  <2>1. f \in [SUBSET (1..0) -> X] /\ \A s \in SUBSET (1..0) : s = {} /\ f[s] = base
    OBVIOUS
  <2>2. Computes(f, 0)
    BY <2>1
  <2>3. f \in [SUBSET (1..0) -> X]
    BY <2>1
  <2>4. 0 \in 0..n
    OBVIOUS
  <2> HIDE DEF f, Computes
  <2> QED
    BY <2>2, <2>3, <2>4
<1>2. ASSUME NEW k \in 1..n, k - 1 \in Done
      PROVE  k \in Done
  <2>1. PICK g \in [SUBSET (1..(k - 1)) -> X] : Computes(g, k - 1)
    BY <1>2
  <2> DEFINE f == [s \in SUBSET (1..k) |-> IF k \in s THEN G[<<g[s \ {k}], k>>] ELSE g[s]]
  <2>2. ASSUME NEW s \in SUBSET (1..k)
        PROVE  /\ k \notin s => s \in SUBSET (1..(k - 1))
               /\ s \ {k} \in SUBSET (1..(k - 1))
               /\ k \in s => T!Max(s) = k
    <3>1. (1..k) \ {k} = 1..(k - 1)
      OBVIOUS
    <3>2. \A y \in s : k >= y
      OBVIOUS
    <3>3. k \in s => T!Max(s) = k
      <4> SUFFICES ASSUME k \in s PROVE T!Max(s) = k
        OBVIOUS
      <4>1. s \subseteq Int /\ k \in s /\ \A y \in s : y <= k
        BY <3>2
      <4> QED
        BY <4>1, LargestIsMax
    <3> QED
      BY <3>1, <3>3
  <2>3. f \in [SUBSET (1..k) -> X]
    BY <2>2
  <2>4. ASSUME NEW s \in SUBSET (1..k)
        PROVE  f[s] = IF s = {} THEN base ELSE G[<<f[s \ {T!Max(s)}], T!Max(s)>>]
    <3>1. CASE k \in s
      <4>1. s \ {k} \in SUBSET (1..k) /\ k \notin s \ {k}
        OBVIOUS
      <4>2. f[s \ {k}] = g[s \ {k}] /\ f[s] = G[<<g[s \ {k}], k>>]
        BY <3>1, <4>1
      <4> QED
        BY <2>2, <3>1, <4>2
    <3>2. CASE k \notin s
      <4>1. s \in SUBSET (1..(k - 1)) /\ s \ {T!Max(s)} \in SUBSET (1..(k - 1))
        BY <2>2, <3>2
      <4>2. f[s] = g[s] /\ f[s \ {T!Max(s)}] = g[s \ {T!Max(s)}]
        BY <3>2, <4>1
      <4> QED
        BY <2>1, <4>1, <4>2
    <3> QED
      BY <3>1, <3>2
  <2>5. Computes(f, k)
    BY <2>4
  <2> HIDE DEF f, Computes
  <2> QED
    BY <2>3, <2>5
<1>3. n \in Done
  <2> HIDE DEF Done
  <2> QED
    BY <1>1, <1>2, UpTo
<1>4. PICK f \in [SUBSET (1..n) -> X] : Computes(f, n)
  BY <1>3
<1>5. Folds(f, n, base, G)
  BY <1>4 DEF Folds
<1> QED
  BY <1>5

(* ReceiverTwcc's cardinality is this module's.                            *)
LEMMA SameCardinality == \A S : T!Cardinality(S) = Cardinality(S)
BY DEF T!Cardinality, Cardinality, T!IsFiniteSet, IsFiniteSet

(* A set of numbers of k elements has a largest one.                       *)
LEMMA HasLargest ==
    ASSUME NEW S, IsFiniteSet(S), S \subseteq Int, S # {}
    PROVE  \E m \in S : \A x \in S : x <= m
<1> DEFINE Fine(k) == \A R : IsFiniteSet(R) /\ Cardinality(R) = k /\ R \subseteq Int /\ R # {}
                               => \E m \in R : \A x \in R : x <= m
           size == Cardinality(S)
           Good == {k \in 0..size : Fine(k)}
<1>0. size \in Nat
  BY FS_CardinalityType
<1>1. 0 \in Good
  <2>1. Fine(0)
    BY FS_EmptySet
  <2> HIDE DEF Fine
  <2> QED
    BY <1>0, <2>1
<1>2. ASSUME NEW k \in 1..size, k - 1 \in Good
      PROVE  k \in Good
  <2>1. Fine(k - 1)
    BY <1>2
  <2>2. ASSUME NEW R, IsFiniteSet(R), Cardinality(R) = k, R \subseteq Int, R # {}
        PROVE  \E m \in R : \A x \in R : x <= m
    <3>1. PICK y \in R : TRUE
      BY <2>2
    <3>2. IsFiniteSet(R \ {y}) /\ Cardinality(R \ {y}) = k - 1
      BY <1>0, <2>2, FS_RemoveElement
    <3>3. CASE R \ {y} = {}
      <4>1. \A x \in R : x = y /\ x <= y
        BY <2>2, <3>3
      <4> QED
        BY <4>1
    <3>4. CASE R \ {y} # {}
      <4>1. PICK m \in R \ {y} : \A x \in R \ {y} : x <= m
        BY <2>1, <2>2, <3>2, <3>4
      <4>2. m \in Int /\ y \in Int
        BY <2>2
      <4>3. CASE y <= m
        BY <4>1, <4>3
      <4>4. CASE m <= y
        <5>1. \A x \in R : x <= y
          BY <2>2, <4>1, <4>2, <4>4
        <5> QED
          BY <5>1
      <4> QED
        BY <4>2, <4>3, <4>4
    <3> QED
      BY <3>3, <3>4
  <2>3. Fine(k)
    BY <2>2
  <2> HIDE DEF Fine
  <2> QED
    BY <1>0, <2>3
<1>3. size \in Good
  <2> HIDE DEF Good
  <2> QED
    BY <1>0, <1>1, <1>2, UpTo
<1> QED
  BY <1>3

(* Every finite set of numbers can be put in ascending order.              *)
LEMMA CanSort ==
    ASSUME NEW S, IsFiniteSet(S), S \subseteq Int
    PROVE  \E q \in [1..Cardinality(S) -> S] :
              \A i, k \in 1..Cardinality(S) : i < k => q[i] < q[k]
<1> DEFINE Sorts(q, k) == \A i, l \in 1..k : i < l => q[i] < q[l]
           Fine(k) == \A R : IsFiniteSet(R) /\ Cardinality(R) = k /\ R \subseteq Int
                               => \E q \in [1..k -> R] : Sorts(q, k)
           size == Cardinality(S)
           Good == {k \in 0..size : Fine(k)}
<1>0. size \in Nat
  BY FS_CardinalityType
<1>1. 0 \in Good
  <2>1. ASSUME NEW R PROVE \E q \in [1..0 -> R] : Sorts(q, 0)
    <3>1. [i \in 1..0 |-> 0] \in [1..0 -> R] /\ Sorts([i \in 1..0 |-> 0], 0)
      OBVIOUS
    <3> QED
      BY <3>1
  <2>2. Fine(0)
    BY <2>1
  <2> HIDE DEF Fine
  <2> QED
    BY <1>0, <2>2
<1>2. ASSUME NEW k \in 1..size, k - 1 \in Good
      PROVE  k \in Good
  <2>1. Fine(k - 1)
    BY <1>2
  <2>2. ASSUME NEW R, IsFiniteSet(R), Cardinality(R) = k, R \subseteq Int
        PROVE  \E q \in [1..k -> R] : Sorts(q, k)
    <3>1. PICK m \in R : \A x \in R : x <= m
      <4>1. R # {}
        BY <2>2, FS_EmptySet
      <4> QED
        BY <2>2, <4>1, HasLargest
    <3>2. IsFiniteSet(R \ {m}) /\ Cardinality(R \ {m}) = k - 1
      BY <1>0, <2>2, FS_RemoveElement
    <3>3. PICK g \in [1..(k - 1) -> R \ {m}] : Sorts(g, k - 1)
      BY <2>1, <2>2, <3>2
    <3> DEFINE q == [i \in 1..k |-> IF i = k THEN m ELSE g[i]]
    <3>4. q \in [1..k -> R]
      OBVIOUS
    <3>5. ASSUME NEW i \in 1..k, NEW l \in 1..k, i < l PROVE q[i] < q[l]
      <4>1. i \in 1..(k - 1) /\ q[i] = g[i] /\ g[i] \in R \ {m}
        BY <3>5
      <4>2. CASE l = k
        <5>1. q[l] = m /\ g[i] <= m /\ g[i] # m /\ g[i] \in Int /\ m \in Int
          BY <2>2, <3>1, <4>1, <4>2
        <5> QED
          BY <4>1, <5>1
      <4>3. CASE l # k
        BY <3>3, <3>5, <4>1, <4>3
      <4> QED
        BY <4>2, <4>3
    <3>6. Sorts(q, k)
      BY <3>5
    <3> HIDE DEF q, Sorts
    <3> QED
      BY <3>4, <3>6
  <2>3. Fine(k)
    BY <2>2
  <2> HIDE DEF Fine
  <2> QED
    BY <1>0, <2>3
<1>3. size \in Good
  <2> HIDE DEF Good
  <2> QED
    BY <1>0, <1>1, <1>2, UpTo
<1> QED
  BY <1>3

(* sendTWCC looks at every pending number, in ascending order.             *)
LEMMA AscendingSorts ==
    ASSUME NEW S, IsFiniteSet(S), S \subseteq Int
    PROVE  /\ Cardinality(S) \in Nat
           /\ T!Ascending(S) \in [1..Cardinality(S) -> S]
           /\ \A i, k \in 1..Cardinality(S) : i < k => T!Ascending(S)[i] < T!Ascending(S)[k]
           /\ \A x \in S : \E i \in 1..Cardinality(S) : T!Ascending(S)[i] = x
<1> DEFINE n == Cardinality(S)
           q == T!Ascending(S)
<1>1. n \in Nat
  BY FS_CardinalityType
<1>2. q \in [1..n -> S] /\ \A i, k \in 1..n : i < k => q[i] < q[k]
  <2>1. \E f \in [1..n -> S] : \A i, k \in DOMAIN f : i < k => f[i] < f[k]
    BY CanSort
  <2>2. q \in [1..n -> S] /\ \A i, k \in DOMAIN q : i < k => q[i] < q[k]
    BY <2>1, SameCardinality DEF T!Ascending
  <2> QED
    BY <2>2
<1> HIDE DEF q
<1>3. q \in Injection(1..n, S)
  <2>1. ASSUME NEW a \in 1..n, NEW b \in 1..n, q[a] = q[b] PROVE a = b
    <3>1. q[a] \in Int /\ q[b] \in Int /\ ~(q[a] < q[b]) /\ ~(q[b] < q[a])
      <4>1. q[a] \in Int /\ q[b] \in Int
        BY <1>2
      <4> QED
        BY <2>1, <4>1
    <3>2. ~(a < b) /\ ~(b < a)
      BY <1>2, <3>1
    <3> QED
      BY <1>1, <3>2
  <2> QED
    BY <1>2, <2>1 DEF Injection, IsInjective
<1>4. IsFiniteSet(1..n) /\ Cardinality(1..n) = n
  BY <1>1, FS_Interval
<1>5. q \in Surjection(1..n, S)
  BY <1>3, <1>4, FS_Injection
<1>6. \A x \in S : \E i \in 1..n : q[i] = x
  BY <1>5 DEF Surjection
<1> QED
  BY <1>1, <1>2, <1>6 DEF q

-----------------------------------------------------------------------------
(* ReceiverTWCC: sendTWCC.                                                 *)

(* The windows of a feedback, and the state of the fold that makes them.   *)
Windows == Seq([base : Int, last : Int])
Accumulators == [open : BOOLEAN, cursor : Int, last : Int, base : Int, windows : Windows]

(* One more number leaves an accumulator.                                  *)
LEMMA ExtendType ==
    ASSUME NEW a \in Accumulators, NEW x \in Int
    PROVE  T!Extend(a, x) \in Accumulators
<1>0. /\ a.open \in BOOLEAN /\ a.cursor \in Int /\ a.last \in Int /\ a.base \in Int
      /\ a.windows \in Windows
  BY DEF Accumulators
<1>1. CASE a.open /\ x - a.base < MaxSpan
  BY <1>0, <1>1 DEF T!Extend, Accumulators
<1>2. CASE ~(a.open /\ x - a.base < MaxSpan)
  <2> DEFINE cursor == IF a.open THEN a.last + 1 ELSE a.cursor
             base == IF cursor # T!NoNumber /\ x - cursor < MaxSpan THEN cursor ELSE x
             windows == IF a.open THEN Append(a.windows, [base |-> a.base, last |-> a.last]) ELSE a.windows
  <2>1. T!Extend(a, x) = [open |-> TRUE, cursor |-> cursor, last |-> x, base |-> base, windows |-> windows]
    BY <1>2 DEF T!Extend
  <2>2. cursor \in Int
    BY <1>0
  <2>3. base \in Int
    BY <2>2
  <2>4. windows \in Windows
    <3> DEFINE W == [base : Int, last : Int]
               w == [base |-> a.base, last |-> a.last]
    <3>1. w \in W /\ a.windows \in Seq(W)
      BY <1>0 DEF Windows
    <3>2. Append(a.windows, w) \in Seq(W)
      <4> HIDE DEF W, w
      <4> QED
        BY <3>1
    <3> QED
      BY <3>1, <3>2 DEF Windows
  <2> HIDE DEF cursor, base, windows
  <2> QED
    BY <2>1, <2>2, <2>3, <2>4 DEF Accumulators
<1> QED
  BY <1>1, <1>2

(* h[k] is what k of the n numbers of q make of base, and r is h[n].       *)
FoldedTo(r, h, n, q, base) ==
    /\ h \in [0..n -> Accumulators] /\ h[0] = base /\ r = h[n]
    /\ \A k \in 1..n : h[k] = T!Extend(h[k - 1], q[k])

(* The fold over a sequence of n numbers is the last of the n + 1          *)
(* accumulators that begin with the given one.                             *)
LEMMA FoldExtend ==
    ASSUME NEW n \in Nat, NEW q \in [1..n -> Int], NEW base \in Accumulators
    PROVE  \E h : FoldedTo(T!FoldLeft(T!Extend, base, q), h, n, q, base)
<1> DEFINE G == [p \in Accumulators \X (1..n) |-> T!Extend(p[1], q[p[2]])]
           Eq(f) == f = [s \in SUBSET (1..n) |->
                            IF s = {} THEN base ELSE T!Extend(f[s \ {T!Max(s)}], q[T!Max(s)])]
           g == CHOOSE f : Eq(f)
<1>1. DOMAIN q = 1..n
  OBVIOUS
<1>2. T!FoldLeft(T!Extend, base, q) = g[1..n]
  BY <1>1 DEF T!FoldLeft, T!MapThenFoldSet
<1>3. \A a \in Accumulators, k \in 1..n : G[<<a, k>>] = T!Extend(a, q[k])
  OBVIOUS
<1>4. G \in [Accumulators \X (1..n) -> Accumulators]
  <2>1. \A a \in Accumulators, k \in 1..n : T!Extend(a, q[k]) \in Accumulators
    BY ExtendType
  <2> QED
    BY <2>1
<1>5. ASSUME NEW s \in SUBSET (1..n), s # {}
      PROVE  T!Max(s) \in s
  <2>1. IsFiniteSet(1..n) /\ s \subseteq Int
    BY FS_Interval
  <2>2. IsFiniteSet(s)
    BY <2>1, FS_Subset
  <2>3. PICK m \in s : \A x \in s : x <= m
    BY <1>5, <2>1, <2>2, HasLargest
  <2> QED
    BY <2>1, <2>3, LargestIsMax
<1>6. Eq(g)
  <2>1. PICK f \in [SUBSET (1..n) -> Accumulators] : Folds(f, n, base, G)
    <3> HIDE DEF G
    <3> QED
      BY <1>4, FoldExists
  <2>2. ASSUME NEW s \in SUBSET (1..n)
        PROVE  f[s] = IF s = {} THEN base ELSE T!Extend(f[s \ {T!Max(s)}], q[T!Max(s)])
    <3>1. CASE s = {}
      BY <2>1, <3>1 DEF Folds
    <3>2. CASE s # {}
      <4>1. T!Max(s) \in 1..n /\ f[s \ {T!Max(s)}] \in Accumulators
        BY <1>5, <3>2
      <4> HIDE DEF G
      <4> QED
        BY <1>3, <2>1, <3>2, <4>1 DEF Folds
    <3> QED
      BY <3>1, <3>2
  <2>3. Eq(f)
    BY <2>2
  <2> HIDE DEF Eq
  <2> QED
    BY <2>3
<1> HIDE DEF g, G
<1> DEFINE h == [k \in 0..n |-> g[1..k]]
<1>7. h[0] = base
  BY <1>6
<1>8. ASSUME NEW k \in 1..n
      PROVE  h[k] = T!Extend(h[k - 1], q[k])
  <2>1. 1..k \in SUBSET (1..n) /\ 1..k # {} /\ (1..k) \ {k} = 1..(k - 1) /\ 1..(k - 1) \in SUBSET (1..n)
    <3>1. k \in Nat \ {0} /\ k <= n
      OBVIOUS
    <3>2. 1..k \subseteq 1..n /\ 1..(k - 1) \subseteq 1..n
      BY <3>1
    <3>3. k \in 1..k /\ (1..k) \ {k} = 1..(k - 1)
      BY <3>1
    <3> QED
      BY <3>2, <3>3
  <2>2. T!Max(1..k) = k
    <3>1. 1..k \subseteq Int /\ k \in 1..k /\ \A y \in 1..k : y <= k
      OBVIOUS
    <3> QED
      BY <3>1, LargestIsMax
  <2>3. g[1..k] = T!Extend(g[(1..k) \ {T!Max(1..k)}], q[T!Max(1..k)])
    BY <1>6, <2>1
  <2>4. h[k] = g[1..k] /\ h[k - 1] = g[1..(k - 1)]
    OBVIOUS
  <2> QED
    BY <2>1, <2>2, <2>3, <2>4
<1>9. h \in [0..n -> Accumulators]
  <2> DEFINE Good == {k \in 0..n : h[k] \in Accumulators}
  <2>1. 0 \in Good
    BY <1>7
  <2>2. ASSUME NEW k \in 1..n, k - 1 \in Good PROVE k \in Good
    <3>1. h[k - 1] \in Accumulators /\ q[k] \in Int
      BY <2>2
    <3>2. h[k] \in Accumulators
      <4> HIDE DEF h
      <4> QED
        BY <1>8, <3>1, ExtendType
    <3> QED
      BY <3>2
  <2>3. \A k \in 0..n : k \in Good
    <3> HIDE DEF Good
    <3> QED
      BY <2>1, <2>2, UpTo
  <2> QED
    BY <2>3
<1>10. h[n] = g[1..n]
  OBVIOUS
<1> HIDE DEF h
<1> QED
  BY <1>2, <1>7, <1>8, <1>9, <1>10 DEF FoldedTo

(* The first k numbers of q lie in the windows or in the open one, nothing *)
(* of these is beyond the last number or behind low.                       *)
Spans(a, q, k, low) ==
    /\ a.open /\ a.last = q[k] /\ a.base <= a.last
    /\ low # T!NoNumber => low <= a.base
    /\ \A i \in DOMAIN a.windows : /\ a.windows[i].last <= a.last
                                   /\ low # T!NoNumber => low <= a.windows[i].base
    /\ \A j \in 1..k : \/ q[j] \in a.base..a.last
                       \/ \E i \in DOMAIN a.windows : q[j] \in a.windows[i].base..a.windows[i].last

(* The first number opens a window at the cursor or at itself.             *)
LEMMA ExtendFirst ==
    ASSUME NEW n \in Nat \ {0}, NEW q \in [1..n -> Int], NEW low \in Int,
           NEW a \in Accumulators, ~a.open, a.windows = <<>>, a.cursor = low,
           low # T!NoNumber => low <= q[1]
    PROVE  Spans(T!Extend(a, q[1]), q, 1, low)
<1> DEFINE b == T!Extend(a, q[1])
           base == IF low # T!NoNumber /\ q[1] - low < MaxSpan THEN low ELSE q[1]
<1>1. b = [open |-> TRUE, cursor |-> low, last |-> q[1], base |-> base, windows |-> <<>>]
  BY DEF T!Extend
<1>2. q[1] \in Int /\ base \in Int /\ base <= q[1] /\ (low # T!NoNumber => low <= base)
  OBVIOUS
<1> HIDE DEF b, base
<1>3. b.open /\ b.last = q[1] /\ b.base = base /\ b.windows = <<>>
  BY <1>1
<1>4. \A j \in 1..1 : q[j] \in b.base..b.last
  BY <1>2, <1>3
<1>5. \A i \in DOMAIN b.windows : FALSE
  BY <1>3
<1>6. Spans(b, q, 1, low)
  BY <1>2, <1>3, <1>4, <1>5 DEF Spans
<1> QED
  BY <1>6 DEF b

(* A higher number belongs to the open window or closes it and opens the   *)
(* next one: the windows stay apart and ascending, and cover the numbers.  *)
LEMMA ExtendNext ==
    ASSUME NEW n \in Nat, NEW q \in [1..n -> Int], NEW low \in Int, NEW k \in 2..n,
           NEW a \in Accumulators, Spans(a, q, k - 1, low), q[k - 1] < q[k]
    PROVE  Spans(T!Extend(a, q[k]), q, k, low)
<1> DEFINE x == q[k]
           b == T!Extend(a, x)
<1>0. /\ k \in Int /\ k - 1 \in 1..n /\ x \in Int /\ a.last \in Int /\ a.base \in Int /\ a.windows \in Windows
      /\ a.last < x /\ a.base <= a.last /\ a.open
      /\ \A j \in 1..n : q[j] \in Int
  BY DEF Accumulators, Spans
<1>w. \A i \in DOMAIN a.windows : a.windows[i].base \in Int /\ a.windows[i].last \in Int
  <2> SUFFICES ASSUME NEW i \in DOMAIN a.windows
               PROVE  a.windows[i].base \in Int /\ a.windows[i].last \in Int
    OBVIOUS
  <2> DEFINE W == [base : Int, last : Int]
  <2>1. a.windows \in Seq(W)
    BY <1>0 DEF Windows
  <2>2. a.windows[i] \in W
    <3> HIDE DEF W
    <3> QED
      BY <2>1
  <2> QED
    BY <2>2
<1>1. CASE x - a.base < MaxSpan
  <2>1. b = [a EXCEPT !.last = x]
    BY <1>0, <1>1 DEF T!Extend
  <2>2. b.open = a.open /\ b.last = x /\ b.base = a.base /\ b.windows = a.windows
    BY <2>1 DEF Accumulators
  <2> HIDE DEF b
  <2>3. ASSUME NEW j \in 1..k
        PROVE  \/ q[j] \in b.base..b.last
               \/ \E i \in DOMAIN b.windows : q[j] \in b.windows[i].base..b.windows[i].last
    <3>1. CASE j = k
      BY <1>0, <2>2, <3>1
    <3>2. CASE j # k
      <4>1. j \in 1..(k - 1)
        BY <3>2
      <4>2. \/ q[j] \in a.base..a.last
            \/ \E i \in DOMAIN a.windows : q[j] \in a.windows[i].base..a.windows[i].last
        BY <4>1 DEF Spans
      <4> QED
        BY <1>0, <2>2, <4>2
    <3> QED
      BY <3>1, <3>2
  <2>4. \A i \in DOMAIN b.windows : /\ b.windows[i].last <= b.last
                                    /\ low # T!NoNumber => low <= b.windows[i].base
    BY <1>0, <1>w, <2>2 DEF Spans
  <2>5. b.open /\ b.last = q[k] /\ b.base <= b.last /\ (low # T!NoNumber => low <= b.base)
    BY <1>0, <2>2 DEF Spans
  <2>6. Spans(b, q, k, low)
    BY <2>3, <2>4, <2>5 DEF Spans
  <2> QED
    BY <2>6 DEF b
<1>2. CASE ~(x - a.base < MaxSpan)
  <2> DEFINE cursor == a.last + 1
             base == IF cursor # T!NoNumber /\ x - cursor < MaxSpan THEN cursor ELSE x
             old == [base |-> a.base, last |-> a.last]
  <2>1. b = [open |-> TRUE, cursor |-> cursor, last |-> x, base |-> base, windows |-> Append(a.windows, old)]
    BY <1>0, <1>2 DEF T!Extend
  <2>2. base \in Int /\ a.last < base /\ base <= x
    BY <1>0
  <2> HIDE DEF b, cursor, base
  <2>3. b.open /\ b.last = x /\ b.base = base /\ b.windows = Append(a.windows, old)
    BY <2>1
  <2>4. /\ DOMAIN b.windows = 1..(Len(a.windows) + 1) /\ Len(a.windows) \in Nat
        /\ DOMAIN a.windows = 1..Len(a.windows)
        /\ b.windows[Len(a.windows) + 1] = old
        /\ \A i \in DOMAIN a.windows : i \in DOMAIN b.windows /\ b.windows[i] = a.windows[i]
    <3> DEFINE W == [base : Int, last : Int]
    <3>1. a.windows \in Seq(W) /\ old \in W
      BY <1>0 DEF Windows
    <3>2. b.windows = Append(a.windows, old)
      BY <2>3
    <3> DEFINE f == a.windows
               g == b.windows
    <3> HIDE DEF W, old, f, g
    <3>3. f \in Seq(W) /\ old \in W /\ g = Append(f, old)
      BY <3>1, <3>2 DEF f, g
    <3>4. DOMAIN g = 1..(Len(f) + 1) /\ Len(f) \in Nat /\ DOMAIN f = 1..Len(f) /\ g[Len(f) + 1] = old
      BY <3>3
    <3>5. \A i \in DOMAIN f : i \in DOMAIN g /\ g[i] = f[i]
      BY <3>3
    <3> QED
      BY <3>4, <3>5 DEF f, g
  <2>o. old.base = a.base /\ old.last = a.last
    OBVIOUS
  <2> HIDE DEF old
  <2>5. ASSUME NEW j \in 1..k
        PROVE  \/ q[j] \in b.base..b.last
               \/ \E i \in DOMAIN b.windows : q[j] \in b.windows[i].base..b.windows[i].last
    <3>1. CASE j = k
      BY <1>0, <2>2, <2>3, <3>1
    <3>2. CASE j # k
      <4>1. j \in 1..(k - 1)
        BY <3>2
      <4>2. CASE q[j] \in a.base..a.last
        <5>1. q[j] \in b.windows[Len(a.windows) + 1].base..b.windows[Len(a.windows) + 1].last
          BY <2>4, <2>o, <4>2
        <5>2. Len(a.windows) + 1 \in DOMAIN b.windows
          BY <2>4
        <5> QED
          BY <5>1, <5>2
      <4>3. CASE \E i \in DOMAIN a.windows : q[j] \in a.windows[i].base..a.windows[i].last
        BY <2>4, <4>3
      <4> QED
        BY <4>1, <4>2, <4>3 DEF Spans
    <3> QED
      BY <3>1, <3>2
  <2>6. ASSUME NEW i \in DOMAIN b.windows
        PROVE  b.windows[i].last <= b.last /\ (low # T!NoNumber => low <= b.windows[i].base)
    <3>1. CASE i = Len(a.windows) + 1
      <4>1. b.windows[i].last = a.last /\ b.windows[i].base = a.base
        BY <2>4, <2>o, <3>1
      <4>2. a.last <= b.last
        BY <1>0, <2>3
      <4>3. low # T!NoNumber => low <= a.base
        BY DEF Spans
      <4> QED
        BY <4>1, <4>2, <4>3
    <3>2. CASE i # Len(a.windows) + 1
      <4>0. i \in 1..(Len(a.windows) + 1) /\ Len(a.windows) \in Nat
        BY <2>4
      <4>b. i \in 1..Len(a.windows)
        BY <3>2, <4>0
      <4>a. i \in DOMAIN a.windows
        BY <2>4, <4>b
      <4>1. i \in DOMAIN a.windows /\ b.windows[i] = a.windows[i]
        BY <2>4, <4>a
      <4>2. a.windows[i].last <= a.last /\ (low # T!NoNumber => low <= a.windows[i].base)
        BY <4>1 DEF Spans
      <4>3. a.windows[i].base \in Int /\ a.windows[i].last \in Int
        BY <1>w, <4>1
      <4>4. b.last = x
        BY <2>3
      <4>5. a.windows[i].last <= x
        BY <1>0, <4>2, <4>3
      <4> QED
        BY <4>1, <4>2, <4>4, <4>5
    <3> QED
      BY <3>1, <3>2
  <2>7. b.open /\ b.last = q[k] /\ b.base <= b.last
    BY <2>2, <2>3
  <2>8. low # T!NoNumber => low <= b.base
    BY <1>0, <2>2, <2>3 DEF Spans
  <2>9. Spans(b, q, k, low)
    BY <2>5, <2>6, <2>7, <2>8 DEF Spans
  <2> QED
    BY <2>9 DEF b
<1> QED
  BY <1>1, <1>2

(* The states of the generator.                                            *)
TwccType == [info : SUBSET [ext : Int, wide : Int], next : Int, high : Int, sent : Windows]

(* The numbers that windows speak of.                                      *)
Covered(ws) == UNION {w.base..w.last : w \in {ws[i] : i \in DOMAIN ws}}

(* The generator t becomes s with the feedback about the pending numbers   *)
(* P.                                                                      *)
Sends(s, t, P) ==
    /\ s \in TwccType /\ s.info = {} /\ s.high = t.high
    /\ P = {} => s.next = t.next /\ s.sent = <<>>
    /\ P # {} => /\ s.next - 1 \in P /\ P \subseteq Covered(s.sent)
                 /\ \A x \in Covered(s.sent) : /\ x < s.next
                                               /\ t.next # T!NoNumber => t.next <= x

(* What a feedback says: every pending number is in its windows, which     *)
(* begin at the cursor of the last one, if there was one, and end at the   *)
(* highest pending number, where the next one goes on.                     *)
LEMMA SendTwcc ==
    ASSUME NEW t \in TwccType, IsFiniteSet(t.info),
           NEW P, P = {e.ext : e \in T!Pending(t)},
           NEW s, s = T!sendTWCC(t)
    PROVE  Sends(s, t, P)
<1> DEFINE exts == T!Ascending(P)
           n == Cardinality(P)
           start == [open |-> FALSE, cursor |-> t.next, base |-> 0, last |-> 0, windows |-> <<>>]
           end == T!FoldLeft(T!Extend, start, exts)
<1>0. /\ t.info \subseteq [ext : Int, wide : Int] /\ t.next \in Int /\ t.high \in Int
      /\ T!Pending(t) \subseteq t.info
      /\ P \subseteq Int
      /\ t.next # T!NoNumber => \A x \in P : t.next <= x
  BY DEF TwccType, T!Pending
<1>1. IsFiniteSet(P)
  <2>1. IsFiniteSet(T!Pending(t))
    BY <1>0, FS_Subset
  <2> DEFINE f == [e \in T!Pending(t) |-> e.ext]
  <2>2. f \in Surjection(T!Pending(t), P)
    BY DEF Surjection
  <2> QED
    BY <2>1, <2>2, FS_Surjection
<1>2. /\ n \in Nat /\ exts \in [1..n -> P]
      /\ \A i, k \in 1..n : i < k => exts[i] < exts[k]
      /\ \A x \in P : \E i \in 1..n : exts[i] = x
  BY <1>0, <1>1, AscendingSorts
<1>3. exts = <<>> <=> P = {}
  <2>1. P = {} => n = 0
    BY FS_EmptySet
  <2>2. n = 0 => exts = <<>>
    BY <1>2
  <2>3. exts = <<>> => P = {}
    <3> SUFFICES ASSUME exts = <<>>, NEW x \in P PROVE FALSE
      OBVIOUS
    <3>1. DOMAIN exts = {} /\ DOMAIN exts = 1..n
      BY <1>2
    <3> QED
      BY <1>2, <3>1
  <2> QED
    BY <2>1, <2>2, <2>3
<1>4. s = IF exts = <<>> THEN [t EXCEPT !.info = {}, !.sent = <<>>]
          ELSE [t EXCEPT !.info = {}, !.next = end.last + 1,
                         !.sent = Append(end.windows, [base |-> end.base, last |-> end.last])]
  BY DEF T!sendTWCC
<1>5. CASE P = {}
  <2>1. s = [t EXCEPT !.info = {}, !.sent = <<>>]
    BY <1>3, <1>4, <1>5
  <2>2. <<>> \in Windows
    BY DEF Windows
  <2> QED
    BY <1>5, <2>1, <2>2 DEF TwccType, Sends
<1>6. CASE P # {}
  <2>1. n \in Nat \ {0} /\ exts \in [1..n -> Int]
    <3> HIDE DEF exts, n
    <3>1. PICK x \in P : TRUE
      BY <1>6
    <3>2. PICK i \in 1..n : exts[i] = x
      BY <1>2
    <3> QED
      BY <1>0, <1>2, <3>2
  <2>2. start \in Accumulators
    <3>1. <<>> \in Windows
      BY DEF Windows
    <3> QED
      BY <1>0, <3>1 DEF Accumulators
  <2> HIDE DEF start, exts, n
  <2>f. PICK h : FoldedTo(end, h, n, exts, start)
    BY <2>1, <2>2, FoldExtend
  <2> HIDE DEF end
  <2>3. /\ h \in [0..n -> Accumulators] /\ h[0] = start
        /\ \A k \in 1..n : h[k] = T!Extend(h[k - 1], exts[k])
        /\ end = h[n]
    BY <2>f DEF FoldedTo
  <2> DEFINE Good == {k \in 0..n : k > 0 => Spans(h[k], exts, k, t.next)}
  <2>4. 0 \in Good
    BY <2>1
  <2>5. ASSUME NEW k \in 1..n, k - 1 \in Good PROVE k \in Good
    <3>0. n \in Nat /\ k - 1 \in 0..n
      BY <2>1
    <3>1. h[k - 1] \in Accumulators /\ h[k] = T!Extend(h[k - 1], exts[k]) /\ n \in Nat
      <4>1. h[k - 1] \in Accumulators
        BY <2>3, <3>0
      <4> QED
        BY <2>3, <3>0, <4>1
    <3>2. CASE k = 1
      <4>1. /\ ~h[0].open /\ h[0].windows = <<>> /\ h[0].cursor = t.next /\ h[0] \in Accumulators
        <5>1. h[0] = start /\ h[0] \in Accumulators
          BY <2>2, <2>3
        <5> QED
          BY <5>1 DEF start
      <4>2. t.next # T!NoNumber => t.next <= exts[1]
        BY <1>0, <1>2, <2>1
      <4>3. Spans(T!Extend(h[0], exts[1]), exts, 1, t.next)
        BY <1>0, <2>1, <4>1, <4>2, ExtendFirst
      <4> QED
        BY <3>1, <3>2, <4>3
    <3>3. CASE k # 1
      <4>1. k \in 2..n /\ k - 1 \in 1..n /\ k - 1 < k /\ k - 1 > 0
        BY <2>1, <3>3
      <4>2. Spans(h[k - 1], exts, k - 1, t.next)
        BY <2>5, <4>1
      <4>3. exts[k - 1] < exts[k]
        BY <1>2, <4>1
      <4>4. Spans(T!Extend(h[k - 1], exts[k]), exts, k, t.next)
        BY <1>0, <2>1, <3>1, <4>1, <4>2, <4>3, ExtendNext
      <4> QED
        BY <3>1, <4>4
    <3> QED
      BY <3>2, <3>3
  <2>6. n \in Good
    <3>1. \A k \in 0..n : k \in Good
      <4> HIDE DEF Good
      <4> QED
        BY <2>1, <2>4, <2>5, UpTo
    <3> QED
      BY <2>1, <3>1
  <2>7. Spans(end, exts, n, t.next) /\ end \in Accumulators
    BY <2>1, <2>3, <2>6
  <2> DEFINE open == [base |-> end.base, last |-> end.last]
             sent == Append(end.windows, open)
  <2>8. s = [t EXCEPT !.info = {}, !.next = end.last + 1, !.sent = sent]
    BY <1>3, <1>4, <1>6
  <2>9. /\ end.last \in Int /\ end.base \in Int /\ end.windows \in Windows
        /\ end.last = exts[n] /\ end.base <= end.last
        /\ t.next # T!NoNumber => t.next <= end.base
    BY <2>7 DEF Accumulators, Spans
  <2>10. /\ sent \in Windows
         /\ DOMAIN sent = 1..(Len(end.windows) + 1) /\ Len(end.windows) \in Nat
         /\ DOMAIN end.windows = 1..Len(end.windows)
         /\ sent[Len(end.windows) + 1] = open
         /\ \A i \in DOMAIN end.windows : i \in DOMAIN sent /\ sent[i] = end.windows[i]
         /\ \A i \in DOMAIN end.windows : end.windows[i] \in [base : Int, last : Int]
    <3> DEFINE W == [base : Int, last : Int]
    <3>1. end.windows \in Seq(W) /\ open \in W
      BY <2>9 DEF Windows
    <3>2. /\ sent \in Seq(W)
          /\ DOMAIN sent = 1..(Len(end.windows) + 1) /\ Len(end.windows) \in Nat
          /\ DOMAIN end.windows = 1..Len(end.windows)
          /\ sent[Len(end.windows) + 1] = open
          /\ \A i \in DOMAIN end.windows : i \in DOMAIN sent /\ sent[i] = end.windows[i]
          /\ \A i \in DOMAIN end.windows : end.windows[i] \in W
      <4> HIDE DEF W, open
      <4> QED
        BY <3>1
    <3> QED
      BY <3>2 DEF Windows
  <2> HIDE DEF sent
  <2>11. s \in TwccType /\ s.info = {} /\ s.high = t.high /\ s.next = end.last + 1 /\ s.sent = sent
    <3>1. sent \in Windows
      BY <2>10
    <3>2. end.last + 1 \in Int
      BY <2>9
    <3> QED
      BY <1>0, <2>8, <2>9, <3>1, <3>2 DEF TwccType
  <2>12. s.next - 1 \in P
    BY <1>2, <2>1, <2>9, <2>11
  <2>13. ASSUME NEW x \in P PROVE x \in Covered(sent)
    <3>1. PICK j \in 1..n : exts[j] = x
      BY <1>2 DEF exts, n
    <3>2. PICK i \in DOMAIN sent : x \in sent[i].base..sent[i].last
      <4>1. CASE x \in end.base..end.last
        <5>1. Len(end.windows) + 1 \in DOMAIN sent
          BY <2>10
        <5>2. x \in sent[Len(end.windows) + 1].base..sent[Len(end.windows) + 1].last
          BY <2>10, <4>1
        <5> QED
          BY <5>1, <5>2
      <4>2. CASE \E i \in DOMAIN end.windows : x \in end.windows[i].base..end.windows[i].last
        BY <2>10, <4>2
      <4> QED
        BY <2>7, <3>1, <4>1, <4>2 DEF Spans
    <3> QED
      BY <3>2 DEF Covered
  <2>14. ASSUME NEW x \in Covered(sent)
         PROVE  x < s.next /\ (t.next # T!NoNumber => t.next <= x)
    <3>1. PICK i \in DOMAIN sent : x \in sent[i].base..sent[i].last
      BY DEF Covered
    <3>2. CASE i = Len(end.windows) + 1
      <4>1. sent[i].base = end.base /\ sent[i].last = end.last
        BY <2>10, <3>2
      <4> QED
        BY <1>0, <2>9, <2>11, <3>1, <4>1
    <3>3. CASE i # Len(end.windows) + 1
      <4>1. i \in DOMAIN end.windows /\ sent[i] = end.windows[i]
        BY <2>10, <3>3
      <4>2. end.windows[i].base \in Int /\ end.windows[i].last \in Int
        BY <2>10, <4>1
      <4>3. end.windows[i].last <= end.last /\ (t.next # T!NoNumber => t.next <= end.windows[i].base)
        BY <2>7, <4>1 DEF Spans
      <4> QED
        BY <1>0, <2>9, <2>11, <3>1, <4>1, <4>2, <4>3
    <3> QED
      BY <3>2, <3>3
  <2> QED
    BY <1>6, <2>11, <2>12, <2>13, <2>14 DEF Sends
<1> QED
  BY <1>5, <1>6

-----------------------------------------------------------------------------
(* The media stream is an SRTP stream: every step of it is one of          *)
(* SrtpStream or leaves that alone.                                        *)
LEMMA StepsOfStream == [MediaNext]_vars => [Next]_svars
<1> SUFFICES ASSUME [MediaNext]_vars PROVE [Next]_svars
  OBVIOUS
<1>1. ASSUME NEW gap \in Gaps, NEW kept \in BOOLEAN, source(gap, kept) PROVE Next
  BY <1>1 DEF source, Next
<1>2. ASSUME NEW seq \in asked, retransmit(seq) PROVE [Next]_svars
  <2>1. CASE \E c \in cache : c.seq = seq
    BY <1>2, <2>1 DEF retransmit, Next
  <2>2. CASE ~\E c \in cache : c.seq = seq
    BY <1>2, <2>2 DEF retransmit
  <2> QED
    BY <2>1, <2>2
<1>3. ASSUME NEW p \in net, NEW again \in BOOLEAN, arrive(p, again) PROVE Next
  BY <1>3 DEF arrive, Next
<1>4. ASSUME NEW p \in net, lose(p) PROVE Next
  BY <1>4 DEF lose, Next
<1>5. ASSUME NEW seq \in {0, Half}, damaged(seq) PROVE Next
  <2>1. seq \in 0..Cycle - 1
    BY SrtpAssumption DEF Cycle
  <2> QED
    BY <1>5, <2>1 DEF damaged, Next
<1>6. (\E arrives \in BOOLEAN : sendNack(arrives)) \/ runTWCC \/ eol => UNCHANGED svars
  BY DEF sendNack, runTWCC, eol
<1>7. UNCHANGED vars => UNCHANGED svars
  BY DEF vars
<1> QED
  BY <1>1, <1>2, <1>3, <1>4, <1>5, <1>6, <1>7 DEF MediaNext

(* rtpReceiver.ts and what is behind it take nothing from the SRTP stream: *)
(* the media stream implements SrtpStream.                                 *)
THEOREM MediaIsStream == MediaSpec => Spec
<1>1. MediaInit => Init
  BY DEF MediaInit
<1> QED
  BY <1>1, StepsOfStream, PTL DEF MediaSpec, Spec

(* The source's numbers come round forward only.                           *)
LEMMA CycleGrows ==
    ASSUME StreamTypeOK, [Next]_svars
    PROVE  pos.cycle \in Nat /\ pos'.cycle \in Nat /\ pos'.cycle >= pos.cycle
<1>0. pos \in Position /\ pos.cycle \in Nat
  BY DEF StreamTypeOK, Position
<1>1. ASSUME NEW gap \in Gaps, NEW kept, Send(gap, kept) PROVE pos'.cycle >= pos.cycle /\ pos'.cycle \in Nat
  <2>1. gap \in 1..Half - 1 /\ pos' = Advance(pos, gap)
    BY <1>1, SrtpAssumption DEF Send
  <2> QED
    BY <1>0, <2>1, AdvanceBy DEF Position
<1>2. (\E gap \in Gaps, kept \in BOOLEAN : Send(gap, kept)) \/ pos' = pos
  BY DEF Next, Resend, Receive, Lose, ReceiveDamaged, svars
<1> QED
  BY <1>0, <1>1, <1>2

(* A stream, once astray, stays so.                                        *)
LEMMA StaysAstray ==
    ASSUME StreamTypeOK, [Next]_svars, ~Astray'
    PROVE  ~Astray
<1>1. strayed \in BOOLEAN /\ (strayed => strayed')
  BY DEF StreamTypeOK, Next, Send, Resend, Receive, Lose, ReceiveDamaged, svars
<1>2. ~Exhausted
  BY CycleGrows, SrtpAssumption DEF Astray, Exhausted
<1> QED
  BY <1>1, <1>2 DEF Astray

(* The kind of feedback stays.                                             *)
LEMMA KindStays ==
    ASSUME StreamTypeOK, [Next]_svars
    PROVE  wide'.on = wide.on
<1>1. ASSUME NEW c, encryptRtp(c) PROVE wide'.on = wide.on
  BY <1>1 DEF encryptRtp, StreamTypeOK
<1>2. (\E c : encryptRtp(c)) \/ wide' = wide
  BY DEF Next, Send, Resend, Receive, Lose, ReceiveDamaged, svars
<1> QED
  BY <1>1, <1>2

(* The packet at position c is encrypted and put into the network.         *)
Emitted(c) == [cycle |-> c.cycle, seq |-> c.seq, roc |-> c.cycle, wide |-> wide.next]

(* encryptRtp of a position near the last one sent keeps its rollover      *)
(* counter, and puts the packet under the next transport-wide number.      *)
LEMMA EmitsTrue ==
    ASSUME StreamTypeOK, NEW c \in Position, encryptRtp(c), c.cycle <= MaxRollover,
           snd.started => /\ Index(c) - packetIndex(snd.roc, snd.last) < Half
                          /\ packetIndex(snd.roc, snd.last) - Index(c) < Half,
           ~snd.started => c.cycle = 0
    PROVE  /\ snd' = commitPacketIndex(c.seq, c.cycle, snd)
           /\ net' = net \union {Emitted(c)}
           /\ wide' = [on |-> wide.on, next |-> IF wide.on THEN wide.next + 1 ELSE wide.next]
<1>0. /\ snd \in State /\ c.seq \in 0..Cycle - 1 /\ c.cycle \in Nat /\ MaxRollover \in Nat
      /\ wide \in [on : BOOLEAN, next : Nat]
  BY SrtpAssumption DEF StreamTypeOK, Position
<1>1. guessRolloverCounter(c.seq, snd) = c.cycle
  <2>1. CASE snd.started
    BY <1>0, <2>1, GuessRight DEF Index
  <2>2. CASE ~snd.started
    BY <2>2 DEF guessRolloverCounter
  <2> QED
    BY <2>1, <2>2
<1>2. ~Overflows(c.seq, snd) /\ estimateRolloverCounter(c.seq, snd) = c.cycle
  BY <1>0, <1>1 DEF Overflows, estimateRolloverCounter
<1>3. wide' = [wide EXCEPT !.next = IF wide.on THEN @ + 1 ELSE @]
  BY <1>2 DEF encryptRtp
<1> QED
  BY <1>0, <1>2, <1>3 DEF encryptRtp, Emitted

-----------------------------------------------------------------------------
(* The packets under way and the highest one accepted are less than half a *)
(* cycle behind the last packet sent, and less than MaxDelay where no      *)
(* packet is sent again.                                                   *)
NetTrue ==
    /\ net # {} \/ top # -1 => snd.started
    /\ \A p \in net : /\ Index(p) <= Last /\ Last - Index(p) < Half
                      /\ wide.on => Last - Index(p) < MaxDelay
    /\ top # -1 => /\ top <= Last /\ Last - top < Half
                   /\ wide.on => Last - top < MaxDelay

(* No packet is asked for where the feedback is transport-wide.            *)
OneFeedback == wide.on => nack = N!Fresh /\ asked = {}

(* A packet of the source is the last one sent.                            *)
LEMMA SourceEmits ==
    ASSUME IInv, NetTrue, ~Astray, NEW gap \in Gaps, NEW kept \in BOOLEAN, source(gap, kept)
    PROVE  /\ snd' = [started |-> TRUE, roc |-> pos.cycle, last |-> pos.seq]
           /\ net' = net \union {Emitted(pos)} /\ Index(Emitted(pos)) = Index(pos)
           /\ wide' = [on |-> wide.on, next |-> IF wide.on THEN wide.next + 1 ELSE wide.next]
           /\ Last' = Index(pos) /\ Index(pos) \in Nat /\ Last \in Nat
           /\ snd.started => Last < Index(pos)
           /\ top' = top /\ rcv' = rcv
           /\ \A p \in net : Index(pos) - Index(p) < MaxDelay
           /\ top # -1 => Index(pos) - top < MaxDelay
<1>0. /\ StreamTypeOK /\ pos \in Position /\ encryptRtp(pos) /\ SenderTrue
      /\ snd \in State /\ Half \in Nat \ {0} /\ MaxRollover \in Nat
      /\ pos.cycle <= MaxRollover
  BY SrtpAssumption DEF IInv, StreamTypeOK, source, Send, Astray, Exhausted, Position
<1>1. Last \in Nat /\ Index(pos) \in Nat
  BY <1>0, IndexType DEF State, Position, Index, Last
<1>2. /\ snd.started => /\ Index(pos) - packetIndex(snd.roc, snd.last) < Half
                        /\ packetIndex(snd.roc, snd.last) - Index(pos) < Half
      /\ ~snd.started => pos.cycle = 0
      /\ snd.started => Last < Index(pos)
  BY <1>0, <1>1 DEF SenderTrue, Last
<1>3. /\ snd' = commitPacketIndex(pos.seq, pos.cycle, snd)
      /\ net' = net \union {Emitted(pos)}
      /\ wide' = [on |-> wide.on, next |-> IF wide.on THEN wide.next + 1 ELSE wide.next]
  BY <1>0, <1>2, EmitsTrue
<1>4. snd' = [started |-> TRUE, roc |-> pos.cycle, last |-> pos.seq]
  BY <1>0, <1>1, <1>2, <1>3 DEF commitPacketIndex, Index, Last
<1>5. Last' = Index(pos) /\ Index(Emitted(pos)) = Index(pos)
  BY <1>4 DEF Last, Index, Emitted
<1> QED
  BY <1>1, <1>2, <1>3, <1>4, <1>5 DEF source, Send

(* A packet sent again is one of the last half cycle.                      *)
LEMMA ResendEmits ==
    ASSUME IInv, ~Astray, ~Astray', NEW c \in cache, Resend(c)
    PROVE  /\ snd' = snd /\ snd.started /\ Last' = Last
           /\ net' = net \union {Emitted(c)} /\ Index(Emitted(c)) = Index(c)
           /\ Index(c) <= Last /\ Last - Index(c) < Half
           /\ wide' = [on |-> wide.on, next |-> IF wide.on THEN wide.next + 1 ELSE wide.next]
           /\ top' = top /\ rcv' = rcv /\ pos' = pos /\ cache' = cache
<1>0. /\ StreamTypeOK /\ c \in Position /\ encryptRtp(c) /\ SenderTrue
      /\ snd \in State /\ Half \in Nat \ {0}
  BY SrtpAssumption DEF IInv, StreamTypeOK, Resend
<1>1. Last \in Nat /\ Index(c) \in Nat
  BY <1>0, IndexType DEF State, Position, Index, Last
<1>a. ~(Last - Index(c) >= Half)
  BY DEF Astray, Resend
<1>2. snd.started /\ Index(c) <= Last /\ Last - Index(c) < Half /\ c.cycle <= MaxRollover
  BY <1>0, <1>1, <1>a DEF SenderTrue, Last
<1>3. /\ snd' = commitPacketIndex(c.seq, c.cycle, snd)
      /\ net' = net \union {Emitted(c)}
      /\ wide' = [on |-> wide.on, next |-> IF wide.on THEN wide.next + 1 ELSE wide.next]
  BY <1>0, <1>1, <1>2, EmitsTrue DEF Last
<1>4. snd' = snd
  BY <1>0, <1>1, <1>2, <1>3 DEF commitPacketIndex, Index, Last
<1>5. Last' = Last /\ Index(Emitted(c)) = Index(c)
  BY <1>4 DEF Last, Index, Emitted
<1> QED
  BY <1>1, <1>2, <1>3, <1>4, <1>5 DEF Resend

(* What an accepted packet does to the highest index.                      *)
LEMMA AcceptedNear ==
    ASSUME IInv, NetTrue, ~Astray, NEW p \in net, NEW again \in BOOLEAN,
           Receive(p, again), Authentic(rcv, p)
    PROVE  /\ p.seq \in 0..Cycle - 1 /\ p.cycle \in Nat /\ p.wide \in Nat /\ Index(p) \in Nat
           /\ top = -1 => p.cycle = 0
           /\ top # -1 => top - Half < Index(p) /\ Index(p) < top + Half
           /\ top = -1 \/ Index(p) > top =>
                 top' = Index(p) /\ rcv' = [started |-> TRUE, roc |-> p.cycle, last |-> p.seq]
           /\ top # -1 /\ Index(p) <= top => top' = top /\ rcv' = rcv
<1>0. /\ StreamTypeOK /\ SenderTrue /\ ReceiverTrue /\ p.roc = p.cycle
      /\ rcv \in State /\ snd \in State /\ top \in Nat \union {-1}
      /\ p.seq \in 0..Cycle - 1 /\ p.cycle \in Nat /\ p.wide \in Nat
      /\ Half \in Nat \ {0}
  BY SrtpAssumption DEF IInv, StreamTypeOK
<1>1. /\ Index(p) \in Nat /\ Last \in Nat /\ packetIndex(rcv.roc, rcv.last) \in Nat
      /\ packetIndex(p.roc, p.seq) = Index(p)
  BY <1>0, IndexType DEF State, Index, Last
<1>2. top # -1 => top - Half < Index(p) /\ Index(p) < top + Half
  <2>1. Index(p) <= Last /\ Last - Index(p) < Half
    BY DEF NetTrue
  <2>2. top # -1 => top <= Last /\ Last - top < Half
    BY DEF NetTrue
  <2> QED
    BY <1>0, <1>1, <2>1, <2>2
<1>3. top = -1 => p.cycle = 0
  <2>1. top = -1 => guessRolloverCounter(p.seq, rcv) = 0
    BY <1>0 DEF ReceiverTrue, guessRolloverCounter
  <2> QED
    BY <1>0, <2>1 DEF Authentic, estimateRolloverCounter
<1>4. rcv' = commitPacketIndex(p.seq, p.roc, rcv) /\ top' = IF Higher(p) THEN Index(p) ELSE top
  BY DEF Receive, decryptRtp
<1>5. Higher(p) <=> top = -1 \/ Index(p) > top
  BY <1>0, <1>1, <1>2 DEF Higher
<1>6. ASSUME top = -1 \/ Index(p) > top
      PROVE  rcv' = [started |-> TRUE, roc |-> p.cycle, last |-> p.seq]
  BY <1>0, <1>1, <1>2, <1>4, <1>6 DEF ReceiverTrue, commitPacketIndex
<1>7. ASSUME top # -1, Index(p) <= top
      PROVE  rcv' = rcv
  BY <1>0, <1>1, <1>2, <1>4, <1>7 DEF ReceiverTrue, commitPacketIndex
<1>8. top = -1 \/ Index(p) > top => top' = Index(p)
  BY <1>4, <1>5
<1>9. top # -1 /\ Index(p) <= top => top' = top
  BY <1>0, <1>1, <1>4, <1>5
<1> QED
  BY <1>0, <1>1, <1>2, <1>3, <1>6, <1>7, <1>8, <1>9

(* A packet that is not authentic changes nothing but the network.         *)
LEMMA RefusedKeeps ==
    ASSUME NEW p, NEW again, Receive(p, again), ~Authentic(rcv, p)
    PROVE  top' = top /\ rcv' = rcv
BY DEF Receive, Higher, decryptRtp

-----------------------------------------------------------------------------
(* The kind of feedback is never changed.                                  *)
LEMMA OneFeedbackInductive ==
    /\ MediaInit => OneFeedback
    /\ StreamTypeOK /\ OneFeedback /\ [MediaNext]_vars => OneFeedback'
<1>1. MediaInit => OneFeedback
  BY DEF MediaInit, OneFeedback
<1>2. ASSUME StreamTypeOK, OneFeedback, [MediaNext]_vars
      PROVE  OneFeedback'
  <2>1. wide'.on = wide.on
    BY <1>2, StepsOfStream, KindStays
  <2>2. ASSUME wide.on PROVE nack' = nack /\ asked' = asked
    <3>1. nack.lost = {} /\ asked = {} /\ ~nackEnabled
      BY <1>2, <2>2 DEF OneFeedback, N!Fresh, nackEnabled
    <3>2. ASSUME NEW p \in net, NEW again \in BOOLEAN, arrive(p, again) PROVE nack' = nack /\ asked' = asked
      BY <3>1, <3>2 DEF arrive, handleRTP
    <3> QED
      BY <1>2, <3>1, <3>2 DEF MediaNext, vars, source, retransmit, lose, damaged, sendNack, runTWCC, eol
  <2> QED
    BY <1>2, <2>1, <2>2 DEF OneFeedback
<1> QED
  BY <1>1, <1>2

(* A packet of the source leaves no packet half a cycle behind.            *)
LEMMA SourceKeepsNet ==
    ASSUME IInv, NetTrue, ~Astray, NEW gap \in Gaps, NEW kept \in BOOLEAN, source(gap, kept)
    PROVE  NetTrue'
<1>0. /\ snd'.started /\ top' = top
      /\ net' = net \union {Emitted(pos)} /\ Index(Emitted(pos)) = Index(pos)
      /\ wide'.on = wide.on
      /\ Last' = Index(pos) /\ Index(pos) \in Nat /\ Last \in Nat
      /\ snd.started => Last < Index(pos)
      /\ \A p \in net : Index(pos) - Index(p) < MaxDelay
      /\ top # -1 => Index(pos) - top < MaxDelay
      /\ MaxDelay \in 1..Half /\ Half \in Nat
  BY SourceEmits, SrtpAssumption, MediaAssumption
<1>1. \A p \in net : Index(p) \in Nat
  BY IndexType DEF IInv, StreamTypeOK, Index
<1>2. ASSUME NEW p \in net'
      PROVE  /\ Index(p) <= Last' /\ Last' - Index(p) < Half
             /\ wide'.on => Last' - Index(p) < MaxDelay
  <2>1. CASE p \in net
    <3>1. snd.started /\ Index(p) <= Last
      BY <2>1 DEF NetTrue
    <3> QED
      BY <1>0, <1>1, <2>1, <3>1
  <2>2. CASE p = Emitted(pos)
    BY <1>0, <2>2
  <2> QED
    BY <1>0, <1>2, <2>1, <2>2
<1>3. top' # -1 => /\ top' <= Last' /\ Last' - top' < Half
                   /\ wide'.on => Last' - top' < MaxDelay
  <2> SUFFICES ASSUME top # -1
               PROVE  top <= Index(pos) /\ Index(pos) - top < MaxDelay /\ Index(pos) - top < Half
    BY <1>0
  <2>1. snd.started /\ top <= Last /\ top \in Int
    BY DEF NetTrue, IInv, StreamTypeOK
  <2> QED
    BY <1>0, <2>1
<1>4. \A p \in net' : Index(p)' = Index(p)
  BY DEF Index
<1> QED
  BY <1>0, <1>2, <1>3 DEF NetTrue, Index

(* No packet under way falls half a cycle behind.                          *)
LEMMA NetInductive ==
    /\ MediaInit => NetTrue
    /\ IInv /\ OneFeedback /\ NetTrue /\ ~Astray /\ ~Astray' /\ [MediaNext]_vars => NetTrue'
<1>1. MediaInit => NetTrue
  BY DEF MediaInit, Init, NetTrue
<1>2. ASSUME IInv, OneFeedback, NetTrue, ~Astray, ~Astray', [MediaNext]_vars
      PROVE  NetTrue'
  <2>1. ASSUME UNCHANGED <<snd, top, wide>>, net' \subseteq net PROVE NetTrue'
    BY <1>2, <2>1 DEF NetTrue, Index, Last
  <2>2. ASSUME NEW seq \in asked, retransmit(seq) PROVE NetTrue'
    <3>1. CASE \E c \in cache : c.seq = seq
      <4>1. PICK c \in cache : Resend(c)
        BY <2>2, <3>1 DEF retransmit
      <4>2. ~wide.on
        BY <1>2, <2>2 DEF OneFeedback
      <4>3. /\ snd' = snd /\ snd.started /\ Last' = Last /\ top' = top
            /\ net' = net \union {Emitted(c)} /\ Index(Emitted(c)) = Index(c)
            /\ Index(c) <= Last /\ Last - Index(c) < Half
            /\ wide'.on = wide.on
        BY <1>2, <4>1, ResendEmits
      <4> QED
        BY <1>2, <4>2, <4>3 DEF NetTrue, Index
    <3>2. CASE ~\E c \in cache : c.seq = seq
      BY <2>1, <2>2, <3>2 DEF retransmit, svars
    <3> QED
      BY <3>1, <3>2
  <2>3. ASSUME NEW p \in net, NEW again \in BOOLEAN, arrive(p, again) PROVE NetTrue'
    <3>0. Receive(p, again) /\ net' \subseteq net /\ UNCHANGED <<snd, wide>>
      BY <2>3 DEF arrive, Receive
    <3>1. top' = top \/ top' = Index(p)
      BY <3>0 DEF Receive
    <3>2. CASE top' = top
      BY <2>1, <3>0, <3>2
    <3>3. CASE top' = Index(p)
      <4>1. /\ snd.started /\ Index(p) <= Last /\ Last - Index(p) < Half
            /\ wide.on => Last - Index(p) < MaxDelay
        BY <1>2 DEF NetTrue
      <4> QED
        BY <1>2, <3>0, <3>3, <4>1 DEF NetTrue, Index, Last
    <3> QED
      BY <3>1, <3>2, <3>3
  <2>4. ASSUME NEW p \in net, lose(p) PROVE NetTrue'
    BY <2>1, <2>4 DEF lose, Lose
  <2>5. ASSUME NEW seq \in {0, Half}, damaged(seq) PROVE NetTrue'
    BY <2>1, <2>5 DEF damaged, ReceiveDamaged
  <2>6. ASSUME UNCHANGED svars PROVE NetTrue'
    BY <2>1, <2>6 DEF svars
  <2>7. (\E arrives \in BOOLEAN : sendNack(arrives)) \/ runTWCC \/ eol \/ UNCHANGED vars => UNCHANGED svars
    BY DEF sendNack, runTWCC, eol, vars
  <2> QED
    BY <1>2, <2>2, <2>3, <2>4, <2>5, <2>6, <2>7, SourceKeepsNet DEF MediaNext
<1> QED
  BY <1>1, <1>2

-----------------------------------------------------------------------------
(* The log.                                                                *)
Fields == {"heard", "timely", "played", "wides", "late", "reported", "offset", "wrong"}

(* What windows say of true numbers.                                       *)
Said(ws, offset) == {x - offset : x \in Covered(ws)}

(* The windows speak of a number once more, or of one otherwise than it    *)
(* arrived.                                                                *)
TellsWrong(ws, offset, entries, wides, reported) ==
    \/ Said(ws, offset) \intersect reported # {}
    \/ {e.ext - offset : e \in entries} \intersect Said(ws, offset) # Said(ws, offset) \intersect wides

(* The log g becomes h with the windows sent.                              *)
Told(h, g, ws, entries) ==
    /\ DOMAIN h = Fields
    /\ h.heard = g.heard /\ h.timely = g.timely /\ h.played = g.played
    /\ h.wides = g.wides /\ h.late = g.late /\ h.offset = g.offset
    /\ h.reported = g.reported \union Said(ws, g.offset)
    /\ h.wrong = (g.wrong \/ TellsWrong(ws, g.offset, entries, g.wides, g.reported))

(* Tell changes what is reported and whether that was wrong.               *)
LEMMA TellFields ==
    ASSUME NEW g, DOMAIN g = Fields, NEW t, NEW entries,
           NEW h, h = Tell(g, t, entries)
    PROVE  Told(h, g, t.sent, entries)
<1> DEFINE said == Said(t.sent, g.offset)
           yes == {e.ext - g.offset : e \in entries} \intersect said
<1>1. h = [g EXCEPT !.reported = @ \union said,
                    !.wrong = @ \/ said \intersect g.reported # {} \/ yes # said \intersect g.wides]
  BY DEF Tell, Said, Covered
<1>2. (said \intersect g.reported # {} \/ yes # said \intersect g.wides)
         = TellsWrong(t.sent, g.offset, entries, g.wides, g.reported)
  BY DEF TellsWrong
<1> HIDE DEF said, yes
<1>3. /\ DOMAIN h = Fields
      /\ h.heard = g.heard /\ h.timely = g.timely /\ h.played = g.played
      /\ h.wides = g.wides /\ h.late = g.late /\ h.offset = g.offset
      /\ h.reported = g.reported \union said
      /\ h.wrong = (g.wrong \/ said \intersect g.reported # {} \/ yes # said \intersect g.wides)
  BY <1>1 DEF Fields
<1> QED
  BY <1>2, <1>3 DEF said, Told

(* The generator after a packet with the transport-wide number w, and what *)
(* it notes of it.                                                         *)
Hears(w) == IF wide.on THEN T!handleTWCC(twcc, w) ELSE twcc
Entry(w) == [ext |-> T!unwrapTsn(twcc, w % WideMod), wide |-> w]

(* What handleRTP notes in the log.                                        *)
LEMMA LogOfRTP ==
    ASSUME DOMAIN log = Fields, NEW p, handleRTP(p), NEW w, w = p.wide + WideStart
    PROVE  /\ DOMAIN log' = Fields
           /\ log'.heard = IF Index(p) \in Heard THEN log.heard ELSE Append(log.heard, Index(p))
           /\ log'.wides = log.wides \union {w}
           /\ log'.late = IF \E r \in log.reported : w < r THEN log.late \union {w} ELSE log.late
           /\ log'.offset = IF log.wides = {} THEN (w % WideMod) - w ELSE log.offset
           /\ log'.reported = log.reported \union Said(Hears(w).sent, log'.offset)
           /\ log'.wrong = (log.wrong \/ TellsWrong(Hears(w).sent, log'.offset, twcc.info \union {Entry(w)},
                                                    log'.wides, log.reported))
           /\ twcc' = [Hears(w) EXCEPT !.sent = <<>>]
<1> DEFINE idx == Index(p)
           t == Hears(w)
           j == J!processInput(jitter, [seq |-> p.seq, ts |-> (idx + TsStart) % TsMod, idx |-> idx])
           g == [log EXCEPT !.wides = @ \union {w},
                            !.late = IF \E r \in log.reported : w < r THEN @ \union {w} ELSE @,
                            !.offset = IF log.wides = {} THEN (w % WideMod) - w ELSE @]
           h == Tell(g, t, twcc.info \union {Entry(w)})
           late == IF \E r \in log.reported : w < r THEN log.late \union {w} ELSE log.late
           offset == IF log.wides = {} THEN (w % WideMod) - w ELSE log.offset
<1>1. /\ DOMAIN g = Fields
      /\ g.heard = log.heard /\ g.timely = log.timely /\ g.played = log.played
      /\ g.wides = log.wides \union {w} /\ g.late = late /\ g.offset = offset
      /\ g.reported = log.reported /\ g.wrong = log.wrong
  BY DEF Fields
<1>2. /\ log' = [h EXCEPT
                    !.heard = IF idx \in Heard THEN @ ELSE Append(@, idx),
                    !.timely = IF Heard # {} /\ idx > log.heard[1] /\ Highest(Heard) - idx <= Latency
                               THEN @ \union {idx} ELSE @,
                    !.played = @ \o j.out]
      /\ twcc' = [t EXCEPT !.sent = <<>>]
  BY DEF handleRTP, Hears, Entry
<1> DEFINE entries == twcc.info \union {Entry(w)}
<1>0. h = Tell(g, t, entries)
  OBVIOUS
<1> HIDE DEF g, h, t, j, idx, late, offset, entries
<1>a. Told(h, g, t.sent, entries)
  BY <1>0, <1>1, TellFields
<1>3. /\ DOMAIN h = Fields /\ h.heard = g.heard /\ h.timely = g.timely /\ h.played = g.played
      /\ h.wides = g.wides /\ h.late = g.late /\ h.offset = g.offset
      /\ h.reported = g.reported \union Said(t.sent, g.offset)
      /\ h.wrong = (g.wrong \/ TellsWrong(t.sent, g.offset, entries, g.wides, g.reported))
  BY <1>a DEF Told
<1>4. /\ DOMAIN log' = Fields
      /\ log'.heard = IF idx \in Heard THEN h.heard ELSE Append(h.heard, idx)
      /\ log'.wides = h.wides /\ log'.late = h.late /\ log'.offset = h.offset
      /\ log'.reported = h.reported /\ log'.wrong = h.wrong
  BY <1>2, <1>3 DEF Fields
<1>5. /\ log'.heard = IF idx \in Heard THEN log.heard ELSE Append(log.heard, idx)
      /\ log'.wides = log.wides \union {w} /\ log'.late = late /\ log'.offset = offset
      /\ log'.reported = log.reported \union Said(t.sent, log'.offset)
  BY <1>1, <1>3, <1>4
<1>6. log'.wrong = (log.wrong \/ TellsWrong(t.sent, log'.offset, entries, log'.wides, log.reported))
  <2>1. g.offset = log'.offset /\ g.wides = log'.wides /\ g.reported = log.reported /\ g.wrong = log.wrong
    BY <1>1, <1>3, <1>4
  <2>2. log'.wrong = (g.wrong \/ TellsWrong(t.sent, g.offset, entries, g.wides, g.reported))
    BY <1>3, <1>4
  <2> QED
    BY <2>1, <2>2
<1> QED
  BY <1>2, <1>4, <1>5, <1>6 DEF idx, t, late, offset, entries

(* The numbers heard are indices, and top is the highest of them.          *)
HeardTrue ==
    /\ DOMAIN log = Fields
    /\ log.heard \in Seq(Nat)
    /\ (Heard = {}) <=> (top = -1)
    /\ top # -1 => top \in Heard /\ \A i \in Heard : i <= top

(* The elements of a sequence.                                             *)
Members(h) == {h[k] : k \in DOMAIN h}

(* A sequence without repetitions, one more number heard.                  *)
LEMMA AppendHeard ==
    ASSUME NEW h \in Seq(Nat), NEW i \in Nat, NEW h2,
           h2 = IF i \in Members(h) THEN h ELSE Append(h, i)
    PROVE  /\ h2 \in Seq(Nat)
           /\ Members(h2) = Members(h) \union {i}
           /\ Members(h) # {} => h2[1] = h[1] /\ h[1] \in Members(h)
           /\ Members(h) = {} => h2[1] = i
<1> DEFINE S == Members(h)
<1>1. Len(h) \in Nat /\ DOMAIN h = 1..Len(h)
  OBVIOUS
<1>2. S # {} => h[1] \in S
  <2> SUFFICES ASSUME S # {} PROVE 1 \in DOMAIN h
    BY DEF Members
  <2> QED
    BY <1>1 DEF Members
<1>3. CASE i \in S
  <2>1. h2 = h /\ S # {}
    BY <1>3
  <2> QED
    BY <1>2, <1>3, <2>1
<1>4. CASE i \notin S
  <2>1. /\ h2 \in Seq(Nat) /\ DOMAIN h2 = 1..(Len(h) + 1) /\ h2[Len(h) + 1] = i
        /\ \A k \in DOMAIN h : h2[k] = h[k]
    BY <1>4
  <2>2. Members(h2) = S \union {i}
    <3>1. ASSUME NEW x \in S \union {i} PROVE \E k \in DOMAIN h2 : h2[k] = x
      <4>1. CASE x = i
        <5>1. Len(h) + 1 \in DOMAIN h2
          BY <1>1, <2>1
        <5> QED
          BY <2>1, <4>1, <5>1
      <4>2. CASE x \in S
        <5>1. PICK k \in DOMAIN h : h[k] = x
          BY <4>2 DEF Members
        <5>2. k \in DOMAIN h2 /\ h2[k] = x
          BY <1>1, <2>1, <5>1
        <5> QED
          BY <5>2
      <4> QED
        BY <4>1, <4>2
    <3>2. ASSUME NEW k \in DOMAIN h2 PROVE h2[k] \in S \union {i}
      <4>1. k = Len(h) + 1 \/ k \in DOMAIN h
        BY <1>1, <2>1
      <4> QED
        BY <2>1, <4>1 DEF Members
    <3>3. Members(h2) \subseteq S \union {i}
      BY <3>2 DEF Members
    <3>4. S \union {i} \subseteq Members(h2)
      <4> SUFFICES ASSUME NEW x \in S \union {i} PROVE x \in Members(h2)
        OBVIOUS
      <4> QED
        BY <3>1 DEF Members
    <3> QED
      BY <3>3, <3>4
  <2>3. S # {} => h2[1] = h[1]
    <3> SUFFICES ASSUME S # {} PROVE 1 \in DOMAIN h
      BY <2>1
    <3> QED
      BY <1>1 DEF Members
  <2>4. S = {} => h2[1] = i
    <3> SUFFICES ASSUME S = {} PROVE Len(h) = 0
      BY <2>1
    <3>1. 1 \notin DOMAIN h
      BY DEF Members
    <3> QED
      BY <1>1, <3>1
  <2> QED
    BY <1>2, <2>1, <2>2, <2>3, <2>4
<1> QED
  BY <1>3, <1>4

(* An accepted packet is heard.                                            *)
LEMMA Hearing ==
    ASSUME HeardTrue, NEW p, Index(p) \in Nat, handleRTP(p)
    PROVE  /\ DOMAIN log' = Fields /\ log'.heard \in Seq(Nat)
           /\ Heard' = Heard \union {Index(p)}
           /\ Heard # {} => log'.heard[1] = log.heard[1] /\ log.heard[1] \in Heard
           /\ Heard = {} => log'.heard[1] = Index(p)
<1>1. /\ DOMAIN log' = Fields
      /\ log'.heard = IF Index(p) \in Heard THEN log.heard ELSE Append(log.heard, Index(p))
  BY LogOfRTP DEF HeardTrue
<1>2. log.heard \in Seq(Nat) /\ Heard = Members(log.heard)
  BY DEF HeardTrue, Heard, Members
<1>3. Heard' = Members(log'.heard)
  BY DEF Heard, Members
<1>4. log'.heard = IF Index(p) \in Members(log.heard) THEN log.heard ELSE Append(log.heard, Index(p))
  BY <1>1, <1>2
<1> DEFINE h == log.heard
           h2 == log'.heard
           i == Index(p)
<1>5. h \in Seq(Nat) /\ i \in Nat /\ h2 = IF i \in Members(h) THEN h ELSE Append(h, i)
  BY <1>2, <1>4
<1> HIDE DEF h, h2, i
<1>6. /\ h2 \in Seq(Nat)
      /\ Members(h2) = Members(h) \union {i}
      /\ Members(h) # {} => h2[1] = h[1] /\ h[1] \in Members(h)
      /\ Members(h) = {} => h2[1] = i
  BY <1>5, AppendHeard
<1> QED
  BY <1>1, <1>2, <1>3, <1>6 DEF h, h2, i

(* The other steps leave what was heard.                                   *)
LEMMA NotHearing ==
    ASSUME DOMAIN log = Fields, runTWCC \/ eol \/ log' = log
    PROVE  /\ DOMAIN log' = Fields /\ log'.heard = log.heard /\ Heard' = Heard
           /\ log'.wides = log.wides
<1>1. DOMAIN log' = Fields /\ log'.heard = log.heard /\ log'.wides = log.wides
  <2>1. ASSUME runTWCC PROVE DOMAIN log' = Fields /\ log'.heard = log.heard /\ log'.wides = log.wides
    <3>1. log' = Tell(log, T!sendTWCC(twcc), twcc.info)
      BY <2>1 DEF runTWCC
    <3> QED
      BY <3>1, TellFields DEF Told
  <2>2. ASSUME eol PROVE DOMAIN log' = Fields /\ log'.heard = log.heard /\ log'.wides = log.wides
    <3>1. log' = [log EXCEPT !.played = @ \o J!endOfLife(jitter).out]
      BY <2>2 DEF eol
    <3> QED
      BY <3>1 DEF Fields
  <2> QED
    BY <2>1, <2>2
<1> QED
  BY <1>1 DEF Heard

(* A damaged packet leaves the receiver's state.                           *)
LEMMA DamagedKeeps ==
    ASSUME StreamTypeOK, NEW seq \in {0, Half}, ReceiveDamaged(seq)
    PROVE  rcv' = rcv
<1>1. rcv \in State /\ seq \in 0..Cycle - 1
  BY SrtpAssumption DEF StreamTypeOK, Cycle
<1>2. ~Authentic(rcv, [seq |-> seq, roc |-> -1])
  <2>1. ~Overflows(seq, rcv) => estimateRolloverCounter(seq, rcv) \in 0..MaxRollover
    BY <1>1, GuessType
  <2> QED
    BY <2>1, SrtpAssumption DEF Authentic
<1> QED
  BY <1>2 DEF ReceiveDamaged, decryptRtp

(* A packet is accepted, and handled; or what the receiver counts and      *)
(* knows of the stream stays as it is.                                     *)
Accepts(p, again) ==
    /\ Receive(p, again) /\ Authentic(rcv, p) /\ handleRTP(p)
    /\ UNCHANGED <<pos, snd, wide, asked>>

Keeps ==
    /\ UNCHANGED <<rcv, top, stats>>
    /\ runTWCC \/ eol \/ UNCHANGED <<log, twcc>>
    /\ nack' = nack \/ (nack.lost # {} /\ nack' = N!updateRetryCount(nack))

(* Every step is one of the two.                                           *)
LEMMA ReceiverSteps ==
    ASSUME StreamTypeOK, [MediaNext]_vars
    PROVE  Keeps \/ \E p \in net, again \in BOOLEAN : Accepts(p, again)
<1>1. ASSUME NEW gap \in Gaps, NEW kept \in BOOLEAN, source(gap, kept) PROVE Keeps
  BY <1>1 DEF source, Send, Keeps
<1>2. ASSUME NEW seq \in asked, retransmit(seq) PROVE Keeps
  <2>1. (\E c \in cache : Resend(c)) \/ UNCHANGED svars
    BY <1>2 DEF retransmit
  <2> QED
    BY <1>2, <2>1 DEF retransmit, Resend, svars, Keeps
<1>3. ASSUME NEW p \in net, NEW again \in BOOLEAN, arrive(p, again) PROVE Accepts(p, again) \/ Keeps
  <2>1. CASE Authentic(rcv, p)
    BY <1>3, <2>1 DEF arrive, Receive, Accepts
  <2>2. CASE ~Authentic(rcv, p)
    BY <1>3, <2>2, RefusedKeeps DEF arrive, Keeps
  <2> QED
    BY <2>1, <2>2
<1>4. ASSUME NEW p \in net, lose(p) PROVE Keeps
  BY <1>4 DEF lose, Lose, Keeps
<1>5. ASSUME NEW seq \in {0, Half}, damaged(seq) PROVE Keeps
  <2>1. rcv' = rcv
    BY <1>5, DamagedKeeps DEF damaged
  <2> QED
    BY <1>5, <2>1 DEF damaged, ReceiveDamaged, Keeps
<1>6. ASSUME NEW arrives \in BOOLEAN, sendNack(arrives) PROVE Keeps
  BY <1>6 DEF sendNack, svars, Keeps
<1>7. runTWCC \/ eol \/ UNCHANGED vars => Keeps
  BY DEF runTWCC, eol, vars, svars, Keeps
<1> QED
  BY <1>1, <1>2, <1>3, <1>4, <1>5, <1>6, <1>7 DEF MediaNext

(* top stays the highest number heard.                                     *)
LEMMA HeardInductive ==
    /\ MediaInit => HeardTrue
    /\ IInv /\ NetTrue /\ HeardTrue /\ ~Astray /\ [MediaNext]_vars => HeardTrue'
<1>1. MediaInit => HeardTrue
  <2> SUFFICES ASSUME MediaInit PROVE HeardTrue
    OBVIOUS
  <2>1. DOMAIN log = Fields /\ log.heard = <<>> /\ top = -1
    BY DEF MediaInit, Init, Fields
  <2>2. Heard = {}
    BY <2>1 DEF Heard
  <2> QED
    BY <2>1, <2>2 DEF HeardTrue
<1>2. ASSUME IInv, NetTrue, HeardTrue, ~Astray, [MediaNext]_vars
      PROVE  HeardTrue'
  <2>1. ASSUME NEW p \in net, NEW again \in BOOLEAN, Accepts(p, again) PROVE HeardTrue'
    <3>1. /\ Index(p) \in Nat
          /\ top = -1 \/ Index(p) > top => top' = Index(p)
          /\ top # -1 /\ Index(p) <= top => top' = top
      BY <1>2, <2>1, AcceptedNear DEF Accepts
    <3>2. /\ DOMAIN log' = Fields /\ log'.heard \in Seq(Nat) /\ Heard' = Heard \union {Index(p)}
      BY <1>2, <2>1, <3>1, Hearing DEF Accepts
    <3>3. /\ top \in Nat \union {-1} /\ (Heard = {} <=> top = -1)
          /\ top # -1 => top \in Heard /\ \A i \in Heard : i <= top
      BY <1>2 DEF IInv, StreamTypeOK, HeardTrue
    <3>4. Heard \subseteq Nat
      BY <1>2 DEF HeardTrue, Heard
    <3>5. CASE top = -1
      <4>1. top' = Index(p) /\ Heard' = {Index(p)}
        BY <3>1, <3>2, <3>3, <3>5
      <4> QED
        BY <3>1, <3>2, <4>1 DEF HeardTrue
    <3>6. CASE top # -1 /\ Index(p) > top
      <4>1. top' = Index(p) /\ top \in Nat
        BY <3>1, <3>3, <3>6
      <4>2. \A i \in Heard' : i <= top'
        BY <3>1, <3>2, <3>3, <3>4, <3>6, <4>1
      <4> QED
        BY <3>1, <3>2, <4>1, <4>2 DEF HeardTrue
    <3>7. CASE top # -1 /\ Index(p) <= top
      BY <3>1, <3>2, <3>3, <3>7 DEF HeardTrue
    <3> QED
      BY <3>1, <3>3, <3>5, <3>6, <3>7
  <2>2. ASSUME Keeps PROVE HeardTrue'
    <3>1. DOMAIN log' = Fields /\ log'.heard = log.heard /\ Heard' = Heard
      BY <1>2, <2>2, NotHearing DEF HeardTrue, Keeps
    <3> QED
      BY <1>2, <2>2, <3>1 DEF HeardTrue, Keeps
  <2> QED
    BY <1>2, <2>1, <2>2, ReceiverSteps DEF IInv
<1> QED
  BY <1>1, <1>2

-----------------------------------------------------------------------------
(* StreamStatistics: cycles and max are the highest index accepted, but    *)
(* for the whole cycles before the first packet.                           *)
StatsTrue ==
    /\ stats \in [base : Int, max : Int, cycles : Int, received : Nat]
    /\ top = -1 => stats.received = 0 /\ stats.cycles = 0
    /\ top # -1 => /\ stats.received > 0 /\ stats.max = rcv.last
                   /\ stats.cycles + stats.max - stats.base = top - log.heard[1]

(* The first packet begins the statistics.                                 *)
LEMMA CountsFirst ==
    ASSUME NEW s, s.received = 0, NEW seq \in 0..Cycle - 1,
           s \in [base : Int, max : Int, cycles : Int, received : Nat], NEW t, t = addStatistics(s, seq)
    PROVE  /\ t \in [base : Int, max : Int, cycles : Int, received : Nat]
           /\ t.received > 0 /\ t.max = seq /\ t.base = seq /\ t.cycles = s.cycles
BY DEF addStatistics, Cycle

(* The statistics s become t with the number seq of index i, where j is    *)
(* the highest index counted.                                              *)
Counts(t, s, seq, i, j) ==
    /\ t \in [base : Int, max : Int, cycles : Int, received : Nat]
    /\ t.received > 0 /\ t.base = s.base
    /\ i > j => t.max = seq /\ t.cycles + seq - (s.cycles + s.max) = i - j
    /\ i <= j => t.max = s.max /\ t.cycles = s.cycles

(* A packet less than half a cycle away from the highest one: the serial   *)
(* comparison tells whether it is ahead, and behind a wrap a cycle is      *)
(* added.                                                                  *)
LEMMA CountsNext ==
    ASSUME NEW s \in [base : Int, max : Int, cycles : Int, received : Nat], s.received > 0,
           NEW r \in Nat, s.max \in 0..Cycle - 1, NEW c \in Nat, NEW seq \in 0..Cycle - 1,
           packetIndex(c, seq) - packetIndex(r, s.max) < Half,
           packetIndex(r, s.max) - packetIndex(c, seq) < Half,
           NEW t, t = addStatistics(s, seq)
    PROVE  Counts(t, s, seq, packetIndex(c, seq), packetIndex(r, s.max))
<1>0. /\ Cycle = 2 * Half /\ Half \in Nat \ {0} /\ Cycle \in Nat /\ Cycle \div 2 = Half
      /\ seq \in Int /\ s.max \in Int /\ s.cycles \in Int /\ s.base \in Int /\ s.received \in Nat
      /\ r * Cycle \in Int /\ c * Cycle \in Int
  BY SrtpAssumption DEF Cycle
<1>1. \/ c = r /\ seq - s.max < Half /\ s.max - seq < Half
      \/ c = r + 1 /\ s.max - seq > Half
      \/ r = c + 1 /\ seq - s.max > Half
  BY Neighbours
<1> DEFINE ahead == Serial!SerialGt(seq, s.max, Cycle)
<1>2. t = [base |-> s.base, max |-> IF ahead THEN seq ELSE s.max,
           cycles |-> IF ahead /\ seq < s.max THEN s.cycles + Cycle ELSE s.cycles,
           received |-> s.received + 1]
  BY <1>0 DEF addStatistics
<1>3. /\ c = r => c * Cycle = r * Cycle
      /\ c = r + 1 => c * Cycle = r * Cycle + Cycle
      /\ r = c + 1 => r * Cycle = c * Cycle + Cycle
  BY <1>0
<1>4. ahead <=> packetIndex(c, seq) > packetIndex(r, s.max)
  BY <1>0, <1>1, <1>3 DEF Serial!SerialGt, packetIndex
<1>5. ahead /\ seq < s.max <=> c = r + 1
  BY <1>0, <1>1, <1>3 DEF Serial!SerialGt
<1> HIDE DEF ahead
<1>6. t.max = (IF ahead THEN seq ELSE s.max) /\ t.cycles = (IF c = r + 1 THEN s.cycles + Cycle ELSE s.cycles)
  BY <1>2, <1>5
<1>7. t \in [base : Int, max : Int, cycles : Int, received : Nat] /\ t.received > 0 /\ t.base = s.base
  BY <1>0, <1>2
<1>8. ASSUME ahead
      PROVE  t.max = seq /\ t.cycles + seq - (s.cycles + s.max) = packetIndex(c, seq) - packetIndex(r, s.max)
  <2>1. c = r \/ c = r + 1
    BY <1>0, <1>1, <1>3, <1>4, <1>8 DEF packetIndex
  <2>2. CASE c = r
    BY <1>0, <1>3, <1>6, <1>8, <2>2 DEF packetIndex
  <2>3. CASE c = r + 1
    BY <1>0, <1>3, <1>6, <1>8, <2>3 DEF packetIndex
  <2> QED
    BY <2>1, <2>2, <2>3
<1>9. ASSUME ~ahead PROVE t.max = s.max /\ t.cycles = s.cycles
  BY <1>0, <1>5, <1>6, <1>9
<1>10. packetIndex(c, seq) <= packetIndex(r, s.max) => ~ahead
  BY <1>0, <1>4 DEF packetIndex
<1> QED
  BY <1>4, <1>7, <1>8, <1>9, <1>10 DEF Counts

(* Where the highest index is known, Highest finds it.                     *)
LEMMA TopIsHighest ==
    ASSUME HeardTrue, top \in Nat \union {-1}, Heard # {}
    PROVE  Highest(Heard) = top /\ log.heard[1] \in Heard /\ log.heard[1] \in Nat /\ log.heard[1] <= top
<1>1. top # -1 /\ top \in Heard /\ (\A i \in Heard : i <= top) /\ log.heard \in Seq(Nat)
  BY DEF HeardTrue
<1>2. Heard \subseteq Nat
  BY <1>1 DEF Heard
<1>3. Highest(Heard) \in Heard /\ \A k \in Heard : k <= Highest(Heard)
  BY <1>1 DEF Highest
<1>4. Highest(Heard) = top
  <2> DEFINE h == Highest(Heard)
  <2>3. h \in Heard /\ \A k \in Heard : k <= h
    BY <1>3
  <2> HIDE DEF h
  <2>4. h \in Int /\ top \in Int
    BY <1>1, <1>2, <2>3
  <2>1. h \in Int /\ top \in Int /\ h <= top /\ top <= h
    BY <1>1, <2>3, <2>4
  <2>2. h = top
    BY <2>1
  <2> QED
    BY <2>2 DEF h
<1>5. log.heard[1] \in Heard
  <2>1. Len(log.heard) \in Nat /\ DOMAIN log.heard = 1..Len(log.heard)
    BY <1>1
  <2>2. PICK k \in DOMAIN log.heard : TRUE
    BY DEF Heard
  <2>3. 1 \in DOMAIN log.heard
    BY <2>1, <2>2
  <2> QED
    BY <2>3 DEF Heard
<1> QED
  BY <1>1, <1>2, <1>4, <1>5

(* The statistics stay those of the highest index accepted.                *)
LEMMA StatsInductive ==
    /\ MediaInit => StatsTrue
    /\ IInv /\ NetTrue /\ HeardTrue /\ StatsTrue /\ ~Astray /\ [MediaNext]_vars => StatsTrue'
<1>1. MediaInit => StatsTrue
  BY DEF MediaInit, Init, StatsTrue, NewStatistics
<1>2. ASSUME IInv, NetTrue, HeardTrue, StatsTrue, ~Astray, [MediaNext]_vars
      PROVE  StatsTrue'
  <2>1. ASSUME NEW p \in net, NEW again \in BOOLEAN, Accepts(p, again) PROVE StatsTrue'
    <3>0. /\ stats' = addStatistics(stats, p.seq)
          /\ stats \in [base : Int, max : Int, cycles : Int, received : Nat]
          /\ Half \in Nat \ {0} /\ top \in Nat \union {-1}
      BY <1>2, <2>1, SrtpAssumption DEF Accepts, handleRTP, StatsTrue, IInv, StreamTypeOK
    <3>1. /\ p.seq \in 0..Cycle - 1 /\ p.cycle \in Nat /\ Index(p) \in Nat
          /\ top = -1 => p.cycle = 0
          /\ top # -1 => top - Half < Index(p) /\ Index(p) < top + Half
          /\ top = -1 \/ Index(p) > top =>
                 top' = Index(p) /\ rcv' = [started |-> TRUE, roc |-> p.cycle, last |-> p.seq]
          /\ top # -1 /\ Index(p) <= top => top' = top /\ rcv' = rcv
      BY <1>2, <2>1, AcceptedNear DEF Accepts
    <3>2. /\ Heard # {} => log'.heard[1] = log.heard[1]
          /\ Heard = {} => log'.heard[1] = Index(p)
          /\ Heard = {} <=> top = -1
      BY <1>2, <2>1, <3>1, Hearing DEF Accepts, HeardTrue
    <3>3. CASE top = -1
      <4>1. stats.received = 0
        BY <1>2, <3>3 DEF StatsTrue
      <4>2. /\ stats' \in [base : Int, max : Int, cycles : Int, received : Nat]
            /\ stats'.received > 0 /\ stats'.max = p.seq /\ stats'.base = p.seq
            /\ stats'.cycles = stats.cycles
        BY <3>0, <3>1, <4>1, CountsFirst
      <4>3. stats.cycles = 0
        BY <1>2, <3>3 DEF StatsTrue
      <4> QED
        BY <3>0, <3>1, <3>2, <3>3, <4>2, <4>3 DEF StatsTrue
    <3>4. CASE top # -1
      <4>1. /\ stats.received > 0 /\ stats.max = rcv.last
            /\ stats.cycles + stats.max - stats.base = top - log.heard[1]
        BY <1>2, <3>4 DEF StatsTrue
      <4>2. /\ rcv \in State /\ packetIndex(rcv.roc, rcv.last) = top /\ top \in Nat
            /\ rcv.roc \in Nat /\ rcv.last \in 0..Cycle - 1
        BY <1>2, <3>0, <3>4, SrtpAssumption DEF IInv, StreamTypeOK, ReceiverTrue, State
      <4>3. /\ stats' \in [base : Int, max : Int, cycles : Int, received : Nat]
            /\ stats'.received > 0 /\ stats'.base = stats.base
            /\ Index(p) > top => /\ stats'.max = p.seq
                                 /\ stats'.cycles + p.seq - (stats.cycles + stats.max) = Index(p) - top
            /\ Index(p) <= top => stats'.max = stats.max /\ stats'.cycles = stats.cycles
        <5>1. /\ packetIndex(p.cycle, p.seq) - packetIndex(rcv.roc, stats.max) < Half
              /\ packetIndex(rcv.roc, stats.max) - packetIndex(p.cycle, p.seq) < Half
              /\ packetIndex(rcv.roc, stats.max) = top /\ packetIndex(p.cycle, p.seq) = Index(p)
              /\ stats.max \in 0..Cycle - 1
          BY <3>0, <3>1, <3>4, <4>1, <4>2 DEF Index
        <5>2. Counts(stats', stats, p.seq, packetIndex(p.cycle, p.seq), packetIndex(rcv.roc, stats.max))
          BY <3>0, <3>1, <4>1, <4>2, <5>1, CountsNext
        <5> QED
          BY <5>1, <5>2 DEF Counts
      <4>4. log'.heard[1] = log.heard[1] /\ log.heard[1] \in Int
        BY <1>2, <3>0, <3>2, <3>4, TopIsHighest
      <4>5. CASE Index(p) > top
        <5>1. stats'.max = rcv'.last /\ top' = Index(p)
          BY <3>1, <4>3, <4>5
        <5> DEFINE h == log.heard[1]
        <5>2. h \in Int /\ log'.heard[1] = h /\ stats.cycles + stats.max - stats.base = top - h
          BY <4>1, <4>4
        <5>3. /\ stats'.cycles \in Int /\ stats.cycles \in Int /\ stats.max \in Int
              /\ stats.base \in Int /\ p.seq \in Int
          BY <3>0, <3>1, <4>3
        <5>5. stats'.max = p.seq /\ stats'.base = stats.base /\ top' = Index(p)
              /\ stats'.cycles + p.seq - (stats.cycles + stats.max) = Index(p) - top
              /\ top \in Int /\ Index(p) \in Int
          BY <3>1, <4>2, <4>3, <4>5
        <5> HIDE DEF h
        <5>4. stats'.cycles + stats'.max - stats'.base = top' - h
          BY <5>2, <5>3, <5>5
        <5> QED
          BY <4>3, <5>1, <5>2, <5>4, <3>1 DEF StatsTrue
      <4>6. CASE Index(p) <= top
        BY <3>1, <3>4, <4>1, <4>3, <4>4, <4>6 DEF StatsTrue
      <4> QED
        BY <3>1, <4>2, <4>5, <4>6
    <3> QED
      BY <3>3, <3>4
  <2>2. ASSUME Keeps PROVE StatsTrue'
    <3>1. log'.heard = log.heard
      BY <1>2, <2>2, NotHearing DEF HeardTrue, Keeps
    <3> QED
      BY <1>2, <2>2, <3>1 DEF StatsTrue, Keeps
  <2> QED
    BY <1>2, <2>1, <2>2, ReceiverSteps DEF IInv
<1> QED
  BY <1>1, <1>2

(* StreamStatistics: what it says is expected has been sent, since the     *)
(* first packet that arrived.                                              *)
LEMMA StatsExpect ==
    ASSUME IInv, HeardTrue, StatsTrue
    PROVE  ExpectedExact
<1> SUFFICES ASSUME Heard # {}
             PROVE  stats.cycles + stats.max - stats.base + 1 = Highest(Heard) - log.heard[1] + 1
  BY DEF ExpectedExact, packets_expected
<1>1. Highest(Heard) = top /\ log.heard[1] \in Nat /\ top # -1 /\ top \in Int
  BY TopIsHighest DEF IInv, StreamTypeOK, HeardTrue
<1>2. stats.cycles + stats.max - stats.base = top - log.heard[1]
  BY <1>1 DEF StatsTrue
<1> QED
  BY <1>1, <1>2

-----------------------------------------------------------------------------
(* NackHandler.                                                            *)
NackType == [est : Nat, lost : SUBSET [seq : Nat, count : Nat], gaveUp : SUBSET Nat]

(* The handler n has seen the numbers heard, of which first came first and *)
(* high is the highest.                                                    *)
NackSees(n, high, heard, first) ==
    /\ n.est = high
    /\ \A i \in N!LostNumbers(n) : i < high /\ i \notin heard
    /\ \A i \in first + 1..high : i \in heard \/ i \in N!LostNumbers(n) \/ i \in n.gaveUp

(* What is not asked for any more was given up.                            *)
GivesUp(n, m) ==
    /\ m \in NackType /\ m.est = n.est
    /\ N!LostNumbers(m) \subseteq N!LostNumbers(n)
    /\ n.gaveUp \subseteq m.gaveUp
    /\ N!LostNumbers(n) \subseteq N!LostNumbers(m) \union m.gaveUp

(* pruneLost: what it removes is given up.                                 *)
LEMMA PruneGivesUp ==
    ASSUME NEW n \in NackType
    PROVE  GivesUp(n, N!pruneLost(n))
<1> DEFINE larger(l) == {k \in n.lost : k.seq > l.seq}
           out == {l \in n.lost : N!Cardinality(larger(l)) >= LostSize}
           m == N!pruneLost(n)
<1>1. m = [n EXCEPT !.lost = @ \ out, !.gaveUp = @ \union {l.seq : l \in out}]
  BY DEF N!pruneLost
<1>2. out \subseteq n.lost
  OBVIOUS
<1> HIDE DEF m, out
<1>3. /\ n.lost \subseteq [seq : Nat, count : Nat] /\ n.gaveUp \subseteq Nat
      /\ m.lost = n.lost \ out /\ m.gaveUp = n.gaveUp \union {l.seq : l \in out} /\ m.est = n.est
  BY <1>1 DEF NackType
<1>4. m \in NackType
  <2>1. n.lost \ out \in SUBSET [seq : Nat, count : Nat]
    BY <1>3
  <2>2. n.gaveUp \union {l.seq : l \in out} \in SUBSET Nat
    <3>1. \A l \in out : l.seq \in Nat
      BY <1>2, <1>3
    <3> QED
      BY <1>3, <3>1
  <2> QED
    BY <1>1, <2>1, <2>2 DEF NackType
<1>5. ASSUME NEW i \in N!LostNumbers(n) PROVE i \in N!LostNumbers(m) \/ i \in m.gaveUp
  BY <1>3 DEF N!LostNumbers
<1>6. N!LostNumbers(m) \subseteq N!LostNumbers(n)
  BY <1>3 DEF N!LostNumbers
<1>7. GivesUp(n, m)
  BY <1>3, <1>4, <1>5, <1>6 DEF GivesUp
<1> QED
  BY <1>7 DEF m

(* updateRetryCount: what it removes is given up.                          *)
LEMMA RetryGivesUp ==
    ASSUME NEW n \in NackType
    PROVE  GivesUp(n, N!updateRetryCount(n))
<1> DEFINE over == {l \in n.lost : l.count > RetryCount}
           m == N!updateRetryCount(n)
           again(l) == [l EXCEPT !.count = @ + 1]
<1>1. m = [n EXCEPT !.lost = {again(l) : l \in @ \ over}, !.gaveUp = @ \union {l.seq : l \in over}]
  BY DEF N!updateRetryCount
<1>2. over \subseteq n.lost /\ n.lost \subseteq [seq : Nat, count : Nat] /\ n.gaveUp \subseteq Nat
  BY DEF NackType
<1>3. \A l \in n.lost : again(l) \in [seq : Nat, count : Nat] /\ again(l).seq = l.seq
  BY <1>2
<1> HIDE DEF m, over, again
<1>4. /\ m.lost = {again(l) : l \in n.lost \ over} /\ m.gaveUp = n.gaveUp \union {l.seq : l \in over}
      /\ m.est = n.est
  BY <1>1 DEF NackType
<1>5. m \in NackType
  <2>1. {again(l) : l \in n.lost \ over} \subseteq [seq : Nat, count : Nat]
    BY <1>2, <1>3
  <2>2. n.gaveUp \union {l.seq : l \in over} \subseteq Nat
    BY <1>2
  <2> QED
    BY <1>1, <2>1, <2>2 DEF NackType
<1>6. ASSUME NEW i \in N!LostNumbers(n) PROVE i \in N!LostNumbers(m) \/ i \in m.gaveUp
  <2>1. PICK l \in n.lost : l.seq = i
    BY DEF N!LostNumbers
  <2>2. CASE l \in over
    BY <1>4, <2>1, <2>2
  <2>3. CASE l \notin over
    <3>1. again(l) \in m.lost /\ again(l).seq = i
      BY <1>3, <1>4, <2>1, <2>3
    <3> QED
      BY <3>1 DEF N!LostNumbers
  <2> QED
    BY <2>2, <2>3
<1>7. N!LostNumbers(m) \subseteq N!LostNumbers(n)
  BY <1>3, <1>4 DEF N!LostNumbers
<1>8. GivesUp(n, m)
  BY <1>4, <1>5, <1>6, <1>7 DEF GivesUp
<1> QED
  BY <1>8 DEF m

(* What was seen is seen by a handler that gave some numbers up.           *)
LEMMA SeesOn ==
    ASSUME NEW n, NEW m, GivesUp(n, m), NEW high, NEW heard, NEW first, NackSees(n, high, heard, first)
    PROVE  NackSees(m, high, heard, first)
BY DEF GivesUp, NackSees

(* The handler with the numbers from next to seq - 1 asked for.            *)
Asks(n, next, seq) ==
    [n EXCEPT !.est = seq,
              !.lost = {l \in @ : l.seq \notin next..seq - 1} \union
                       {[seq |-> i, count |-> 1] : i \in next..seq - 1}]

(* a asks for what n asks for and for the numbers from next to seq - 1.    *)
AsksBeyond(a, n, next, seq) ==
    /\ a \in NackType /\ a.est = seq /\ a.gaveUp = n.gaveUp
    /\ \A i : i \in N!LostNumbers(a) <=> i \in N!LostNumbers(n) \/ i \in next..seq - 1

(* The numbers asked for are the earlier ones and the new ones.            *)
LEMMA AsksType ==
    ASSUME NEW n \in NackType, NEW next \in Nat, NEW seq \in Nat
    PROVE  AsksBeyond(Asks(n, next, seq), n, next, seq)
<1> DEFINE m == Asks(n, next, seq)
           new == {[seq |-> i, count |-> 1] : i \in next..seq - 1}
           old == {l \in n.lost : l.seq \notin next..seq - 1}
<1>1. m = [n EXCEPT !.est = seq, !.lost = old \union new]
  BY DEF Asks
<1>2. n.lost \subseteq [seq : Nat, count : Nat] /\ new \subseteq [seq : Nat, count : Nat]
  <2>1. \A i \in next..seq - 1 : i \in Nat
    OBVIOUS
  <2> QED
    BY <2>1 DEF NackType
<1>3. /\ \A x \in new : x.seq \in next..seq - 1
      /\ \A i \in next..seq - 1 : [seq |-> i, count |-> 1] \in new /\ [seq |-> i, count |-> 1].seq = i
      /\ \A x : x \in old <=> x \in n.lost /\ x.seq \notin next..seq - 1
  OBVIOUS
<1> HIDE DEF m, new, old
<1>4. m.est = seq /\ m.lost = old \union new /\ m.gaveUp = n.gaveUp
  BY <1>1 DEF NackType
<1>5. m \in NackType
  BY <1>1, <1>2, <1>3 DEF NackType
<1>6. ASSUME NEW i PROVE i \in N!LostNumbers(m) <=> i \in N!LostNumbers(n) \/ i \in next..seq - 1
  <2>1. ASSUME i \in N!LostNumbers(m) PROVE i \in N!LostNumbers(n) \/ i \in next..seq - 1
    <3>1. PICK l \in m.lost : l.seq = i
      BY <2>1 DEF N!LostNumbers
    <3> QED
      BY <1>3, <1>4, <3>1 DEF N!LostNumbers
  <2>2. ASSUME i \in next..seq - 1 PROVE i \in N!LostNumbers(m)
    <3>1. [seq |-> i, count |-> 1] \in m.lost /\ [seq |-> i, count |-> 1].seq = i
      BY <1>3, <1>4, <2>2
    <3> QED
      BY <3>1 DEF N!LostNumbers
  <2>3. ASSUME i \in N!LostNumbers(n), i \notin next..seq - 1 PROVE i \in N!LostNumbers(m)
    <3>1. PICK l \in n.lost : l.seq = i
      BY <2>3 DEF N!LostNumbers
    <3>2. l \in m.lost
      BY <1>3, <1>4, <2>3, <3>1
    <3> QED
      BY <3>1, <3>2 DEF N!LostNumbers
  <2> QED
    BY <2>1, <2>2, <2>3
<1> QED
  BY <1>4, <1>5, <1>6 DEF m, AsksBeyond

(* One more packet leaves a handler.                                       *)
LEMMA AddPacketType ==
    ASSUME NEW n \in NackType, NEW seq \in Nat
    PROVE  N!addPacket(n, seq) \in NackType
<1> DEFINE next == (n.est + 1) % Cycle
<1>1. next \in Nat
  BY SrtpAssumption DEF NackType, Cycle
<1>2. /\ [n EXCEPT !.est = seq] \in NackType
      /\ [n EXCEPT !.lost = {l \in @ : l.seq # seq}] \in NackType
  BY DEF NackType
<1>3. N!pruneLost(Asks(n, next, seq)) \in NackType
  <2>1. AsksBeyond(Asks(n, next, seq), n, next, seq)
    BY <1>1, AsksType
  <2>2. Asks(n, next, seq) \in NackType
    BY <2>1 DEF AsksBeyond
  <2>3. GivesUp(Asks(n, next, seq), N!pruneLost(Asks(n, next, seq)))
    BY <2>2, PruneGivesUp
  <2> QED
    BY <2>3 DEF GivesUp
<1>4. N!addPacket(n, seq) \in {n, [n EXCEPT !.est = seq], [n EXCEPT !.lost = {l \in @ : l.seq # seq}],
                               N!pruneLost(Asks(n, next, seq))}
  BY DEF N!addPacket, Asks
<1> QED
  BY <1>2, <1>3, <1>4

(* One more number: it is behind the highest one, next to it, or ahead.    *)
LEMMA AddPacketSees ==
    ASSUME NEW n \in NackType, NEW high \in 1..Cycle - 2, NEW heard \in SUBSET (0..high), NEW first \in Nat,
           NackSees(n, high, heard, first), NEW seq \in 0..Cycle - 1
    PROVE  NackSees(N!addPacket(n, seq), IF seq > high THEN seq ELSE high, heard \union {seq}, first)
<1> DEFINE m == N!addPacket(n, seq)
           next == (n.est + 1) % Cycle
<1>0. /\ n.est = high /\ high \in Nat /\ seq \in Nat /\ Cycle \in Nat /\ next = high + 1 /\ n.est # 0
      /\ \A i \in N!LostNumbers(n) : i < high /\ i \notin heard
      /\ \A i \in first + 1..high : i \in heard \/ i \in N!LostNumbers(n) \/ i \in n.gaveUp
      /\ N!LostNumbers(n) \subseteq Nat
  <2>1. n.est = high /\ high + 1 \in 0..Cycle - 1 /\ Cycle \in Nat \ {0}
    BY SrtpAssumption DEF NackSees, Cycle
  <2>2. (high + 1) % Cycle = high + 1
    BY <2>1
  <2>3. N!LostNumbers(n) \subseteq Nat
    BY DEF NackType, N!LostNumbers
  <2> QED
    BY <2>1, <2>2, <2>3 DEF NackSees
<1> HIDE DEF next
<1>1. CASE seq \in N!LostNumbers(n)
  <2>1. m = [n EXCEPT !.lost = {l \in @ : l.seq # seq}]
    BY <1>0, <1>1 DEF N!addPacket
  <2>2. m.est = high /\ m.lost = {l \in n.lost : l.seq # seq} /\ m.gaveUp = n.gaveUp
    BY <1>0, <2>1 DEF NackType
  <2>3. \A i : i \in N!LostNumbers(m) <=> i \in N!LostNumbers(n) /\ i # seq
    BY <2>2 DEF N!LostNumbers
  <2>4. ~(seq > high)
    BY <1>0, <1>1
  <2> HIDE DEF m
  <2>5. NackSees(m, high, heard \union {seq}, first)
    BY <1>0, <2>2, <2>3 DEF NackSees
  <2> QED
    BY <2>4, <2>5 DEF m
<1>2. CASE seq \notin N!LostNumbers(n) /\ seq = next
  <2>1. m = [n EXCEPT !.est = seq]
    BY <1>0, <1>2 DEF N!addPacket, next
  <2>2. m.est = seq /\ m.lost = n.lost /\ m.gaveUp = n.gaveUp
    BY <2>1 DEF NackType
  <2>3. N!LostNumbers(m) = N!LostNumbers(n)
    BY <2>2 DEF N!LostNumbers
  <2>4. seq > high /\ seq = high + 1
    BY <1>0, <1>2
  <2> HIDE DEF m
  <2>5. \A i \in first + 1..seq : i \in heard \union {seq} \/ i \in N!LostNumbers(n) \/ i \in n.gaveUp
    BY <1>0, <2>4
  <2>6. \A i \in N!LostNumbers(n) : i < seq /\ i \notin heard \union {seq}
    BY <1>0, <2>4
  <2>7. NackSees(m, seq, heard \union {seq}, first)
    BY <2>2, <2>3, <2>5, <2>6 DEF NackSees
  <2> QED
    BY <2>4, <2>7 DEF m
<1>3. CASE seq \notin N!LostNumbers(n) /\ seq > next
  <2> DEFINE a == Asks(n, next, seq)
  <2>1. m = N!pruneLost(a)
    BY <1>0, <1>3 DEF N!addPacket, next, Asks
  <2>2. next \in Nat
    BY <1>0
  <2>3. /\ a \in NackType /\ a.est = seq /\ a.gaveUp = n.gaveUp
        /\ \A i : i \in N!LostNumbers(a) <=> i \in N!LostNumbers(n) \/ i \in next..seq - 1
    <3>1. AsksBeyond(a, n, next, seq)
      <4>1. n \in NackType /\ next \in Nat /\ seq \in Nat
        BY <1>0, <2>2
      <4> HIDE DEF next
      <4> QED
        BY <4>1, AsksType
    <3> QED
      BY <3>1 DEF AsksBeyond
  <2>4. seq > high
    BY <1>0, <1>3
  <2> HIDE DEF a, m
  <2>5. \A i \in first + 1..seq : i \in heard \union {seq} \/ i \in N!LostNumbers(a) \/ i \in a.gaveUp
    <3> SUFFICES ASSUME NEW i \in first + 1..seq
                 PROVE  i \in heard \union {seq} \/ i \in N!LostNumbers(a) \/ i \in a.gaveUp
      OBVIOUS
    <3>1. i \in first + 1..high \/ i \in next..seq - 1 \/ i = seq
      BY <1>0, <1>3
    <3> QED
      BY <1>0, <2>3, <3>1
  <2>6. \A i \in N!LostNumbers(a) : i < seq /\ i \notin heard \union {seq}
    <3> SUFFICES ASSUME NEW i \in N!LostNumbers(a)
                 PROVE  i < seq /\ i \notin heard \union {seq}
      OBVIOUS
    <3>1. CASE i \in N!LostNumbers(n)
      BY <1>0, <2>4, <3>1
    <3>2. CASE i \in next..seq - 1
      BY <1>0, <3>2
    <3> QED
      BY <2>3, <3>1, <3>2
  <2>7. NackSees(a, seq, heard \union {seq}, first)
    BY <2>3, <2>5, <2>6 DEF NackSees
  <2>8. NackSees(m, seq, heard \union {seq}, first)
    BY <2>1, <2>3, <2>7, PruneGivesUp, SeesOn
  <2> QED
    BY <2>4, <2>8 DEF m
<1>4. CASE seq \notin N!LostNumbers(n) /\ seq < next
  <2>1. m = n
    BY <1>0, <1>4 DEF N!addPacket, next
  <2>2. ~(seq > high)
    BY <1>0, <1>4
  <2> HIDE DEF m
  <2>3. NackSees(m, high, heard \union {seq}, first)
    BY <1>0, <1>4, <2>1 DEF NackSees
  <2> QED
    BY <2>2, <2>3 DEF m
<1> QED
  BY <1>0, <1>1, <1>2, <1>3, <1>4

(* Before the numbers come round they are the indices.                     *)
LEMMA FirstCycle ==
    ASSUME IInv, NetTrue, ~Astray, pos.cycle = 0
    PROVE  /\ \A p \in net : Index(p) = p.seq /\ Index(p) \in 0..Cycle - 2
           /\ top # -1 => top \in 0..Cycle - 2
<1>0. /\ StreamTypeOK /\ SenderTrue /\ pos \in Position /\ snd \in State /\ Cycle \in Nat \ {0}
      /\ top \in Nat \union {-1}
  BY SrtpAssumption DEF IInv, StreamTypeOK, Cycle
<1>1. Index(pos) = pos.seq /\ pos.seq \in 0..Cycle - 1
  BY <1>0 DEF Index, packetIndex, Position
<1>2. Last \in Nat
  BY <1>0, IndexType DEF Last, State
<1>3. snd.started => Last < Cycle - 1
  BY <1>0, <1>1, <1>2 DEF SenderTrue, Last
<1>4. ASSUME NEW p \in net PROVE Index(p) = p.seq /\ Index(p) \in 0..Cycle - 2
  <2>1. p.cycle \in Nat /\ p.seq \in 0..Cycle - 1 /\ Index(p) \in Nat
    BY <1>0, <1>4, IndexType DEF StreamTypeOK, Index
  <2>2. Index(p) < Cycle - 1
    <3>1. Index(p) <= Last /\ snd.started
      BY <1>4 DEF NetTrue
    <3> QED
      BY <1>0, <1>2, <1>3, <2>1, <3>1
  <2>3. p.cycle * Cycle \in Nat /\ (p.cycle > 0 => p.cycle * Cycle >= Cycle)
    <3>1. CASE p.cycle = 0
      BY <1>0, <3>1
    <3>2. CASE p.cycle > 0
      <4>1. PICK d \in Nat : p.cycle = d + 1
        <5>1. p.cycle - 1 \in Nat
          BY <2>1, <3>2
        <5> QED
          BY <2>1, <5>1
      <4>2. p.cycle * Cycle = d * Cycle + Cycle /\ d * Cycle \in Nat
        BY <1>0, <4>1
      <4> QED
        BY <1>0, <4>2
    <3> QED
      BY <2>1, <3>1, <3>2
  <2>4. p.cycle = 0
    BY <1>0, <2>1, <2>2, <2>3 DEF Index, packetIndex
  <2> QED
    BY <1>0, <2>1, <2>2, <2>4 DEF Index, packetIndex
<1>5. top # -1 => top \in 0..Cycle - 2
  <2> SUFFICES ASSUME top # -1 PROVE top \in 0..Cycle - 2
    OBVIOUS
  <2>1. snd.started /\ top <= Last
    BY DEF NetTrue
  <2> QED
    BY <1>0, <1>2, <1>3, <2>1
<1> QED
  BY <1>4, <1>5

(* Until the numbers come round the handler has seen what was heard. It    *)
(* takes the number 0 for none: where that is the first one to arrive it   *)
(* forgets it.                                                             *)
NackTrue ==
    /\ nack \in NackType
    /\ top = -1 => nack.est = 0 /\ nack.lost = {}
    /\ nackEnabled /\ pos.cycle = 0 /\ top # -1 /\ log.heard[1] # 0 =>
          NackSees(nack, top, Heard, log.heard[1])

(* An accepted packet of the first cycle: handler and index advance        *)
(* together.                                                               *)
LEMMA AcceptSees ==
    ASSUME IInv, NetTrue, HeardTrue, NackTrue, ~Astray, NEW p \in net, NEW again \in BOOLEAN,
           Accepts(p, again)
    PROVE  NackTrue'
<1>0. /\ nack' = IF nackEnabled THEN N!addPacket(nack, p.seq) ELSE nack
      /\ nack \in NackType /\ top \in Nat \union {-1} /\ pos' = pos /\ nackEnabled' = nackEnabled
  BY DEF Accepts, handleRTP, NackTrue, IInv, StreamTypeOK, nackEnabled
<1>1. /\ p.seq \in 0..Cycle - 1 /\ Index(p) \in Nat /\ Cycle \in Nat
      /\ top = -1 \/ Index(p) > top => top' = Index(p)
      /\ top # -1 /\ Index(p) <= top => top' = top
  BY AcceptedNear, SrtpAssumption DEF Accepts, Cycle
<1>2. /\ Heard' = Heard \union {Index(p)}
      /\ Heard # {} => log'.heard[1] = log.heard[1]
      /\ Heard = {} => log'.heard[1] = Index(p)
      /\ Heard = {} <=> top = -1
  BY <1>1, Hearing DEF Accepts, HeardTrue
<1>3. nack' \in NackType
  BY <1>0, <1>1, AddPacketType
<1>4. top' # -1
  BY <1>0, <1>1
<1>5. ASSUME nackEnabled, pos.cycle = 0, log'.heard[1] # 0
      PROVE  NackSees(nack', top', Heard', log'.heard[1])
  <2>0. Index(p) = p.seq /\ nack' = N!addPacket(nack, p.seq)
    BY <1>0, <1>5, FirstCycle
  <2>1. CASE top = -1
    <3>1. nack.est = 0 /\ nack.lost = {}
      BY <2>1 DEF NackTrue
    <3>2. nack' = [nack EXCEPT !.est = p.seq]
      BY <2>0, <3>1 DEF N!addPacket
    <3>3. nack'.est = p.seq /\ N!LostNumbers(nack') = {}
      BY <1>0, <3>1, <3>2 DEF NackType, N!LostNumbers
    <3>4. top' = p.seq /\ Heard' = {p.seq} /\ log'.heard[1] = p.seq
      BY <1>1, <1>2, <2>0, <2>1
    <3>5. NackSees(nack', p.seq, {p.seq}, p.seq)
      BY <1>1, <3>3 DEF NackSees
    <3> QED
      BY <3>4, <3>5
  <2>2. CASE top # -1
    <3>1. log'.heard[1] = log.heard[1] /\ Heard # {}
      BY <1>2, <2>2
    <3>2. log.heard[1] \in Nat /\ log.heard[1] <= top
      BY <1>0, <3>1, TopIsHighest
    <3>3. NackSees(nack, top, Heard, log.heard[1])
      BY <1>5, <2>2, <3>1 DEF NackTrue
    <3>4. top \in 1..Cycle - 2
      <4>1. top \in 0..Cycle - 2
        BY <1>5, <2>2, FirstCycle
      <4> QED
        BY <1>1, <1>5, <3>1, <3>2, <4>1
    <3>5. Heard \in SUBSET (0..top)
      <4>1. Heard \subseteq Nat
        BY DEF Heard, HeardTrue
      <4>2. \A i \in Heard : i <= top
        BY <2>2 DEF HeardTrue
      <4> QED
        BY <3>4, <4>1, <4>2
    <3> DEFINE first == log.heard[1]
               S == Heard
    <3>6. first \in Nat /\ S \in SUBSET (0..top) /\ NackSees(nack, top, S, first)
      BY <3>2, <3>3, <3>5
    <3>7. top' = IF p.seq > top THEN p.seq ELSE top
      BY <1>0, <1>1, <2>0, <2>2
    <3> HIDE DEF first, S
    <3>8. NackSees(N!addPacket(nack, p.seq), IF p.seq > top THEN p.seq ELSE top, S \union {p.seq}, first)
      BY <1>0, <1>1, <3>4, <3>6, AddPacketSees
    <3> QED
      BY <1>2, <2>0, <3>1, <3>7, <3>8 DEF first, S
  <2> QED
    BY <2>1, <2>2
<1> QED
  BY <1>0, <1>3, <1>4, <1>5 DEF NackTrue

(* The handler keeps seeing every number between the first packet and the  *)
(* highest one.                                                            *)
LEMMA NackInductive ==
    /\ MediaInit => NackTrue
    /\ IInv /\ NetTrue /\ HeardTrue /\ NackTrue /\ ~Astray /\ [MediaNext]_vars => NackTrue'
<1>1. MediaInit => NackTrue
  BY DEF MediaInit, Init, NackTrue, NackType, N!Fresh
<1>2. ASSUME IInv, NetTrue, HeardTrue, NackTrue, ~Astray, [MediaNext]_vars, Keeps
      PROVE  NackTrue'
  <2>1. top' = top /\ log'.heard = log.heard /\ Heard' = Heard
    BY <1>2, NotHearing DEF HeardTrue, Keeps
  <2>2. nackEnabled' => nackEnabled
    BY <1>2, StepsOfStream, KindStays DEF nackEnabled, IInv
  <2>3. pos'.cycle = 0 => pos.cycle = 0
    BY <1>2, StepsOfStream, CycleGrows DEF IInv
  <2>4. CASE nack' = nack
    BY <1>2, <2>1, <2>2, <2>3, <2>4 DEF NackTrue
  <2>5. CASE nack.lost # {} /\ nack' = N!updateRetryCount(nack)
    <3>1. GivesUp(nack, nack') /\ nack' \in NackType
      BY <1>2, <2>5, RetryGivesUp DEF NackTrue, GivesUp
    <3>2. NackSees(nack, top, Heard, log.heard[1]) => NackSees(nack', top, Heard, log.heard[1])
      BY <3>1, SeesOn
    <3> QED
      BY <1>2, <2>1, <2>2, <2>3, <2>5, <3>1, <3>2 DEF NackTrue
  <2> QED
    BY <1>2, <2>4, <2>5 DEF Keeps
<1> QED
  BY <1>1, <1>2, AcceptSees, ReceiverSteps DEF IInv

(* NackHandler: each number missing is asked for or was given up.          *)
LEMMA NackAsks ==
    ASSUME IInv, HeardTrue, NackTrue, Heard # {} => log.heard[1] # 0
    PROVE  LossesAsked
<1> SUFFICES ASSUME nackEnabled, Heard # {}, pos.cycle = 0, NEW i \in log.heard[1] + 1..Highest(Heard)
             PROVE  IF i \in Heard THEN i \notin N!LostNumbers(nack)
                    ELSE i \in N!LostNumbers(nack) \union nack.gaveUp
  BY DEF LossesAsked
<1>1. Highest(Heard) = top /\ top # -1
  BY TopIsHighest DEF IInv, StreamTypeOK, HeardTrue
<1>2. NackSees(nack, top, Heard, log.heard[1])
  BY <1>1 DEF NackTrue
<1> QED
  BY <1>1, <1>2 DEF NackSees

-----------------------------------------------------------------------------
(* The transport-wide numbers: a packet is as far behind the last one in   *)
(* them as in its index, at most.                                          *)
WideTrue ==
    wide.on =>
        /\ \A p \in net : p.wide < wide.next /\ wide.next - 1 - p.wide <= Last - Index(p)
        /\ \A w \in log.wides : w \in Nat /\ w < WideStart + wide.next
        /\ log.wides = {} <=> top = -1
        /\ top # -1 => \E w \in log.wides : WideStart + wide.next - 1 - w <= Last - top

(* With this feedback no packet is sent again.                             *)
LEMMA SenderSteps ==
    ASSUME StreamTypeOK, OneFeedback, wide.on, [MediaNext]_vars
    PROVE  \/ \E gap \in Gaps, kept \in BOOLEAN : source(gap, kept)
           \/ net' \subseteq net /\ UNCHANGED <<snd, wide>>
<1> DEFINE Quiet == net' \subseteq net /\ UNCHANGED <<snd, wide>>
<1>1. ASSUME NEW seq \in asked, retransmit(seq) PROVE Quiet
  BY <1>1 DEF OneFeedback
<1>2. ASSUME NEW p \in net, NEW again \in BOOLEAN, arrive(p, again) PROVE Quiet
  BY <1>2 DEF arrive, Receive
<1>3. ASSUME NEW p \in net, lose(p) PROVE Quiet
  BY <1>3 DEF lose, Lose
<1>4. ASSUME NEW seq \in {0, Half}, damaged(seq) PROVE Quiet
  BY <1>4 DEF damaged, ReceiveDamaged
<1>5. (\E arrives \in BOOLEAN : sendNack(arrives)) \/ runTWCC \/ eol \/ UNCHANGED vars => Quiet
  BY DEF sendNack, runTWCC, eol, vars, svars
<1> HIDE DEF Quiet
<1>6. Quiet \/ \E gap \in Gaps, kept \in BOOLEAN : source(gap, kept)
  BY <1>1, <1>2, <1>3, <1>4, <1>5 DEF MediaNext
<1> QED
  BY <1>6 DEF Quiet

(* A packet of the source takes the next transport-wide number.            *)
LEMMA SourceKeepsWide ==
    ASSUME IInv, NetTrue, WideTrue, ~Astray, wide.on, NEW gap \in Gaps, NEW kept \in BOOLEAN, source(gap, kept)
    PROVE  WideTrue'
<1>a. /\ snd'.started /\ top' = top
      /\ net' = net \union {Emitted(pos)} /\ Index(Emitted(pos)) = Index(pos)
      /\ wide' = [on |-> wide.on, next |-> IF wide.on THEN wide.next + 1 ELSE wide.next]
      /\ Last' = Index(pos) /\ Index(pos) \in Nat /\ Last \in Nat
      /\ snd.started => Last < Index(pos)
  BY SourceEmits
<1>b. log' = log /\ wide.next \in Nat /\ WideStart \in Nat /\ top \in Nat \union {-1}
  BY MediaAssumption DEF source, IInv, StreamTypeOK
<1>0. /\ snd'.started /\ top' = top /\ log' = log
      /\ net' = net \union {Emitted(pos)} /\ Index(Emitted(pos)) = Index(pos)
      /\ wide' = [on |-> wide.on, next |-> IF wide.on THEN wide.next + 1 ELSE wide.next]
      /\ Last' = Index(pos) /\ Index(pos) \in Nat /\ Last \in Nat
      /\ snd.started => Last < Index(pos)
      /\ wide.next \in Nat /\ WideStart \in Nat /\ top \in Nat \union {-1}
  BY <1>a, <1>b
<1>1. wide'.on /\ wide'.next = wide.next + 1
  BY <1>0
<1>2. \A p \in net : Index(p) \in Nat /\ p.wide \in Nat
  BY IndexType DEF IInv, StreamTypeOK, Index
<1>3. ASSUME NEW p \in net'
      PROVE  p.wide < wide'.next /\ wide'.next - 1 - p.wide <= Last' - Index(p)
  <2>1. CASE p \in net
    <3>1. snd.started /\ p.wide < wide.next /\ wide.next - 1 - p.wide <= Last - Index(p)
      BY <2>1 DEF NetTrue, WideTrue
    <3> QED
      BY <1>0, <1>1, <1>2, <2>1, <3>1
  <2>2. CASE p = Emitted(pos)
    <3>1. p.wide = wide.next /\ Index(p) = Index(pos)
      BY <1>0, <2>2 DEF Emitted
    <3> QED
      BY <1>0, <1>1, <3>1
  <2> QED
    BY <1>0, <1>3, <2>1, <2>2
<1>4. ASSUME NEW w \in log'.wides
      PROVE  w \in Nat /\ w < WideStart + wide'.next
  BY <1>0, <1>1, <1>4 DEF WideTrue
<1>5. ASSUME top' # -1
      PROVE  \E w \in log'.wides : WideStart + wide'.next - 1 - w <= Last' - top'
  <2>1. PICK w \in log.wides : WideStart + wide.next - 1 - w <= Last - top
    BY <1>0, <1>5 DEF WideTrue
  <2>2. w \in Nat /\ snd.started
    BY <1>0, <1>5, <2>1 DEF WideTrue, NetTrue
  <2>3. WideStart + wide'.next - 1 - w <= Last' - top'
    BY <1>0, <1>1, <2>1, <2>2
  <2> QED
    BY <1>0, <2>1, <2>3
<1>6. \A p \in net' : Index(p)' = Index(p)
  BY DEF Index
<1>7. log'.wides = {} <=> top' = -1
  BY <1>0 DEF WideTrue
<1> QED
  BY <1>3, <1>4, <1>5, <1>7 DEF WideTrue, Index

(* The transport-wide numbers stay as near as the indices.                 *)
LEMMA WideInductive ==
    /\ MediaInit => WideTrue
    /\ IInv /\ OneFeedback /\ NetTrue /\ HeardTrue /\ WideTrue /\ ~Astray /\ [MediaNext]_vars => WideTrue'
<1>1. MediaInit => WideTrue
  BY DEF MediaInit, Init, WideTrue
<1>2. ASSUME IInv, OneFeedback, NetTrue, HeardTrue, WideTrue, ~Astray, [MediaNext]_vars, wide.on,
             net' \subseteq net, UNCHANGED <<snd, wide>>
      PROVE  WideTrue'
  <2>0. Last' = Last /\ \A p \in net' : Index(p)' = Index(p)
    BY <1>2 DEF Last, Index
  <2>1. CASE Keeps
    <3>1. top' = top /\ log'.wides = log.wides
      BY <1>2, <2>1, NotHearing DEF HeardTrue, Keeps
    <3> QED
      BY <1>2, <2>0, <3>1 DEF WideTrue, Index
  <2>2. ASSUME NEW p \in net, NEW again \in BOOLEAN, Accepts(p, again) PROVE WideTrue'
    <3>0. /\ wide.next \in Nat /\ WideStart \in Nat /\ top \in Nat \union {-1}
          /\ Last \in Nat
      BY <1>2, MediaAssumption, IndexType DEF IInv, StreamTypeOK, Last, State
    <3>1. /\ p.wide \in Nat /\ Index(p) \in Nat
          /\ top = -1 \/ Index(p) > top => top' = Index(p)
          /\ top # -1 /\ Index(p) <= top => top' = top
      BY <1>2, <2>2, AcceptedNear DEF Accepts
    <3> DEFINE w == p.wide + WideStart
    <3>2. log'.wides = log.wides \union {w}
      BY <1>2, <2>2, LogOfRTP DEF Accepts, HeardTrue
    <3>3. p.wide < wide.next /\ wide.next - 1 - p.wide <= Last - Index(p)
      BY <1>2 DEF WideTrue
    <3>4. w \in Nat /\ w < WideStart + wide.next /\ WideStart + wide.next - 1 - w <= Last - Index(p)
      BY <3>0, <3>1, <3>3
    <3> HIDE DEF w
    <3>5. \A x \in log'.wides : x \in Nat /\ x < WideStart + wide.next
      BY <1>2, <3>2, <3>4 DEF WideTrue
    <3>6. log'.wides # {} /\ top' # -1
      BY <3>0, <3>1, <3>2
    <3>7. \E x \in log'.wides : WideStart + wide.next - 1 - x <= Last - top'
      <4>1. CASE top' = Index(p)
        BY <3>2, <3>4, <4>1
      <4>2. CASE top' = top
        <5>1. PICK x \in log.wides : WideStart + wide.next - 1 - x <= Last - top
          BY <1>2, <3>6, <4>2 DEF WideTrue
        <5> QED
          BY <3>2, <4>2, <5>1
      <4> QED
        BY <3>0, <3>1, <4>1, <4>2
    <3> QED
      BY <1>2, <2>0, <3>5, <3>6, <3>7 DEF WideTrue, Index
  <2> QED
    BY <1>2, <2>1, <2>2, ReceiverSteps DEF IInv
<1>3. ASSUME IInv, OneFeedback, NetTrue, HeardTrue, WideTrue, ~Astray, [MediaNext]_vars
      PROVE  WideTrue'
  <2>1. CASE ~wide.on
    <3>1. ~wide'.on
      BY <1>3, <2>1, StepsOfStream, KindStays DEF IInv
    <3> QED
      BY <3>1 DEF WideTrue
  <2>2. CASE wide.on
    BY <1>2, <1>3, <2>2, SenderSteps, SourceKeepsWide DEF IInv
  <2> QED
    BY <2>1, <2>2
<1> QED
  BY <1>1, <1>3

(* A packet that arrives is less than MaxDelay away from the highest       *)
(* transport-wide number received.                                         *)
LEMMA WideNear ==
    ASSUME IInv, NetTrue, WideTrue, wide.on, top # -1, NEW p \in net,
           NEW h \in log.wides, \A w \in log.wides : w <= h
    PROVE  /\ h \in Nat
           /\ p.wide + WideStart - h < MaxDelay
           /\ h - (p.wide + WideStart) < MaxDelay
<1>0. /\ wide.next \in Nat /\ WideStart \in Nat /\ top \in Nat \union {-1} /\ Last \in Nat
      /\ p.wide \in Nat /\ Index(p) \in Nat /\ MaxDelay \in Nat
  BY MediaAssumption, IndexType, SrtpAssumption DEF IInv, StreamTypeOK, Last, State, Index
<1>1. h \in Nat /\ h < WideStart + wide.next
  BY DEF WideTrue
<1>2. PICK w \in log.wides : WideStart + wide.next - 1 - w <= Last - top
  BY DEF WideTrue
<1>3. w \in Nat /\ w <= h
  BY <1>2 DEF WideTrue
<1>4. p.wide < wide.next /\ wide.next - 1 - p.wide <= Last - Index(p)
  BY DEF WideTrue
<1>5. Last - top < MaxDelay /\ Last - Index(p) < MaxDelay
  BY DEF NetTrue
<1>6. p.wide + WideStart - h < MaxDelay
  <2>1. WideStart + wide.next - 1 - w < MaxDelay
    BY <1>0, <1>2, <1>3, <1>5
  <2> QED
    BY <1>0, <1>1, <1>3, <1>4, <2>1
<1>7. h - (p.wide + WideStart) < MaxDelay
  <2>1. wide.next - 1 - p.wide < MaxDelay
    BY <1>0, <1>4, <1>5
  <2> QED
    BY <1>0, <1>1, <2>1
<1> QED
  BY <1>1, <1>6, <1>7

-----------------------------------------------------------------------------
(* ReceiverTWCC: unwrapTsn.                                                *)
LEMMA Quotient ==
    ASSUME NEW a \in Int, NEW M \in Nat \ {0}
    PROVE  a % M \in 0..M - 1 /\ a \div M \in Int /\ a = M * (a \div M) + (a % M)
OBVIOUS

(* Two remainders that differ by whole cycles are the same.                *)
LEMMA Remainders ==
    ASSUME NEW M \in Nat \ {0}, NEW a \in Int, NEW b \in Int, NEW q \in Int,
           a - b < M, b - a < M, a = b + M * q
    PROVE  a = b
<1>1. -M < M * q /\ M * q < M
  OBVIOUS
<1>2. q = 0
  BY <1>1
<1> QED
  BY <1>2

(* Which numbers the last MaxBuffered + 1 packets have.                    *)
LEMMA WideBounds ==
    /\ WideMod \in Nat \ {0} /\ MaxDelay \in Nat \ {0} /\ MaxBuffered \in Nat \ {0}
    /\ MaxDelay * MaxBuffered + MaxDelay <= WideMod
    /\ 2 * MaxDelay <= WideMod
<1>1. /\ MaxDelay \in Nat \ {0} /\ WideMod \in Nat /\ MaxBuffered \in Nat \ {0}
      /\ MaxDelay * (MaxBuffered + 1) <= WideMod
  BY MediaAssumption, SrtpAssumption
<1>2. PICK d \in Nat : MaxBuffered = d + 1
  <2>1. MaxBuffered - 1 \in Nat
    BY <1>1
  <2> QED
    BY <1>1, <2>1
<1>3. /\ MaxDelay * (MaxBuffered + 1) = MaxDelay * MaxBuffered + MaxDelay
      /\ MaxDelay * MaxBuffered = MaxDelay * d + MaxDelay
      /\ MaxDelay * d \in Nat
  BY <1>1, <1>2
<1> QED
  BY <1>1, <1>3

(* The number nearest to the highest one is the true one, in cycles from   *)
(* the first one's.                                                        *)
LEMMA UnwrapsNear ==
    ASSUME NEW t, NEW high \in Nat, t.high = high, NEW w \in Nat, NEW k \in Int, NEW offset,
           offset = k * WideMod, w + offset - high < MaxDelay, high - (w + offset) < MaxDelay
    PROVE  T!unwrapTsn(t, w % WideMod) = w + offset
<1> DEFINE M == WideMod
           d == w + offset - high
           a == (w % M) - (high % M) + M
<1>0. M \in Nat \ {0} /\ MaxDelay \in Nat /\ 2 * MaxDelay <= M
  BY WideBounds
<1>1. /\ w % M \in 0..M - 1 /\ w \div M \in Int /\ w = M * (w \div M) + (w % M)
      /\ high % M \in 0..M - 1 /\ high \div M \in Int /\ high = M * (high \div M) + (high % M)
  BY <1>0, Quotient
<1>2. a \in Int
  BY <1>0, <1>1
<1>3. a % M \in 0..M - 1 /\ a \div M \in Int /\ a = M * (a \div M) + (a % M)
  <2> HIDE DEF a, M
  <2> QED
    BY <1>0, <1>2, Quotient
<1>4. offset \in Int /\ d \in Int /\ d < MaxDelay /\ -d < MaxDelay
  BY <1>0
<1>5. M \div 2 \in Int /\ 2 * (M \div 2) <= M /\ M <= 2 * (M \div 2) + 1
  BY <1>0
<1> DEFINE qw == w \div M
           qh == high \div M
           qa == a \div M
           r == a % M
           q == k + qw - qh - 1 + qa
<1>6. d = r + M * q
  <2>1. /\ qw \in Int /\ qh \in Int /\ qa \in Int /\ r \in Int /\ q \in Int
        /\ M * q = M * k + M * qw - M * qh - M + M * qa
    BY <1>0, <1>1, <1>3
  <2>2. offset = M * k
    BY <1>0
  <2> QED
    BY <1>0, <1>1, <1>3, <2>1, <2>2
<1>7. q \in Int /\ r \in 0..M - 1
  BY <1>0, <1>1, <1>3
<1>8. T!unwrapTsn(t, w % M) = IF r > M \div 2 THEN high + r - M ELSE high + r
  <2>1. high # T!NoNumber
    BY <1>0 DEF T!NoNumber
  <2> QED
    BY <2>1 DEF T!unwrapTsn
<1> HIDE DEF d, a, q, r, M
<1>9. CASE d >= 0
  <2>1. d = r
    BY <1>0, <1>4, <1>6, <1>7, <1>9, Remainders
  <2>2. ~(r > M \div 2)
    BY <1>0, <1>4, <1>5, <2>1
  <2> QED
    BY <1>0, <1>4, <1>8, <2>1, <2>2 DEF d, M
<1>10. CASE d < 0
  <2>1. d + M = r + M * (q + 1)
    BY <1>0, <1>4, <1>6, <1>7
  <2>2. d + M = r
    <3> DEFINE e == d + M
               s == q + 1
    <3>1. e \in Int /\ s \in Int /\ r \in Int /\ e - r < M /\ r - e < M /\ e = r + M * s
      BY <1>0, <1>4, <1>7, <1>10, <2>1
    <3> HIDE DEF e, s
    <3>2. e = r
      BY <1>0, <3>1, Remainders
    <3> QED
      BY <3>2 DEF e
  <2>3. r > M \div 2
    BY <1>0, <1>4, <1>5, <2>2
  <2> QED
    BY <1>0, <1>4, <1>8, <2>2, <2>3 DEF d, M
<1> QED
  BY <1>4, <1>9, <1>10

(* Only the same number has the same remainder among those less than a     *)
(* cycle away.                                                             *)
LEMMA SameWide ==
    ASSUME NEW x \in Int, NEW w \in Nat, NEW k \in Int, NEW offset, offset = k * WideMod,
           x % WideMod = w % WideMod, x - (w + offset) < WideMod, w + offset - x < WideMod
    PROVE  x = w + offset
<1> DEFINE M == WideMod
           r == w % M
           qw == w \div M
           qx == x \div M
           q == qx - qw - k
<1>0. M \in Nat \ {0}
  BY WideBounds
<1>1. r \in 0..M - 1 /\ qw \in Int /\ w = M * qw + r /\ qx \in Int /\ x = M * qx + r
  <2>1. r \in 0..M - 1 /\ qw \in Int /\ w = M * qw + r
    BY <1>0, Quotient
  <2>2. qx \in Int /\ x = M * qx + (x % M)
    BY <1>0, Quotient
  <2> QED
    BY <2>1, <2>2
<1>2. offset = M * k /\ offset \in Int
  BY <1>0
<1> HIDE DEF M, r, qw, qx
<1>3. q \in Int /\ M * q = M * qx - M * qw - M * k
  BY <1>0, <1>1
<1>4. x = (w + offset) + M * q /\ w + offset \in Int
  BY <1>0, <1>1, <1>2, <1>3
<1> HIDE DEF q
<1> QED
  BY <1>0, <1>3, <1>4, Remainders DEF M

-----------------------------------------------------------------------------
(* The generator t, when the numbers wides have arrived, reported were     *)
(* reported and late are the ones that arrived behind a report; offset is  *)
(* between the true numbers and the ones t counts with.                    *)
ReportTrue(t, wides, late, reported, offset) ==
    /\ t \in TwccType /\ IsFiniteSet(t.info)
    /\ wides \subseteq Nat /\ reported \subseteq Int /\ offset \in Int
    /\ wides = {} => t.info = {} /\ t.high = T!NoNumber /\ t.next = T!NoNumber
    /\ wides # {} => /\ \E k \in Int : offset = k * WideMod
                     /\ t.high >= 0 /\ t.high - offset \in wides
                     /\ \A w \in wides : w + offset <= t.high
    /\ \A e \in t.info : /\ e.wide \in wides /\ e.ext = e.wide + offset /\ e.ext > -MaxDelay
                         /\ t.high - e.ext <= MaxDelay * Cardinality(t.info)
    /\ t.next = T!NoNumber => reported = {}
    /\ t.next # T!NoNumber => /\ t.next - 1 - offset \in reported
                              /\ \A r \in reported : r + offset < t.next
    /\ \A w \in wides : IF t.next = T!NoNumber \/ w + offset >= t.next
                        THEN [ext |-> w + offset, wide |-> w] \in t.info
                        ELSE w \in reported \union late

(* Entries that say what has arrived.                                      *)
EntriesTrue(entries, wides, offset) ==
    \A e \in entries : e.wide \in wides /\ e.ext = e.wide + offset

(* Windows speak of integers.                                              *)
LEMMA CoveredType ==
    ASSUME NEW ws \in Windows
    PROVE  Covered(ws) \subseteq Int
<1> SUFFICES ASSUME NEW x \in Covered(ws) PROVE x \in Int
  OBVIOUS
<1>1. PICK i \in DOMAIN ws : x \in ws[i].base..ws[i].last
  BY DEF Covered
<1> DEFINE W == [base : Int, last : Int]
<1>2. ws[i] \in W
  <2>1. ws \in Seq(W)
    BY DEF Windows
  <2> HIDE DEF W
  <2> QED
    BY <1>1, <2>1
<1> QED
  BY <1>1, <1>2

(* No windows speak of nothing.                                            *)
LEMMA NothingCovered == Covered(<<>>) = {}
BY DEF Covered

(* The generator s has reported and is z then: the numbers were new and    *)
(* said to have arrived when they had.                                     *)
Reports(s, z, entries, wides, late, reported, offset) ==
    /\ ReportTrue(z, wides, late, reported \union Said(s.sent, offset), offset)
    /\ z.info = {} /\ z.sent = <<>>
    /\ ~TellsWrong(s.sent, offset, entries, wides, reported)

(* A feedback says once of every number what is true of it.                *)
LEMMA SendsTrue ==
    ASSUME NEW t, NEW wides, NEW late, NEW reported, NEW offset, ReportTrue(t, wides, late, reported, offset),
           NEW s, s = T!sendTWCC(t), NEW z, z = [s EXCEPT !.sent = <<>>],
           NEW entries, t.info \subseteq entries, EntriesTrue(entries, wides, offset)
    PROVE  Reports(s, z, entries, wides, late, reported, offset)
<1> DEFINE P == {e.ext : e \in T!Pending(t)}
           none == T!NoNumber
           said == Said(s.sent, offset)
           C == Covered(s.sent)
<1>0. /\ t \in TwccType /\ IsFiniteSet(t.info)
      /\ wides \subseteq Nat /\ reported \subseteq Int /\ offset \in Int
      /\ t.next \in Int /\ t.high \in Int /\ none \in Int /\ WideMod \in Nat \ {0}
  <2>1. /\ t \in TwccType /\ IsFiniteSet(t.info)
        /\ wides \subseteq Nat /\ reported \subseteq Int /\ offset \in Int
    BY DEF ReportTrue
  <2>2. t.next \in Int /\ t.high \in Int
    BY <2>1 DEF TwccType
  <2>3. none \in Int /\ WideMod \in Nat \ {0}
    BY WideBounds DEF T!NoNumber
  <2> QED
    BY <2>1, <2>2, <2>3
<1>1. /\ s \in TwccType /\ s.info = {} /\ s.high = t.high
      /\ P = {} => s.next = t.next /\ s.sent = <<>>
      /\ P # {} => /\ s.next - 1 \in P /\ P \subseteq C
                   /\ \A x \in C : x < s.next /\ (t.next # none => t.next <= x)
  <2> HIDE DEF P
  <2>1. P = {e.ext : e \in T!Pending(t)}
    BY DEF P
  <2>2. Sends(s, t, P)
    BY <1>0, <2>1, SendTwcc
  <2> QED
    BY <2>2 DEF Sends
<1>2. C \subseteq Int /\ s.next \in Int /\ (P = {} => C = {})
  BY <1>1, CoveredType, NothingCovered DEF TwccType
<1>3. /\ z \in TwccType /\ z.info = {} /\ z.sent = <<>> /\ z.next = s.next /\ z.high = t.high
  <2>1. <<>> \in Windows
    BY DEF Windows
  <2> QED
    BY <1>1, <2>1 DEF TwccType
<1>4. \A x : x \in said <=> x + offset \in C /\ x \in Int
  <2>1. ASSUME NEW x, x \in said PROVE x + offset \in C /\ x \in Int
    <3>1. PICK y \in C : x = y - offset
      BY <2>1 DEF Said
    <3> QED
      BY <1>0, <1>2, <3>1
  <2>2. ASSUME NEW x \in Int, x + offset \in C PROVE x \in said
    <3>1. x = (x + offset) - offset
      BY <1>0
    <3> QED
      BY <2>2, <3>1 DEF Said
  <2> QED
    BY <2>1, <2>2
<1>5. /\ \A x \in P : x \in Int /\ x > -MaxDelay /\ (t.next # none => t.next <= x)
      /\ \A w \in wides : t.next = none \/ w + offset >= t.next => w + offset \in P
  <2>1. T!Pending(t) = {e \in t.info : t.next = none \/ e.ext >= t.next}
    BY DEF T!Pending
  <2>2. ASSUME NEW e \in T!Pending(t)
        PROVE  e.ext \in Int /\ e.ext > -MaxDelay /\ (t.next # none => t.next <= e.ext)
    <3>1. e \in t.info /\ e \in [ext : Int, wide : Int]
      BY <1>0, <2>1 DEF TwccType
    <3> QED
      BY <2>1, <3>1 DEF ReportTrue
  <2>3. ASSUME NEW w \in wides, t.next = none \/ w + offset >= t.next PROVE w + offset \in P
    <3> DEFINE e == [ext |-> w + offset, wide |-> w]
    <3>1. e \in t.info
      BY <2>3 DEF ReportTrue
    <3>2. e \in T!Pending(t) /\ e.ext = w + offset
      BY <2>1, <2>3, <3>1
    <3> QED
      BY <3>2
  <2> QED
    BY <2>2, <2>3
<1>6. ~TellsWrong(s.sent, offset, entries, wides, reported)
  <2>1. said \intersect reported = {}
    <3> SUFFICES ASSUME NEW x \in said, x \in reported PROVE FALSE
      OBVIOUS
    <3>1. t.next # none /\ x + offset < t.next
      BY DEF ReportTrue
    <3>2. x + offset \in C /\ P # {}
      BY <1>2, <1>4
    <3>3. t.next <= x + offset
      BY <1>1, <3>1, <3>2
    <3> QED
      BY <1>0, <1>2, <3>1, <3>2, <3>3
  <2> DEFINE yes == {e.ext - offset : e \in entries} \intersect said
  <2>2. ASSUME NEW x \in yes PROVE x \in said \intersect wides
    <3>1. PICK e \in entries : x = e.ext - offset
      OBVIOUS
    <3>2. e.wide \in wides /\ e.ext = e.wide + offset
      BY <3>1 DEF EntriesTrue
    <3>3. x = e.wide
      BY <1>0, <3>1, <3>2
    <3> QED
      BY <3>2, <3>3
  <2>3. ASSUME NEW w \in said \intersect wides PROVE w \in yes
    <3>1. w + offset \in C /\ P # {}
      BY <1>2, <1>4
    <3>2. t.next = none \/ w + offset >= t.next
      BY <1>0, <1>1, <1>2, <3>1
    <3> DEFINE e == [ext |-> w + offset, wide |-> w]
    <3>3. e \in entries
      BY <3>2 DEF ReportTrue
    <3>4. e.ext - offset = w
      BY <1>0
    <3> QED
      BY <3>3, <3>4
  <2>4. yes = said \intersect wides
    <3> HIDE DEF yes, said
    <3> QED
      BY <2>2, <2>3
  <2> QED
    BY <2>1, <2>4 DEF TellsWrong
<1> HIDE DEF P, said, C, none
<1>7. CASE P = {}
  <2>1. s.next = t.next /\ said = {}
    BY <1>1, <1>2, <1>4, <1>7
  <2>2. ASSUME NEW w \in wides
        PROVE  z.next # none /\ ~(w + offset >= z.next) /\ w \in reported \union late
    <3>1. t.next # none /\ ~(w + offset >= t.next)
      BY <1>5, <1>7
    <3> QED
      BY <1>3, <2>1, <3>1 DEF ReportTrue, none
  <2>3. reported \union said = reported
    BY <2>1
  <2>4. wides = {} => z.high = none /\ z.next = none
    BY <1>3, <2>1 DEF ReportTrue, none
  <2>5. wides # {} => /\ \E k \in Int : offset = k * WideMod
                     /\ z.high >= 0 /\ z.high - offset \in wides
                     /\ \A w \in wides : w + offset <= z.high
    BY <1>3 DEF ReportTrue
  <2>6. /\ z.next = none => reported = {}
        /\ z.next # none => z.next - 1 - offset \in reported /\ \A r \in reported : r + offset < z.next
    BY <1>3, <2>1 DEF ReportTrue, none
  <2>7. IsFiniteSet(z.info) /\ \A e \in z.info : FALSE
    BY <1>3, FS_EmptySet
  <2>8. ReportTrue(z, wides, late, reported, offset)
    BY <1>0, <1>3, <2>2, <2>4, <2>5, <2>6, <2>7 DEF ReportTrue, none
  <2> QED
    BY <1>3, <1>6, <2>3, <2>8 DEF said, Reports
<1>8. CASE P # {}
  <2>1. s.next - 1 \in P /\ P \subseteq C /\ \A x \in C : x < s.next /\ (t.next # none => t.next <= x)
    BY <1>1, <1>8
  <2>2. s.next # none /\ (t.next # none => t.next < s.next)
    <3>1. s.next - 1 > -MaxDelay /\ (t.next # none => t.next <= s.next - 1)
      BY <1>5, <2>1
    <3>2. MaxDelay \in Nat /\ 2 * MaxDelay <= WideMod
      BY WideBounds
    <3> QED
      BY <1>0, <1>2, <3>1, <3>2 DEF none, T!NoNumber
  <2> DEFINE told == reported \union said
  <2>3. z.next - 1 - offset \in told
    <3>1. s.next - 1 \in C
      BY <2>1
    <3>2. (s.next - 1 - offset) + offset = s.next - 1 /\ s.next - 1 - offset \in Int
      BY <1>0, <1>2
    <3>3. s.next - 1 - offset \in said
      BY <1>4, <3>1, <3>2
    <3> QED
      BY <1>3, <3>3
  <2>4. ASSUME NEW r \in told PROVE r + offset < z.next /\ r \in Int
    <3>1. CASE r \in said
      BY <1>3, <1>4, <2>1, <3>1
    <3>2. CASE r \in reported
      <4>1. t.next # none /\ r + offset < t.next /\ r \in Int
        BY <1>0, <3>2 DEF ReportTrue, none
      <4> QED
        BY <1>0, <1>2, <1>3, <2>2, <4>1
    <3> QED
      BY <3>1, <3>2
  <2>5. ASSUME NEW w \in wides
        PROVE  ~(w + offset >= z.next) /\ w \in told \union late
    <3>0. w \in Int /\ w + offset \in Int
      BY <1>0
    <3>1. CASE t.next = none \/ w + offset >= t.next
      <4>1. w + offset \in C
        BY <1>5, <2>1, <3>1
      <4>2. w + offset < s.next
        BY <2>1, <4>1
      <4> QED
        BY <1>2, <1>3, <1>4, <3>0, <4>1, <4>2
    <3>2. CASE ~(t.next = none \/ w + offset >= t.next)
      <4>1. w \in reported \union late
        BY <3>2 DEF ReportTrue, none
      <4>2. w + offset < t.next /\ t.next < s.next
        BY <1>0, <2>2, <3>0, <3>2
      <4> QED
        BY <1>0, <1>2, <1>3, <3>0, <4>1, <4>2
    <3> QED
      BY <3>1, <3>2
  <2>6. wides # {}
    <3>1. P = {e.ext : e \in T!Pending(t)} /\ T!Pending(t) \subseteq t.info
      BY DEF P, T!Pending
    <3>2. t.info # {}
      BY <1>8, <3>1
    <3> QED
      BY <3>2 DEF ReportTrue
  <2>7. /\ \E k \in Int : offset = k * WideMod
        /\ z.high >= 0 /\ z.high - offset \in wides
        /\ \A w \in wides : w + offset <= z.high
    BY <1>3, <2>6 DEF ReportTrue
  <2>8. IsFiniteSet(z.info) /\ \A e \in z.info : FALSE
    BY <1>3, FS_EmptySet
  <2>9. z.next # none
    BY <1>3, <2>2
  <2>10. told \subseteq Int
    BY <2>4
  <2> HIDE DEF told
  <2>11. ReportTrue(z, wides, late, told, offset)
    BY <1>0, <1>3, <2>3, <2>4, <2>5, <2>6, <2>7, <2>8, <2>9, <2>10 DEF ReportTrue, none
  <2> QED
    BY <1>3, <1>6, <2>11 DEF told, said, Reports
<1> QED
  BY <1>7, <1>8

(* The generator with the number w noted, before it reports; with late and *)
(* offset as the log has them then.                                        *)
Notes(t, w) ==
    LET ext == T!unwrapTsn(t, w % WideMod)
    IN  [t EXCEPT !.high = IF ext > @ THEN ext ELSE @,
                  !.info = {e \in @ : e.ext % WideMod # w % WideMod} \union {[ext |-> ext, wide |-> w]},
                  !.sent = <<>>]

(* late and offset of the log when w arrives.                              *)
LateWith(late, reported, w) == IF \E r \in reported : w < r THEN late \union {w} ELSE late
OffsetWith(offset, wides, w) == IF wides = {} THEN (w % WideMod) - w ELSE offset

(* The generator t becomes u with the number w, counted from o, noted.     *)
Noted(t, wides, offset, w, o, u) ==
    /\ o \in Int /\ \E k \in Int : o = k * WideMod
    /\ wides # {} => o = offset
    /\ T!unwrapTsn(t, w % WideMod) = w + o
    /\ wides = {} => 0 <= w + o
    /\ u \in TwccType /\ u.info = t.info \union {[ext |-> w + o, wide |-> w]} /\ u.sent = <<>>
    /\ u.next = t.next /\ u.high = IF w + o > t.high THEN w + o ELSE t.high

(* Two numbers that are near the highest one are near each other.          *)
LEMMA Within ==
    ASSUME NEW x \in Int, NEW y \in Int, NEW h \in Int, NEW b \in Int, NEW d \in Nat, NEW m \in Int,
           b + d <= m, h - x <= b, x <= h, y - h < d, h - y < d
    PROVE  x - y < m /\ y - x < m
OBVIOUS

(* A number no further away than the network delays is noted as itself.    *)
LEMMA NotesEntry ==
    ASSUME NEW t, NEW wides, NEW late, NEW reported, NEW offset, ReportTrue(t, wides, late, reported, offset),
           Cardinality(t.info) <= MaxBuffered, NEW w \in Nat,
           wides # {} => w + offset - t.high < MaxDelay /\ t.high - (w + offset) < MaxDelay,
           NEW o, o = OffsetWith(offset, wides, w),
           NEW u, u = Notes(t, w)
    PROVE  Noted(t, wides, offset, w, o, u)
<1>0. /\ t \in TwccType /\ IsFiniteSet(t.info) /\ offset \in Int /\ wides \subseteq Nat
      /\ wides = {} => t.info = {} /\ t.high = T!NoNumber
      /\ wides # {} => t.high >= 0 /\ \E k \in Int : offset = k * WideMod
  BY DEF ReportTrue
<1>1. /\ t.high \in Int /\ t.info \subseteq [ext : Int, wide : Int] /\ t.next \in Int
  BY <1>0 DEF TwccType
<1>2. /\ WideMod \in Nat \ {0} /\ MaxDelay \in Nat \ {0} /\ MaxBuffered \in Nat
      /\ MaxDelay * MaxBuffered + MaxDelay <= WideMod
      /\ w % WideMod \in 0..WideMod - 1 /\ w \div WideMod \in Int
      /\ w = WideMod * (w \div WideMod) + (w % WideMod)
  <2>1. /\ WideMod \in Nat \ {0} /\ MaxDelay \in Nat \ {0} /\ MaxBuffered \in Nat
        /\ MaxDelay * MaxBuffered + MaxDelay <= WideMod
    BY WideBounds
  <2>2. /\ w % WideMod \in 0..WideMod - 1 /\ w \div WideMod \in Int
        /\ w = WideMod * (w \div WideMod) + (w % WideMod)
    BY <2>1, Quotient
  <2> QED
    BY <2>1, <2>2
<1>3. o \in Int /\ \E k \in Int : o = k * WideMod
  <2>1. CASE wides = {}
    <3> DEFINE q == w \div WideMod
               k == -q
    <3>1. o = (w % WideMod) - w
      BY <2>1 DEF OffsetWith
    <3>2. q \in Int /\ w = WideMod * q + (w % WideMod)
      BY <1>2
    <3> HIDE DEF q
    <3>3. k \in Int /\ o = k * WideMod
      BY <1>2, <3>1, <3>2
    <3> HIDE DEF k
    <3>4. o \in Int
      BY <1>2, <3>1
    <3> QED
      BY <3>3, <3>4
  <2>2. CASE wides # {}
    <3>1. o = offset
      BY <2>2 DEF OffsetWith
    <3> QED
      BY <1>0, <2>2, <3>1
  <2> QED
    BY <2>1, <2>2
<1>4. wides # {} => o = offset
  BY DEF OffsetWith
<1>5. T!unwrapTsn(t, w % WideMod) = w + o /\ (wides = {} => 0 <= w + o)
  <2>1. CASE wides = {}
    <3>1. T!unwrapTsn(t, w % WideMod) = w % WideMod
      BY <1>0, <2>1 DEF T!unwrapTsn
    <3>2. o = (w % WideMod) - w
      BY <2>1 DEF OffsetWith
    <3> QED
      BY <1>2, <3>1, <3>2
  <2>2. CASE wides # {}
    <3>1. t.high \in Nat /\ w + o - t.high < MaxDelay /\ t.high - (w + o) < MaxDelay
      BY <1>0, <1>1, <1>4, <2>2
    <3>2. PICK k \in Int : o = k * WideMod
      BY <1>3
    <3>3. T!unwrapTsn(t, w % WideMod) = w + o
      BY <3>1, <3>2, UnwrapsNear
    <3> QED
      BY <2>2, <3>3
  <2> QED
    BY <2>1, <2>2
<1> DEFINE new == [ext |-> w + o, wide |-> w]
<1>6. u = [t EXCEPT !.high = IF w + o > @ THEN w + o ELSE @,
                    !.info = {e \in @ : e.ext % WideMod # w % WideMod} \union {new},
                    !.sent = <<>>]
  BY <1>5 DEF Notes
<1>7. ASSUME NEW e \in t.info, e.ext % WideMod = w % WideMod
      PROVE  e = new
  <2>1. wides # {}
    BY <1>0, <1>7
  <2>2. /\ e.wide \in wides /\ e.ext = e.wide + o
        /\ t.high - e.ext <= MaxDelay * Cardinality(t.info)
        /\ e.wide + o <= t.high
    BY <1>4, <2>1 DEF ReportTrue
  <2>3. e \in [ext : Int, wide : Int] /\ e.ext \in Int /\ e.wide \in Int
    BY <1>1
  <2>4. Cardinality(t.info) \in Nat
    BY <1>0, FS_CardinalityType
  <2>5. /\ MaxDelay * Cardinality(t.info) <= MaxDelay * MaxBuffered
        /\ MaxDelay * Cardinality(t.info) \in Int /\ MaxDelay * MaxBuffered \in Int
    <3> DEFINE c == Cardinality(t.info)
    <3>1. PICK d \in Nat : MaxBuffered = c + d
      <4>1. MaxBuffered - c \in Nat
        BY <1>2, <2>4
      <4> QED
        BY <1>2, <2>4, <4>1
    <3> HIDE DEF c
    <3>2. c \in Nat
      BY <2>4 DEF c
    <3>3. MaxDelay * MaxBuffered = MaxDelay * c + MaxDelay * d /\ MaxDelay * d \in Nat /\ MaxDelay * c \in Nat
      BY <1>2, <3>1, <3>2
    <3>4. MaxDelay * c <= MaxDelay * MaxBuffered /\ MaxDelay * c \in Int /\ MaxDelay * MaxBuffered \in Int
      BY <3>3
    <3> QED
      BY <3>4 DEF c
  <2>6. w + o - t.high < MaxDelay /\ t.high - (w + o) < MaxDelay
    BY <1>4, <2>1
  <2>7. e.ext - (w + o) < WideMod /\ w + o - e.ext < WideMod
    <3>1. t.high - e.ext <= MaxDelay * MaxBuffered
      BY <1>1, <2>2, <2>3, <2>5
    <3>2. e.ext <= t.high
      BY <2>2
    <3> DEFINE b == MaxDelay * MaxBuffered
               y == w + o
               x == e.ext
               h == t.high
    <3>3. x \in Int /\ y \in Int /\ h \in Int /\ b \in Int
      BY <1>1, <1>3, <2>3, <2>5
    <3>4. b + MaxDelay <= WideMod /\ MaxDelay \in Nat /\ WideMod \in Int
      BY <1>2
    <3>5. h - x <= b /\ x <= h
      BY <3>1, <3>2
    <3>6. y - h < MaxDelay /\ h - y < MaxDelay
      BY <1>1, <1>3, <2>6
    <3>7. x - y < WideMod /\ y - x < WideMod
      <4> HIDE DEF b, x, y, h
      <4> QED
        BY <3>3, <3>4, <3>5, <3>6, Within
    <3> QED
      BY <1>1, <1>3, <2>3, <3>7
  <2>8. e.ext = w + o
    <3>1. PICK k \in Int : o = k * WideMod
      BY <1>3
    <3> QED
      BY <1>7, <2>3, <2>7, <3>1, SameWide
  <2>9. e.wide = w
    BY <1>3, <2>2, <2>3, <2>8
  <2> QED
    BY <2>3, <2>8, <2>9
<1>8. {e \in t.info : e.ext % WideMod # w % WideMod} \union {new} = t.info \union {new}
  <2> HIDE DEF new
  <2> QED
    BY <1>7
<1>9. new \in [ext : Int, wide : Int]
  BY <1>3
<1> HIDE DEF new
<1>10. u = [t EXCEPT !.high = IF w + o > @ THEN w + o ELSE @, !.info = t.info \union {new}, !.sent = <<>>]
  <2>1. u = [t EXCEPT !.high = IF w + o > t.high THEN w + o ELSE t.high,
                      !.info = {e \in t.info : e.ext % WideMod # w % WideMod} \union {new},
                      !.sent = <<>>]
    BY <1>6
  <2> QED
    BY <1>8, <2>1
<1>11. /\ u \in TwccType /\ u.info = t.info \union {new} /\ u.sent = <<>>
       /\ u.next = t.next /\ u.high = IF w + o > t.high THEN w + o ELSE t.high
  <2>1. <<>> \in Windows
    BY DEF Windows
  <2>2. t.info \union {new} \in SUBSET [ext : Int, wide : Int]
    BY <1>1, <1>9
  <2>3. (IF w + o > t.high THEN w + o ELSE t.high) \in Int
    BY <1>1, <1>3
  <2> QED
    BY <1>0, <1>10, <2>1, <2>2, <2>3 DEF TwccType
<1> QED
  BY <1>3, <1>4, <1>5, <1>11 DEF new, Noted

(* R, the set S with x, spans no more than MaxDelay more.                  *)
Spread(S, x, R) ==
    /\ IsFiniteSet(R)
    /\ x \notin S => MaxDelay * Cardinality(R) = MaxDelay * Cardinality(S) + MaxDelay
    /\ MaxDelay * Cardinality(S) \in Nat /\ MaxDelay * Cardinality(R) \in Nat
    /\ MaxDelay * Cardinality(R) >= MaxDelay

(* The window of numbers one feedback waits for grows by no more than      *)
(* MaxDelay with each of them.                                             *)
LEMMA SpreadGrows ==
    ASSUME NEW S, IsFiniteSet(S), NEW x, NEW R, R = S \union {x}
    PROVE  Spread(S, x, R)
<1>0. MaxDelay \in Nat \ {0}
  BY WideBounds
<1>1. /\ IsFiniteSet(R) /\ Cardinality(R) = IF x \in S THEN Cardinality(S) ELSE Cardinality(S) + 1
      /\ Cardinality(S) \in Nat /\ Cardinality(R) \in Nat
  BY FS_AddElement, FS_CardinalityType
<1> DEFINE s == Cardinality(S)
           r == Cardinality(R)
<1>2. r # 0
  <2>1. R # {}
    OBVIOUS
  <2> QED
    BY <1>1, <2>1, FS_EmptySet
<1>3. s \in Nat /\ r \in Nat \ {0} /\ (x \notin S => r = s + 1)
  BY <1>1, <1>2
<1> HIDE DEF s, r
<1>4. x \notin S => MaxDelay * r = MaxDelay * s + MaxDelay
  BY <1>0, <1>3
<1>5. MaxDelay * s \in Nat /\ MaxDelay * r \in Nat
  BY <1>0, <1>3
<1>6. MaxDelay * r >= MaxDelay
  <2>1. PICK d \in Nat : r = d + 1
    <3>1. r - 1 \in Nat
      BY <1>3
    <3> QED
      BY <1>3, <3>1
  <2>2. MaxDelay * r = MaxDelay * d + MaxDelay /\ MaxDelay * d \in Nat
    BY <1>0, <2>1
  <2> QED
    BY <1>0, <2>2
<1> QED
  BY <1>1, <1>4, <1>5, <1>6 DEF s, r, Spread

(* The generator t becomes u with the number w noted, and u is true.       *)
NotedTrue(t, wides, late, reported, w, o, u) ==
    /\ ReportTrue(u, wides \union {w}, LateWith(late, reported, w), reported, o)
    /\ u.info = t.info \union {[ext |-> w + o, wide |-> w]} /\ u.sent = <<>>
    /\ T!unwrapTsn(t, w % WideMod) = w + o
    /\ EntriesTrue(t.info \union {[ext |-> w + o, wide |-> w]}, wides \union {w}, o)

(* Noting a number keeps the generator true.                               *)
LEMMA NotesTrue ==
    ASSUME NEW t, NEW wides, NEW late, NEW reported, NEW offset, ReportTrue(t, wides, late, reported, offset),
           Cardinality(t.info) <= MaxBuffered, NEW w \in Nat,
           wides # {} => w + offset - t.high < MaxDelay /\ t.high - (w + offset) < MaxDelay,
           NEW o, o = OffsetWith(offset, wides, w),
           NEW u, u = Notes(t, w)
    PROVE  NotedTrue(t, wides, late, reported, w, o, u)
<1> DEFINE new == [ext |-> w + o, wide |-> w]
           none == T!NoNumber
<1>1. /\ o \in Int /\ \E k \in Int : o = k * WideMod
      /\ wides # {} => o = offset
      /\ T!unwrapTsn(t, w % WideMod) = w + o
      /\ wides = {} => 0 <= w + o
      /\ u \in TwccType /\ u.info = t.info \union {new} /\ u.sent = <<>>
      /\ u.next = t.next /\ u.high = IF w + o > t.high THEN w + o ELSE t.high
  <2>1. Noted(t, wides, offset, w, o, u)
    BY NotesEntry
  <2> QED
    BY <2>1 DEF Noted
<1>2. /\ t \in TwccType /\ IsFiniteSet(t.info) /\ wides \subseteq Nat /\ reported \subseteq Int
      /\ wides = {} => t.info = {} /\ t.high = none /\ t.next = none
  BY DEF ReportTrue
<1>3. /\ t.high \in Int /\ t.info \subseteq [ext : Int, wide : Int] /\ t.next \in Int
      /\ MaxDelay \in Nat \ {0} /\ WideMod \in Nat \ {0} /\ none = -WideMod
  BY <1>2, WideBounds DEF TwccType, T!NoNumber
<1>4. new.ext = w + o /\ new.wide = w
  OBVIOUS
<1>5. wides # {} => /\ t.high >= 0 /\ t.high - o \in wides /\ \A x \in wides : x + o <= t.high
                    /\ w + o - t.high < MaxDelay /\ t.high - (w + o) < MaxDelay
  BY <1>1 DEF ReportTrue
<1> HIDE DEF new, none
<1>6. /\ u.high \in Int /\ u.high >= 0 /\ u.high - o \in wides \union {w}
      /\ \A x \in wides \union {w} : x + o <= u.high
      /\ u.high - (w + o) < MaxDelay /\ w + o > -MaxDelay
      /\ wides # {} => u.high - t.high < MaxDelay
  <2>1. CASE wides = {}
    <3>1. u.high = w + o
      BY <1>1, <1>2, <1>3, <2>1
    <3> QED
      BY <1>1, <1>3, <2>1, <3>1
  <2>2. CASE wides # {} /\ w + o > t.high
    <3>1. u.high = w + o
      BY <1>1, <2>2
    <3>2. \A x \in wides : x + o <= w + o
      BY <1>1, <1>2, <1>3, <1>5, <2>2
    <3> QED
      BY <1>1, <1>3, <1>5, <2>2, <3>1, <3>2
  <2>3. CASE wides # {} /\ ~(w + o > t.high)
    <3>1. u.high = t.high
      BY <1>1, <2>3
    <3> QED
      BY <1>1, <1>3, <1>5, <2>3, <3>1
  <2> QED
    BY <2>1, <2>2, <2>3
<1>7. ASSUME NEW e \in t.info
      PROVE  /\ wides # {} /\ e.wide \in wides /\ e.ext = e.wide + o /\ e.ext > -MaxDelay /\ e.ext \in Int
             /\ t.high - e.ext <= MaxDelay * Cardinality(t.info)
  <2>1. wides # {} /\ e.ext \in Int
    BY <1>2, <1>3
  <2> QED
    BY <1>1, <2>1 DEF ReportTrue
<1>8. /\ IsFiniteSet(u.info)
      /\ new \notin t.info => MaxDelay * Cardinality(u.info) = MaxDelay * Cardinality(t.info) + MaxDelay
      /\ MaxDelay * Cardinality(t.info) \in Nat /\ MaxDelay * Cardinality(u.info) \in Nat
      /\ MaxDelay * Cardinality(u.info) >= MaxDelay
  <2>1. Spread(t.info, new, u.info)
    BY <1>1, <1>2, SpreadGrows
  <2> QED
    BY <2>1 DEF Spread
<1>9. ASSUME NEW e \in u.info
      PROVE  /\ e.wide \in wides \union {w} /\ e.ext = e.wide + o /\ e.ext > -MaxDelay
             /\ u.high - e.ext <= MaxDelay * Cardinality(u.info)
  <2>1. CASE e = new
    <3>1. /\ e.wide \in wides \union {w} /\ e.ext = e.wide + o /\ e.ext > -MaxDelay /\ e.ext = w + o
      BY <1>4, <1>6, <2>1
    <3> DEFINE b == MaxDelay * Cardinality(u.info)
    <3>2. b \in Nat /\ b >= MaxDelay
      BY <1>8
    <3> HIDE DEF b
    <3>3. u.high - e.ext < MaxDelay
      BY <1>6, <3>1
    <3>4. u.high \in Int /\ e.ext \in Int /\ MaxDelay \in Nat
      BY <1>1, <1>3, <1>6, <3>1
    <3>5. u.high - e.ext <= b
      BY <3>2, <3>3, <3>4
    <3> QED
      BY <3>1, <3>5 DEF b
  <2>2. CASE e # new /\ new \notin t.info
    <3>1. e \in t.info
      BY <1>1, <2>2
    <3>2. /\ wides # {} /\ e.wide \in wides /\ e.ext = e.wide + o /\ e.ext > -MaxDelay /\ e.ext \in Int
          /\ t.high - e.ext <= MaxDelay * Cardinality(t.info)
      BY <1>7, <3>1
    <3> QED
      BY <1>3, <1>6, <1>8, <2>2, <3>2
  <2>3. CASE e # new /\ new \in t.info
    <3>1. u.info = t.info /\ e \in t.info
      BY <1>1, <2>3
    <3>2. /\ wides # {} /\ e.wide \in wides /\ e.ext = e.wide + o /\ e.ext > -MaxDelay /\ e.ext \in Int
          /\ t.high - e.ext <= MaxDelay * Cardinality(t.info)
      BY <1>7, <3>1
    <3>3. u.high = t.high
      <4>1. w \in wides
        BY <1>4, <1>7, <2>3
      <4>2. w + o <= t.high
        BY <1>5, <4>1
      <4> QED
        BY <1>1, <1>3, <4>2
    <3> QED
      BY <3>1, <3>2, <3>3
  <2> QED
    BY <2>1, <2>2, <2>3
<1>10. /\ u.next = none => reported = {}
       /\ u.next # none => u.next - 1 - o \in reported /\ \A r \in reported : r + o < u.next
  <2>1. u.next = none => reported = {}
    BY <1>1 DEF ReportTrue, none
  <2>2. ASSUME u.next # none PROVE u.next - 1 - o \in reported /\ \A r \in reported : r + o < u.next
    <3>1. t.next # none /\ o = offset /\ u.next = t.next
      BY <1>1, <1>2, <2>2
    <3> QED
      BY <3>1 DEF ReportTrue, none
  <2> QED
    BY <2>1, <2>2
<1> DEFINE late2 == LateWith(late, reported, w)
<1>11. late \subseteq late2 /\ ((\E r \in reported : w < r) => w \in late2)
  BY DEF LateWith
<1> HIDE DEF late2
<1>12. ASSUME NEW x \in wides \union {w}
       PROVE  IF u.next = none \/ x + o >= u.next THEN [ext |-> x + o, wide |-> x] \in u.info
              ELSE x \in reported \union late2
  <2>1. CASE x = w
    <3>1. CASE u.next = none \/ x + o >= u.next
      BY <1>1, <2>1, <3>1 DEF new
    <3>2. CASE ~(u.next = none \/ x + o >= u.next)
      <4> DEFINE r == u.next - 1 - o
      <4>1. r \in reported /\ r \in Int
        BY <1>2, <1>10, <3>2
      <4>2. w <= r
        BY <1>1, <1>3, <2>1, <3>2
      <4> HIDE DEF r
      <4>3. w = r \/ w < r
        BY <4>1, <4>2
      <4> QED
        BY <1>11, <2>1, <3>2, <4>1, <4>3
    <3> QED
      BY <3>1, <3>2
  <2>2. CASE x # w
    <3>1. x \in wides /\ o = offset /\ u.next = t.next
      BY <1>1, <2>2
    <3>2. IF t.next = none \/ x + o >= t.next THEN [ext |-> x + o, wide |-> x] \in t.info
          ELSE x \in reported \union late
      BY <3>1 DEF ReportTrue, none
    <3> QED
      BY <1>1, <1>11, <3>1, <3>2
  <2> QED
    BY <2>1, <2>2
<1>13. wides \union {w} \subseteq Nat /\ wides \union {w} # {}
  BY <1>2
<1>14. ReportTrue(u, wides \union {w}, late2, reported, o)
  BY <1>1, <1>2, <1>6, <1>8, <1>9, <1>10, <1>12, <1>13 DEF ReportTrue, none
<1>15. EntriesTrue(t.info \union {new}, wides \union {w}, o)
  BY <1>1, <1>9 DEF EntriesTrue
<1> QED
  BY <1>1, <1>14, <1>15 DEF new, late2, NotedTrue

(* handleTWCC notes the number, and reports once it holds too many.        *)
LEMMA HandlesTwcc ==
    ASSUME NEW t, NEW w, NEW u, u = Notes(t, w)
    PROVE  T!handleTWCC(t, w) = IF Cardinality(u.info) > MaxBuffered THEN T!sendTWCC(u) ELSE u
BY SameCardinality DEF T!handleTWCC, Notes

(* No windows, nothing said.                                               *)
LEMMA NothingSaid ==
    ASSUME NEW offset, NEW entries, NEW wides, NEW reported
    PROVE  Said(<<>>, offset) = {} /\ ~TellsWrong(<<>>, offset, entries, wides, reported)
<1>1. Said(<<>>, offset) = {}
  BY NothingCovered DEF Said
<1> QED
  BY <1>1 DEF TellsWrong

-----------------------------------------------------------------------------
(* The transport-wide feedback: what the generator holds and what it has   *)
(* said is what has arrived.                                               *)
TwccTrue ==
    wide.on =>
        /\ ReportTrue(twcc, log.wides, log.late, log.reported, log.offset)
        /\ ~log.wrong /\ twcc.sent = <<>> /\ Cardinality(twcc.info) <= MaxBuffered

(* The generator s reported, and is z then; or it did not.                 *)
HeardOf(s, z, entries, wides, late, reported, offset) ==
    /\ ReportTrue(z, wides, late, reported \union Said(s.sent, offset), offset)
    /\ z.sent = <<>> /\ Cardinality(z.info) <= MaxBuffered
    /\ ~TellsWrong(s.sent, offset, entries, wides, reported)

(* A number is noted and, when too many are held, all of them reported.    *)
LEMMA HearsTrue ==
    ASSUME NEW t, NEW wides, NEW late, NEW reported, NEW offset, ReportTrue(t, wides, late, reported, offset),
           Cardinality(t.info) <= MaxBuffered, NEW w \in Nat,
           wides # {} => w + offset - t.high < MaxDelay /\ t.high - (w + offset) < MaxDelay,
           NEW s, s = T!handleTWCC(t, w), NEW z, z = [s EXCEPT !.sent = <<>>],
           NEW o, o = OffsetWith(offset, wides, w),
           NEW e, e = [ext |-> T!unwrapTsn(t, w % WideMod), wide |-> w]
    PROVE  HeardOf(s, z, t.info \union {e}, wides \union {w}, LateWith(late, reported, w), reported, o)
<1> DEFINE u == Notes(t, w)
           seen == wides \union {w}
           behind == LateWith(late, reported, w)
           entries == t.info \union {[ext |-> w + o, wide |-> w]}
<1>1. /\ ReportTrue(u, seen, behind, reported, o)
      /\ u.info = entries /\ u.sent = <<>>
      /\ T!unwrapTsn(t, w % WideMod) = w + o
      /\ EntriesTrue(entries, seen, o)
  <2>1. NotedTrue(t, wides, late, reported, w, o, u)
    <3> HIDE DEF u
    <3>1. u = Notes(t, w)
      BY DEF u
    <3> QED
      BY <3>1, NotesTrue
  <2> QED
    BY <2>1 DEF NotedTrue
<1>2. t.info \union {e} = entries
  BY <1>1
<1>3. s = IF Cardinality(u.info) > MaxBuffered THEN T!sendTWCC(u) ELSE u
  BY HandlesTwcc
<1>4. /\ Cardinality({}) = 0 /\ MaxBuffered \in Nat /\ Cardinality(u.info) \in Nat
      /\ u \in TwccType
  BY <1>1, WideBounds, FS_EmptySet, FS_CardinalityType DEF ReportTrue
<1> HIDE DEF u, seen, behind, entries
<1>5. CASE Cardinality(u.info) > MaxBuffered
  <2>1. s = T!sendTWCC(u)
    BY <1>3, <1>5
  <2>a. ReportTrue(u, seen, behind, reported, o) /\ EntriesTrue(entries, seen, o) /\ u.info \subseteq entries
    BY <1>1
  <2>b. z = [s EXCEPT !.sent = <<>>]
    OBVIOUS
  <2>2. Reports(s, z, entries, seen, behind, reported, o)
    BY <2>a, <2>b, <2>1, SendsTrue
  <2>3. z.info = {} /\ z.sent = <<>>
    BY <2>2 DEF Reports
  <2>4. Cardinality(z.info) <= MaxBuffered
    <3>1. Cardinality(z.info) = 0
      BY <1>4, <2>3
    <3> QED
      BY <1>4, <3>1
  <2> QED
    BY <1>2, <2>2, <2>4 DEF seen, behind, Reports, HeardOf
<1>6. CASE ~(Cardinality(u.info) > MaxBuffered)
  <2>1. s = u /\ s.sent = <<>>
    BY <1>1, <1>3, <1>6
  <2>2. z = s
    BY <1>4, <2>1 DEF TwccType
  <2>3. reported \union Said(s.sent, o) = reported /\ ~TellsWrong(s.sent, o, entries, seen, reported)
    BY <2>1, NothingSaid
  <2>4. Cardinality(z.info) <= MaxBuffered
    BY <1>4, <1>6, <2>1, <2>2
  <2>5. ReportTrue(z, seen, behind, reported \union Said(s.sent, o), o)
    BY <1>1, <2>1, <2>2, <2>3
  <2> QED
    BY <1>2, <2>1, <2>2, <2>3, <2>4, <2>5 DEF seen, behind, HeardOf
<1> QED
  BY <1>5, <1>6

(* An accepted packet.                                                     *)
LEMMA AcceptKeepsTwcc ==
    ASSUME IInv, NetTrue, HeardTrue, WideTrue, TwccTrue, wide.on,
           NEW p \in net, NEW again \in BOOLEAN, Accepts(p, again)
    PROVE  TwccTrue'
<1> DEFINE w == p.wide + WideStart
           o == OffsetWith(log.offset, log.wides, w)
           s == Hears(w)
<1>0. /\ p.wide \in Nat /\ WideStart \in Nat /\ w \in Nat /\ top \in Nat \union {-1} /\ MaxDelay \in Nat
  BY MediaAssumption, SrtpAssumption DEF IInv, StreamTypeOK
<1>1. /\ ReportTrue(twcc, log.wides, log.late, log.reported, log.offset)
      /\ ~log.wrong /\ Cardinality(twcc.info) <= MaxBuffered
      /\ twcc.high \in Int /\ log.offset \in Int
  <2>1. /\ ReportTrue(twcc, log.wides, log.late, log.reported, log.offset)
        /\ ~log.wrong /\ Cardinality(twcc.info) <= MaxBuffered
    BY DEF TwccTrue
  <2> QED
    BY <2>1 DEF ReportTrue, TwccType
<1>2. log.wides # {} => w + log.offset - twcc.high < MaxDelay /\ twcc.high - (w + log.offset) < MaxDelay
  <2> SUFFICES ASSUME log.wides # {}
               PROVE  w + log.offset - twcc.high < MaxDelay /\ twcc.high - (w + log.offset) < MaxDelay
    OBVIOUS
  <2> DEFINE h == twcc.high - log.offset
  <2>1. h \in log.wides /\ log.wides \subseteq Nat /\ \A x \in log.wides : x <= h
    BY <1>1 DEF ReportTrue
  <2>2. top # -1
    BY DEF WideTrue
  <2>3. p.wide + WideStart - h < MaxDelay /\ h - (p.wide + WideStart) < MaxDelay
    <3> HIDE DEF h
    <3> QED
      BY <2>1, <2>2, WideNear
  <2>4. p.wide + WideStart \in Int
    BY <1>0
  <2> QED
    BY <1>0, <1>1, <2>3, <2>4
<1>3. /\ log'.wides = log.wides \union {w}
      /\ log'.late = LateWith(log.late, log.reported, w)
      /\ log'.offset = o
      /\ log'.reported = log.reported \union Said(s.sent, log'.offset)
      /\ log'.wrong = (log.wrong \/ TellsWrong(s.sent, log'.offset, twcc.info \union {Entry(w)},
                                               log'.wides, log.reported))
      /\ twcc' = [s EXCEPT !.sent = <<>>]
  BY LogOfRTP DEF Accepts, HeardTrue, LateWith, OffsetWith
<1>4. s = T!handleTWCC(twcc, w) /\ Entry(w) = [ext |-> T!unwrapTsn(twcc, w % WideMod), wide |-> w]
  BY DEF Hears, Entry
<1> HIDE DEF w, o, s
<1>5. /\ ReportTrue(twcc', log.wides \union {w}, LateWith(log.late, log.reported, w),
                    log.reported \union Said(s.sent, o), o)
      /\ twcc'.sent = <<>> /\ Cardinality(twcc'.info) <= MaxBuffered
      /\ ~TellsWrong(s.sent, o, twcc.info \union {Entry(w)}, log.wides \union {w}, log.reported)
  <2>1. o = OffsetWith(log.offset, log.wides, w)
    BY DEF o
  <2>2. HeardOf(s, twcc', twcc.info \union {Entry(w)}, log.wides \union {w},
                 LateWith(log.late, log.reported, w), log.reported, o)
    BY <1>0, <1>1, <1>2, <1>3, <1>4, <2>1, HearsTrue
  <2> QED
    BY <2>2 DEF HeardOf
<1>6. ReportTrue(twcc', log'.wides, log'.late, log'.reported, log'.offset)
  BY <1>3, <1>5
<1>7. ~log'.wrong
  <2>1. ~TellsWrong(s.sent, log'.offset, twcc.info \union {Entry(w)}, log'.wides, log.reported)
    BY <1>3, <1>5
  <2> QED
    BY <1>1, <1>3, <2>1
<1> QED
  BY <1>5, <1>6, <1>7 DEF TwccTrue

(* The loop reports what is held.                                          *)
LEMMA LoopKeepsTwcc ==
    ASSUME HeardTrue, TwccTrue, wide.on, runTWCC
    PROVE  TwccTrue'
<1> DEFINE s == T!sendTWCC(twcc)
<1>1. /\ ReportTrue(twcc, log.wides, log.late, log.reported, log.offset) /\ ~log.wrong
  BY DEF TwccTrue
<1>2. twcc' = [s EXCEPT !.sent = <<>>] /\ log' = Tell(log, s, twcc.info)
  BY DEF runTWCC
<1>3. s = T!sendTWCC(twcc)
  OBVIOUS
<1>4. EntriesTrue(twcc.info, log.wides, log.offset)
  BY <1>1 DEF ReportTrue, EntriesTrue
<1> HIDE DEF s
<1>5. Told(log', log, s.sent, twcc.info)
  BY <1>2, TellFields DEF HeardTrue
<1>6. /\ log'.wides = log.wides /\ log'.late = log.late /\ log'.offset = log.offset
      /\ log'.reported = log.reported \union Said(s.sent, log.offset)
      /\ log'.wrong = (log.wrong \/ TellsWrong(s.sent, log.offset, twcc.info, log.wides, log.reported))
  BY <1>5 DEF Told
<1>7. /\ ReportTrue(twcc', log.wides, log.late, log.reported \union Said(s.sent, log.offset), log.offset)
      /\ twcc'.info = {} /\ twcc'.sent = <<>>
      /\ ~TellsWrong(s.sent, log.offset, twcc.info, log.wides, log.reported)
  <2>1. Reports(s, twcc', twcc.info, log.wides, log.late, log.reported, log.offset)
    BY <1>1, <1>2, <1>3, <1>4, SendsTrue
  <2> QED
    BY <2>1 DEF Reports
<1>8. ~log'.wrong
  BY <1>1, <1>6, <1>7
<1>9. Cardinality(twcc'.info) <= MaxBuffered
  <2>1. Cardinality({}) = 0 /\ MaxBuffered \in Nat
    BY WideBounds, FS_EmptySet
  <2> QED
    BY <1>7, <2>1
<1> QED
  BY <1>6, <1>7, <1>8, <1>9 DEF TwccTrue

(* The end of the stream does not concern it.                              *)
LEMMA EolKeeps ==
    ASSUME HeardTrue, eol
    PROVE  /\ twcc' = twcc /\ log'.wides = log.wides /\ log'.late = log.late
           /\ log'.reported = log.reported /\ log'.offset = log.offset /\ log'.wrong = log.wrong
<1>1. log' = [log EXCEPT !.played = @ \o J!endOfLife(jitter).out] /\ twcc' = twcc
  BY DEF eol
<1> QED
  BY <1>1 DEF HeardTrue, Fields

(* The feedback stays true.                                                *)
LEMMA TwccInductive ==
    /\ MediaInit => TwccTrue
    /\ IInv /\ NetTrue /\ HeardTrue /\ WideTrue /\ TwccTrue /\ [MediaNext]_vars => TwccTrue'
<1>1. MediaInit => TwccTrue
  <2> SUFFICES ASSUME MediaInit PROVE TwccTrue
    OBVIOUS
  <2>1. /\ twcc = [info |-> {}, next |-> T!NoNumber, high |-> T!NoNumber, sent |-> <<>>]
        /\ log.wides = {} /\ log.late = {} /\ log.reported = {} /\ log.offset = 0 /\ log.wrong = FALSE
    BY DEF MediaInit, T!Silent
  <2>2. T!NoNumber \in Int /\ MaxBuffered \in Nat
    BY WideBounds DEF T!NoNumber
  <2>3. <<>> \in Windows
    BY DEF Windows
  <2>4. IsFiniteSet({}) /\ Cardinality({}) = 0
    BY FS_EmptySet
  <2>5. twcc \in TwccType /\ twcc.info = {} /\ twcc.next = T!NoNumber /\ twcc.high = T!NoNumber
    BY <2>1, <2>2, <2>3 DEF TwccType
  <2>6. ReportTrue(twcc, log.wides, log.late, log.reported, log.offset)
    BY <2>1, <2>4, <2>5 DEF ReportTrue
  <2> QED
    BY <2>1, <2>2, <2>4, <2>5, <2>6 DEF TwccTrue
<1>2. ASSUME IInv, NetTrue, HeardTrue, WideTrue, TwccTrue, [MediaNext]_vars
      PROVE  TwccTrue'
  <2>0. wide'.on = wide.on
    BY <1>2, StepsOfStream, KindStays DEF IInv
  <2>1. CASE ~wide.on
    BY <2>0, <2>1 DEF TwccTrue
  <2>2. ASSUME wide.on, Keeps PROVE TwccTrue'
    <3>1. ASSUME runTWCC PROVE TwccTrue'
      BY <1>2, <2>2, <3>1, LoopKeepsTwcc
    <3>2. ASSUME eol PROVE TwccTrue'
      <4>1. /\ twcc' = twcc /\ log'.wides = log.wides /\ log'.late = log.late
            /\ log'.reported = log.reported /\ log'.offset = log.offset /\ log'.wrong = log.wrong
        BY <1>2, <3>2, EolKeeps
      <4> QED
        BY <1>2, <2>2, <4>1 DEF TwccTrue
    <3>3. ASSUME UNCHANGED <<log, twcc>> PROVE TwccTrue'
      BY <1>2, <2>2, <3>3 DEF TwccTrue
    <3> QED
      BY <2>2, <3>1, <3>2, <3>3 DEF Keeps
  <2>3. ASSUME wide.on, NEW p \in net, NEW again \in BOOLEAN, Accepts(p, again) PROVE TwccTrue'
    BY <1>2, <2>3, AcceptKeepsTwcc
  <2> QED
    BY <1>2, <2>1, <2>2, <2>3, ReceiverSteps DEF IInv
<1> QED
  BY <1>1, <1>2

(* What the generator holds and has reported is all that has arrived.      *)
LEMMA TwccExact ==
    ASSUME TwccTrue
    PROVE  FeedbackExact
<1> SUFFICES ASSUME wide.on
             PROVE  /\ ~log.wrong
                    /\ log.wides \subseteq log.reported \union log.late \union {e.wide : e \in twcc.info}
  BY DEF FeedbackExact
<1>1. ReportTrue(twcc, log.wides, log.late, log.reported, log.offset) /\ ~log.wrong
  BY DEF TwccTrue
<1>2. ASSUME NEW w \in log.wides
      PROVE  w \in log.reported \union log.late \union {e.wide : e \in twcc.info}
  <2> DEFINE e == [ext |-> w + log.offset, wide |-> w]
  <2>1. e.wide = w
    OBVIOUS
  <2>2. e \in twcc.info \/ w \in log.reported \union log.late
    BY <1>1 DEF ReportTrue
  <2> HIDE DEF e
  <2> QED
    BY <2>1, <2>2
<1> QED
  BY <1>1, <1>2

-----------------------------------------------------------------------------
(* The jitter buffer: numbers that wrap.                                   *)

(* What is left of a small sum after a whole cycle is taken away.          *)
LEMMA SmallRemainder ==
    ASSUME NEW M \in Nat \ {0}, NEW x \in 0..2 * M - 1
    PROVE  x % M = IF x < M THEN x ELSE x - M
<1> DEFINE r == x % M
           q == x \div M
<1>1. r \in 0..M - 1 /\ q \in Int /\ x = M * q + r
  BY Quotient
<1> HIDE DEF r, q
<1>2. CASE x < M
  <2>1. x = r
    BY <1>1, <1>2, Remainders
  <2> QED
    BY <1>2, <2>1 DEF r
<1>3. CASE ~(x < M)
  <2> DEFINE y == x - M
             s == q - 1
  <2>1. y \in Int /\ s \in Int /\ r \in Int /\ y - r < M /\ r - y < M /\ y = r + M * s
    BY <1>1, <1>3
  <2> HIDE DEF y, s
  <2>2. y = r
    BY <2>1, Remainders
  <2> QED
    BY <1>3, <2>2 DEF y, r
<1> QED
  BY <1>2, <1>3

(* Two numbers a and b less than a cycle apart: the difference of their    *)
(* remainders is theirs, but for a cycle.                                  *)
LEMMA Apart ==
    ASSUME NEW M \in Nat \ {0}, NEW a \in Int, NEW b \in Int, b <= a, a - b < M
    PROVE  /\ a % M \in 0..M - 1 /\ b % M \in 0..M - 1
           /\ ((a % M) - (b % M) + M) % M = a - b
           /\ (a % M) = (b % M) + (a - b) \/ (a % M) = (b % M) + (a - b) - M
<1> DEFINE ra == a % M
           rb == b % M
           qa == a \div M
           qb == b \div M
           x == ra - rb + M
           rx == x % M
           qx == x \div M
           e == a - b
           q == qx - 1 + qa - qb
<1>1. ra \in 0..M - 1 /\ qa \in Int /\ a = M * qa + ra
  BY Quotient
<1>2. rb \in 0..M - 1 /\ qb \in Int /\ b = M * qb + rb
  BY Quotient
<1>3. x \in 1..2 * M - 1
  <2> HIDE DEF ra, rb
  <2> QED
    BY <1>1, <1>2
<1>4. rx \in 0..M - 1 /\ qx \in Int /\ x = M * qx + rx
  <2> HIDE DEF x
  <2> QED
    BY <1>3, Quotient
<1>5. rx = IF x < M THEN x ELSE x - M
  <2>1. x \in 0..2 * M - 1
    BY <1>3
  <2> HIDE DEF x
  <2> QED
    BY <2>1, SmallRemainder
<1>x. x = ra - rb + M
  OBVIOUS
<1> HIDE DEF ra, rb, qa, qb, x, rx, qx
<1>6. q \in Int /\ M * q = M * qx - M + M * qa - M * qb
  BY <1>1, <1>2, <1>4
<1>7. e = rx + M * q /\ e \in Int /\ e - rx < M /\ rx - e < M
  <2>1. M * qx \in Int /\ M * qa \in Int /\ M * qb \in Int
    BY <1>1, <1>2, <1>4
  <2> HIDE DEF q
  <2> QED
    BY <1>1, <1>2, <1>4, <1>x, <1>6, <2>1
<1> HIDE DEF e, q
<1>8. e = rx
  <2>1. rx \in Int
    BY <1>4
  <2> QED
    BY <1>6, <1>7, <2>1, Remainders
<1>9. ra = rb + e \/ ra = rb + e - M
  BY <1>1, <1>2, <1>5, <1>7, <1>8, <1>x
<1> QED
  BY <1>1, <1>2, <1>8, <1>9, <1>x DEF ra, rb, e, x, rx

(* Numbers less than half a cycle apart: the serial comparison orders them *)
(* as they are ordered.                                                    *)
LEMMA NearOrder ==
    ASSUME NEW M \in Nat \ {0}, NEW H \in Nat, 2 * H <= M, NEW a \in Int, NEW b \in Int, a - b < H, b - a < H
    PROVE  /\ J!SerialGt(a % M, b % M, M) <=> a > b
           /\ J!SerialGte(a % M, b % M, M) <=> a >= b
<1> DEFINE ra == a % M
           rb == b % M
           h == M \div 2
<1>0. h \in Int /\ H <= h /\ 2 * h <= M
  OBVIOUS
<1>1. CASE b <= a
  <2>1. /\ ra \in 0..M - 1 /\ rb \in 0..M - 1
        /\ ra = rb + (a - b) \/ ra = rb + (a - b) - M
    <3>1. a - b < M
      OBVIOUS
    <3> QED
      BY <1>1, <3>1, Apart
  <2> HIDE DEF ra, rb, h
  <2>2. /\ (ra < rb /\ rb - ra > h) \/ (ra > rb /\ ra - rb < h) <=> a > b
        /\ ra = rb \/ (ra < rb /\ rb - ra > h) \/ (ra > rb /\ ra - rb < h) <=> a >= b
    BY <1>0, <1>1, <2>1
  <2> QED
    BY <2>2 DEF J!SerialGt, J!SerialGte, ra, rb, h
<1>2. CASE a < b
  <2>1. /\ ra \in 0..M - 1 /\ rb \in 0..M - 1
        /\ rb = ra + (b - a) \/ rb = ra + (b - a) - M
    <3>1. b - a < M /\ a <= b
      BY <1>2
    <3> QED
      BY <3>1, Apart
  <2> HIDE DEF ra, rb, h
  <2>2. /\ (ra < rb /\ rb - ra > h) \/ (ra > rb /\ ra - rb < h) <=> a > b
        /\ ra = rb \/ (ra < rb /\ rb - ra > h) \/ (ra > rb /\ ra - rb < h) <=> a >= b
    BY <1>0, <1>2, <2>1
  <2> QED
    BY <2>2 DEF J!SerialGt, J!SerialGte, ra, rb, h
<1> QED
  BY <1>1, <1>2

(* The remainder of a sum, when one of the two is a remainder already.     *)
LEMMA SumRemainder ==
    ASSUME NEW M \in Nat \ {0}, NEW a \in Int, NEW d \in 0..M - 1
    PROVE  ((a % M) + d) % M = (a + d) % M
<1> DEFINE ra == a % M
           x == ra + d
           s == (a + d) % M
<1>1. /\ s \in 0..M - 1 /\ ra \in 0..M - 1
      /\ s = ra + d \/ s = ra + d - M
  <2> DEFINE c == a + d
  <2>1. a \in Int /\ c \in Int /\ a <= c /\ c - a < M /\ c - a = d
    OBVIOUS
  <2> HIDE DEF c
  <2>2. /\ c % M \in 0..M - 1 /\ a % M \in 0..M - 1
        /\ (c % M) = (a % M) + (c - a) \/ (c % M) = (a % M) + (c - a) - M
    BY <2>1, Apart
  <2> QED
    BY <2>1, <2>2 DEF c
<1> HIDE DEF ra, s
<1>2. x \in 0..2 * M - 1 /\ s = IF x < M THEN x ELSE x - M
  BY <1>1
<1>3. x % M = s
  <2> HIDE DEF x
  <2> QED
    BY <1>2, SmallRemainder
<1> QED
  BY <1>3 DEF ra, s

-----------------------------------------------------------------------------
(* The jitter buffer: sequences of what is output.                         *)
Outputs == Seq([idx : Int, skipped : Int])

Indices(s) == {s[i].idx : i \in DOMAIN s}

(* s goes on behind a and ends at b: what is between two of its packets is *)
(* skipped before the second.                                              *)
Line(s, a, b) ==
    /\ s \in Outputs
    /\ \A i \in 2..Len(s) : s[i].idx = s[i - 1].idx + s[i].skipped + 1
    /\ Len(s) = 0 => b = a
    /\ Len(s) > 0 => s[1].idx = a + s[1].skipped + 1 /\ s[Len(s)].idx = b

(* Two of them that meet are one.                                          *)
LEMMA LineJoin ==
    ASSUME NEW s, NEW t, NEW a, NEW b, NEW c, Line(s, a, b), Line(t, b, c)
    PROVE  Line(s \o t, a, c) /\ Indices(s \o t) = Indices(s) \union Indices(t)
<1> DEFINE R == [idx : Int, skipped : Int]
           u == s \o t
           m == Len(s)
           n == Len(t)
<1>0. s \in Seq(R) /\ t \in Seq(R)
  BY DEF Line, Outputs
<1> HIDE DEF R
<1>1. /\ u \in Seq(R) /\ m \in Nat /\ n \in Nat /\ Len(u) = m + n
      /\ DOMAIN u = 1..m + n /\ DOMAIN s = 1..m /\ DOMAIN t = 1..n
      /\ \A i \in 1..m : u[i] = s[i]
      /\ \A i \in 1..n : u[m + i] = t[i]
  BY <1>0
<1> HIDE DEF u
<1>2. \A i \in 1..m + n : i \in 1..m \/ (i - m \in 1..n /\ u[i] = t[i - m])
  <2>1. ASSUME NEW i \in 1..m + n, i \notin 1..m PROVE i - m \in 1..n /\ u[i] = t[i - m]
    <3>1. i - m \in 1..n /\ m + (i - m) = i
      BY <1>1, <2>1
    <3> QED
      BY <1>1, <3>1
  <2> QED
    BY <2>1
<1> HIDE DEF m, n
<1>3. Indices(u) = Indices(s) \union Indices(t)
  <2>1. ASSUME NEW i \in DOMAIN u PROVE u[i].idx \in Indices(s) \union Indices(t)
    <3>1. CASE i \in 1..m
      BY <1>1, <3>1 DEF Indices
    <3>2. CASE i - m \in 1..n /\ u[i] = t[i - m]
      BY <1>1, <3>2 DEF Indices
    <3> QED
      BY <1>1, <1>2, <2>1, <3>1, <3>2
  <2>2. ASSUME NEW i \in DOMAIN s PROVE s[i].idx \in Indices(u)
    <3>1. i \in DOMAIN u /\ u[i] = s[i]
      BY <1>1
    <3> QED
      BY <3>1 DEF Indices
  <2>3. ASSUME NEW i \in DOMAIN t PROVE t[i].idx \in Indices(u)
    <3>1. m + i \in DOMAIN u /\ u[m + i] = t[i]
      BY <1>1
    <3> QED
      BY <3>1 DEF Indices
  <2>4. Indices(u) \subseteq Indices(s) \union Indices(t)
    BY <2>1 DEF Indices
  <2>5. Indices(s) \subseteq Indices(u) /\ Indices(t) \subseteq Indices(u)
    BY <2>2, <2>3 DEF Indices
  <2> QED
    BY <2>4, <2>5
<1>4. /\ \A i \in 2..m : s[i].idx = s[i - 1].idx + s[i].skipped + 1
      /\ m = 0 => b = a
      /\ m > 0 => s[1].idx = a + s[1].skipped + 1 /\ s[m].idx = b
      /\ \A i \in 2..n : t[i].idx = t[i - 1].idx + t[i].skipped + 1
      /\ n = 0 => c = b
      /\ n > 0 => t[1].idx = b + t[1].skipped + 1 /\ t[n].idx = c
  BY DEF Line, m, n
<1>5. ASSUME NEW i \in 2..m + n PROVE u[i].idx = u[i - 1].idx + u[i].skipped + 1
  <2>1. CASE i \in 1..m
    <3>1. i \in 2..m /\ u[i] = s[i] /\ u[i - 1] = s[i - 1]
      BY <1>1, <2>1
    <3> QED
      BY <1>4, <3>1
  <2>2. CASE i = m + 1
    <3>1. m \in 1..m /\ 1 \in 1..n /\ u[m] = s[m] /\ u[m + 1] = t[1] /\ i - 1 = m
      BY <1>1, <2>2
    <3> QED
      BY <1>1, <1>4, <2>2, <3>1
  <2>3. CASE i > m + 1
    <3> DEFINE k == i - m
               l == k - 1
    <3>1. k \in 2..n /\ k \in 1..n /\ l \in 1..n /\ m + k = i /\ m + l = i - 1 /\ l = k - 1
      BY <1>1, <2>3
    <3> HIDE DEF k, l
    <3>2. u[m + k] = t[k] /\ u[m + l] = t[l]
      BY <1>1, <3>1
    <3>3. u[i] = t[k] /\ u[i - 1] = t[k - 1]
      BY <3>1, <3>2
    <3> QED
      BY <1>4, <3>1, <3>3
  <2> QED
    BY <1>1, <2>1, <2>2, <2>3
<1>6. m + n = 0 => c = a
  BY <1>1, <1>4
<1>7. m + n > 0 => u[1].idx = a + u[1].skipped + 1 /\ u[m + n].idx = c
  <2>1. CASE m > 0 /\ n > 0
    <3>1. u[1] = s[1] /\ u[m + n] = t[n]
      BY <1>1, <2>1
    <3> QED
      BY <1>4, <2>1, <3>1
  <2>2. CASE m > 0 /\ n = 0
    <3>1. u[1] = s[1] /\ u[m + n] = s[m]
      BY <1>1, <2>2
    <3> QED
      BY <1>4, <2>2, <3>1
  <2>3. CASE m = 0 /\ n > 0
    <3>1. u[1] = t[1] /\ u[m + n] = t[n]
      BY <1>1, <2>3
    <3> QED
      BY <1>4, <2>3, <3>1
  <2> QED
    BY <1>1, <2>1, <2>2, <2>3
<1>8. Line(u, a, c)
  BY <1>0, <1>1, <1>5, <1>6, <1>7 DEF Line, Outputs, R
<1> QED
  BY <1>3, <1>8 DEF u

-----------------------------------------------------------------------------
(* The jitter buffer: releaseUntil.                                        *)

(* Its Cardinality, Highest and Ascending are this module's.               *)
LEMMA SameOrder ==
    \A S : /\ J!Cardinality(S) = Cardinality(S) /\ J!Highest(S) = Highest(S)
           /\ J!Ascending(S) = T!Ascending(S)
<1>1. \A S : J!Cardinality(S) = Cardinality(S)
  BY DEF J!Cardinality, Cardinality, J!IsFiniteSet, IsFiniteSet
<1>2. \A S : J!Highest(S) = Highest(S)
  BY DEF J!Highest, Highest
<1>3. \A S : J!Ascending(S) = T!Ascending(S)
  BY <1>1, SameCardinality DEF J!Ascending, T!Ascending
<1> QED
  BY <1>1, <1>2, <1>3

(* q is the n members of S in ascending order.                             *)
Sorted(q, n, S) ==
    /\ n \in Nat /\ q \in [1..n -> S]
    /\ \A i, k \in 1..n : i < k => q[i] < q[k]
    /\ \A x \in S : \E i \in 1..n : q[i] = x

(* Ascending sorts.                                                        *)
LEMMA BufferSorts ==
    ASSUME NEW S, IsFiniteSet(S), S \subseteq Int
    PROVE  Sorted(J!Ascending(S), Cardinality(S), S)
<1>1. J!Ascending(S) = T!Ascending(S)
  BY SameOrder
<1>2. Sorted(T!Ascending(S), Cardinality(S), S)
  BY AscendingSorts DEF Sorted
<1> QED
  BY <1>1, <1>2

(* Highest finds the largest member of a finite set.                       *)
LEMMA HighestIs ==
    ASSUME NEW S, IsFiniteSet(S), S \subseteq Int, S # {}
    PROVE  J!Highest(S) \in S /\ \A x \in S : x <= J!Highest(S)
<1>1. \E m \in S : \A x \in S : x <= m
  BY HasLargest
<1>2. J!Highest(S) = Highest(S)
  BY SameOrder
<1> QED
  BY <1>1, <1>2 DEF Highest

(* The packet with index h.                                                *)
Slot(h) == [seq |-> h % Cycle, ts |-> (h + TsStart) % TsMod, idx |-> h]

Slots(B) == {Slot(h) : h \in B}

Beyond(G, P) == {g \in G : g > P}

(* A buffer j that began a call at index A is at P: of the packets G it    *)
(* got, less than a cycle ahead, it has output those up to P in one line.  *)
Buffers(j, A, P, G) ==
    /\ A \in Nat /\ P \in Nat /\ A <= P /\ G \in SUBSET (A + 1..A + Cycle - 1)
    /\ P = A \/ P \in G
    /\ j = [present |-> P % Cycle, buffer |-> Slots(Beyond(G, P)), out |-> j.out, full |-> j.full]
    /\ Line(j.out, A, P) /\ Indices(j.out) = {g \in G : g <= P}

LEMMA CycleType == Cycle \in Nat \ {0} /\ Cycle = 2 * Half /\ Half \in Nat \ {0} /\ Cycle <= TsMod
BY SrtpAssumption, MediaAssumption DEF Cycle

(* The distances are the true ones.                                        *)
LEMMA TrueDistance ==
    ASSUME NEW j, NEW A, NEW P, NEW G, Buffers(j, A, P, G)
    PROVE  /\ \A g \in Beyond(G, P) : J!distance(j, Slot(g)) = g - P
           /\ J!Distances(j) = {g - P : g \in Beyond(G, P)}
           /\ \A g \in Beyond(G, P) : g \in Nat /\ g - P \in 1..Cycle - 1
           /\ IsFiniteSet(J!Distances(j)) /\ J!Distances(j) \in SUBSET (1..Cycle - 1)
<1> DEFINE D == {g - P : g \in Beyond(G, P)}
<1>0. /\ Cycle \in Nat \ {0} /\ A \in Nat /\ P \in Nat /\ A <= P /\ G \in SUBSET (A + 1..A + Cycle - 1)
      /\ j.present = P % Cycle /\ j.buffer = Slots(Beyond(G, P))
  BY CycleType DEF Buffers
<1>1. ASSUME NEW g \in Beyond(G, P) PROVE g \in Nat /\ g - P \in 1..Cycle - 1
  BY <1>0 DEF Beyond
<1>2. ASSUME NEW g \in Beyond(G, P) PROVE J!distance(j, Slot(g)) = g - P
  <2>1. g \in Int /\ P \in Int /\ P <= g /\ g - P < Cycle
    BY <1>0, <1>1
  <2>2. ((g % Cycle) - (P % Cycle) + Cycle) % Cycle = g - P
    BY <1>0, <2>1, Apart
  <2> QED
    BY <1>0, <2>2 DEF J!distance, Slot
<1>3. J!Distances(j) = {J!distance(j, Slot(g)) : g \in Beyond(G, P)}
  BY <1>0 DEF J!Distances, Slots
<1>4. J!Distances(j) = D
  BY <1>2, <1>3
<1>5. D \in SUBSET (1..Cycle - 1)
  BY <1>1
<1>6. IsFiniteSet(D)
  <2>1. IsFiniteSet(1..Cycle - 1)
    BY <1>0, FS_Interval
  <2> HIDE DEF D
  <2> QED
    BY <1>5, <2>1, FS_Subset
<1> QED
  BY <1>1, <1>2, <1>4, <1>5, <1>6

(* From P to Q: everything up to the limit is behind Q, and what is not in *)
(* G was passed over for a packet of G up to the limit.                    *)
Passes(P, Q, G, limit) ==
    /\ \A g \in G : g > P /\ g - P <= limit => g <= Q
    /\ \A i \in P + 1..Q : i \in G \/ \E g \in G : i < g /\ g > P /\ g - P <= limit

(* How far releaseUntil goes.                                              *)
Reach(D, limit) == J!Highest({0} \union {d \in D : d <= limit})
Stop(D, limit) == J!Highest({d \in Reach(D, limit)..Cycle - 1 : Reach(D, limit) + 1..d \subseteq D})

LEMMA StopsAt ==
    ASSUME NEW D \in SUBSET (1..Cycle - 1), NEW limit \in Int
    PROVE  /\ Stop(D, limit) = 0 \/ Stop(D, limit) \in D
           /\ Stop(D, limit) \in 0..Cycle - 1
           /\ \A d \in D : d <= limit => d <= Stop(D, limit)
           /\ \A i \in 1..Stop(D, limit) : i \in D \/ \E d \in D : i < d /\ d <= limit
<1> DEFINE R == {0} \union {d \in D : d <= limit}
           r == J!Highest(R)
           S == {d \in r..Cycle - 1 : r + 1..d \subseteq D}
           s == J!Highest(S)
<1>0. Cycle \in Nat \ {0} /\ IsFiniteSet(0..Cycle - 1) /\ 0..Cycle - 1 \subseteq Int
  BY CycleType, FS_Interval
<1>1. R \subseteq 0..Cycle - 1 /\ R # {}
  <2>1. \A d \in D : d \in 0..Cycle - 1
    BY <1>0
  <2>2. 0 \in 0..Cycle - 1
    BY <1>0
  <2> QED
    BY <2>1, <2>2
<1>2. r \in R /\ \A d \in R : d <= r
  <2> HIDE DEF R
  <2>1. IsFiniteSet(R) /\ R \subseteq Int
    <3> DEFINE I == 0..Cycle - 1
    <3>1. IsFiniteSet(I) /\ I \subseteq Int /\ R \subseteq I
      BY <1>0, <1>1
    <3> HIDE DEF I
    <3> QED
      BY <3>1, FS_Subset
  <2> QED
    BY <1>1, <2>1, HighestIs
<1>a. Reach(D, limit) = r /\ Stop(D, limit) = s
  BY DEF Reach, Stop
<1> HIDE DEF r
<1>3. r \in 0..Cycle - 1 /\ (r = 0 \/ (r \in D /\ r <= limit)) /\ \A d \in D : d <= limit => d <= r
  BY <1>0, <1>1, <1>2
<1>4. S \subseteq 0..Cycle - 1 /\ r \in S
  BY <1>0, <1>3
<1>5. s \in S /\ \A d \in S : d <= s
  <2> HIDE DEF S
  <2>1. IsFiniteSet(S) /\ S \subseteq Int
    <3> DEFINE I == 0..Cycle - 1
    <3>1. IsFiniteSet(I) /\ I \subseteq Int /\ S \subseteq I
      BY <1>0, <1>4
    <3> HIDE DEF I
    <3> QED
      BY <3>1, FS_Subset
  <2> QED
    BY <1>4, <2>1, HighestIs
<1> HIDE DEF s
<1>6. s \in r..Cycle - 1 /\ r + 1..s \subseteq D
  BY <1>5
<1>7. s = 0 \/ s \in D
  <2>1. CASE s = r
    BY <1>3, <2>1
  <2>2. CASE s # r
    <3>1. s \in r + 1..s
      BY <1>3, <1>6, <2>2
    <3> QED
      BY <1>6, <3>1
  <2> QED
    BY <2>1, <2>2
<1>8. ASSUME NEW i \in 1..s PROVE i \in D \/ \E d \in D : i < d /\ d <= limit
  <2>1. CASE i > r
    <3>1. i \in r + 1..s
      BY <1>3, <2>1
    <3> QED
      BY <1>6, <3>1
  <2>2. CASE i = r
    BY <1>3, <2>2
  <2>3. CASE i < r
    BY <1>3, <2>3
  <2> QED
    BY <1>3, <2>1, <2>2, <2>3
<1>9. \A d \in D : d <= limit => d <= s
  <2>1. D \subseteq Int
    OBVIOUS
  <2> QED
    BY <1>3, <1>6, <2>1
<1> QED
  BY <1>a, <1>3, <1>6, <1>7, <1>8, <1>9

(* What is output when the distances E, up to s, are gone.                 *)
Released(P, q) ==
    [i \in DOMAIN q |-> [idx |-> P + q[i], skipped |-> q[i] - (IF i = 1 THEN 0 ELSE q[i - 1]) - 1]]

LEMMA ReleasedLine ==
    ASSUME NEW P \in Nat, NEW s \in Nat, NEW E \in SUBSET (1..s), s = 0 \/ s \in E,
           NEW q, q = J!Ascending(E), NEW t, t = Released(P, q)
    PROVE  Line(t, P, P + s) /\ Indices(t) = {P + e : e \in E}
<1> DEFINE n == Cardinality(E)
           R == [idx : Int, skipped : Int]
<1>0. IsFiniteSet(E) /\ E \subseteq Int
  <2>1. IsFiniteSet(1..s)
    BY FS_Interval
  <2>2. IsFiniteSet(E)
    BY <2>1, FS_Subset
  <2> QED
    BY <2>2
<1> HIDE DEF R
<1>1. /\ n \in Nat /\ q \in [1..n -> E]
      /\ \A i, k \in 1..n : i < k => q[i] < q[k]
      /\ \A x \in E : \E i \in 1..n : q[i] = x
  <2>1. Sorted(J!Ascending(E), Cardinality(E), E)
    BY <1>0, BufferSorts
  <2> QED
    BY <2>1 DEF Sorted
<1> HIDE DEF n
<1>2. \A i \in 1..n : q[i] \in 1..s /\ q[i] \in E
  BY <1>1
<1>3. /\ DOMAIN t = 1..n
      /\ \A i \in 1..n : t[i] = [idx |-> P + q[i], skipped |-> q[i] - (IF i = 1 THEN 0 ELSE q[i - 1]) - 1]
  BY <1>1 DEF Released
<1>4. \A i \in 1..n : i # 1 => i - 1 \in 1..n /\ q[i - 1] \in Int
  BY <1>1, <1>2
<1>5. t \in Seq(R) /\ Len(t) = n
  <2>1. t \in [1..n -> R]
    <3>1. \A i \in 1..n : t[i] \in R
      BY <1>2, <1>3, <1>4 DEF R
    <3>2. t = [i \in 1..n |-> t[i]]
      BY <1>1 DEF Released
    <3> QED
      BY <3>1, <3>2
  <2> QED
    BY <1>1, <2>1
<1>6. ASSUME NEW i \in 2..Len(t) PROVE t[i].idx = t[i - 1].idx + t[i].skipped + 1
  <2>1. i \in 1..n /\ i - 1 \in 1..n /\ i # 1
    BY <1>1, <1>5
  <2>2. t[i].idx = P + q[i] /\ t[i - 1].idx = P + q[i - 1] /\ t[i].skipped = q[i] - q[i - 1] - 1
    BY <1>3, <2>1
  <2>3. q[i] \in Int /\ q[i - 1] \in Int
    BY <1>2, <2>1
  <2> QED
    BY <2>2, <2>3
<1>7. ASSUME Len(t) = 0 PROVE P + s = P
  <2>1. E = {}
    BY <1>1, <1>5, <1>7
  <2> QED
    BY <2>1
<1>8. ASSUME Len(t) > 0 PROVE t[1].idx = P + t[1].skipped + 1 /\ t[Len(t)].idx = P + s
  <2>1. 1 \in 1..n /\ n \in 1..n
    BY <1>1, <1>5, <1>8
  <2>2. t[1].idx = P + q[1] /\ t[1].skipped = q[1] - 0 - 1 /\ q[1] \in Int /\ t[n].idx = P + q[n]
    BY <1>2, <1>3, <2>1
  <2>3. s \in E
    BY <1>2, <2>1
  <2>4. PICK i \in 1..n : q[i] = s
    BY <1>1, <2>3
  <2>5. q[n] = s
    <3>1. q[n] \in 1..s
      BY <1>2, <2>1
    <3>2. i = n \/ i < n
      BY <1>1
    <3>3. i < n => q[i] < q[n]
      BY <1>1, <2>1
    <3> QED
      BY <2>4, <3>1, <3>2, <3>3
  <2> QED
    BY <1>5, <2>2, <2>5
<1>9. Indices(t) = {P + e : e \in E}
  <2>1. ASSUME NEW i \in DOMAIN t PROVE t[i].idx \in {P + e : e \in E}
    BY <1>2, <1>3
  <2>2. ASSUME NEW e \in E PROVE P + e \in Indices(t)
    <3>1. PICK i \in 1..n : q[i] = e
      BY <1>1
    <3>2. i \in DOMAIN t /\ t[i].idx = P + e
      BY <1>3, <3>1
    <3> QED
      BY <3>2 DEF Indices
  <2> QED
    BY <2>1, <2>2 DEF Indices
<1>10. Line(t, P, P + s)
  BY <1>5, <1>6, <1>7, <1>8 DEF Line, Outputs, R
<1> QED
  BY <1>9, <1>10

(* The distances it goes past.                                             *)
Upto(D, s) == {d \in D : d <= s}

Drained(k, j, P, G, q, s) ==
    k = [present |-> (P + s) % Cycle, buffer |-> Slots(Beyond(G, P + s)),
         out |-> j.out \o Released(P, q), full |-> j.full]

(* What releaseUntil does, in distances.                                   *)
LEMMA ReleaseFields ==
    ASSUME NEW j, NEW A, NEW P, NEW G, Buffers(j, A, P, G), NEW limit \in Int,
           NEW s, s = Stop(J!Distances(j), limit),
           NEW q, q = J!Ascending(Upto(J!Distances(j), s))
    PROVE  Drained(J!releaseUntil(j, limit), j, P, G, q, s)
<1> DEFINE D == J!Distances(j)
           E == {d \in D : d <= s}
           at(d) == CHOOSE p \in j.buffer : J!distance(j, p) = d
           before(i) == IF i = 1 THEN 0 ELSE q[i - 1]
           t == [i \in DOMAIN q |-> [idx |-> at(q[i]).idx, skipped |-> q[i] - before(i) - 1]]
<1>e. q = J!Ascending(E)
  BY DEF Upto
<1>0. /\ \A g \in Beyond(G, P) : J!distance(j, Slot(g)) = g - P /\ g \in Nat /\ g - P \in 1..Cycle - 1
      /\ D = {g - P : g \in Beyond(G, P)} /\ IsFiniteSet(D) /\ D \in SUBSET (1..Cycle - 1)
  BY TrueDistance
<1>1. /\ j = [present |-> P % Cycle, buffer |-> Slots(Beyond(G, P)), out |-> j.out, full |-> j.full]
      /\ j.present = P % Cycle /\ j.buffer = Slots(Beyond(G, P)) /\ P \in Nat /\ G \subseteq Nat
      /\ Cycle \in Nat \ {0}
  BY CycleType DEF Buffers
<1>2. s \in 0..Cycle - 1
  BY <1>0, StopsAt
<1>3. J!releaseUntil(j, limit) =
        [j EXCEPT !.present = (@ + s) % Cycle,
                  !.buffer = {p \in @ : J!distance(j, p) > s},
                  !.out = @ \o t]
  BY <1>e DEF J!releaseUntil, Stop, Reach
<1>4. ((P % Cycle) + s) % Cycle = (P + s) % Cycle
  BY <1>1, <1>2, SumRemainder
<1>5. {p \in j.buffer : J!distance(j, p) > s} = Slots(Beyond(G, P + s))
  <2>1. ASSUME NEW g \in Beyond(G, P) PROVE J!distance(j, Slot(g)) > s <=> g \in Beyond(G, P + s)
    <3>1. J!distance(j, Slot(g)) = g - P /\ g \in Nat /\ g \in G
      BY <1>0 DEF Beyond
    <3>2. g - P > s <=> g > P + s
      BY <1>1, <1>2, <3>1
    <3> QED
      BY <3>1, <3>2 DEF Beyond
  <2>2. Beyond(G, P + s) \subseteq Beyond(G, P)
    BY <1>1, <1>2 DEF Beyond
  <2> QED
    BY <1>1, <2>1, <2>2 DEF Slots
<1>6. t = Released(P, q)
  <2>1. ASSUME NEW d \in D PROVE at(d).idx = P + d
    <3>1. PICK g \in Beyond(G, P) : d = g - P
      BY <1>0
    <3>2. Slot(g) \in j.buffer /\ J!distance(j, Slot(g)) = d
      BY <1>0, <1>1, <3>1 DEF Slots
    <3>3. at(d) \in j.buffer /\ J!distance(j, at(d)) = d
      BY <3>2
    <3> HIDE DEF at
    <3>4. PICK h \in Beyond(G, P) : at(d) = Slot(h)
      BY <1>1, <3>3 DEF Slots
    <3>5. h - P = d /\ h \in Nat
      BY <1>0, <3>3, <3>4
    <3>6. at(d).idx = h
      BY <3>4 DEF Slot
    <3> QED
      BY <1>1, <3>5, <3>6
  <2>2. E \subseteq Int /\ IsFiniteSet(E)
    <3>1. IsFiniteSet(D) /\ D \subseteq Int /\ E \subseteq D
      BY <1>0
    <3> HIDE DEF D, E
    <3> QED
      BY <3>1, FS_Subset
  <2>3. q \in [1..Cardinality(E) -> E]
    <3> HIDE DEF E
    <3>1. Sorted(J!Ascending(E), Cardinality(E), E)
      BY <2>2, BufferSorts
    <3> QED
      BY <1>e, <3>1 DEF Sorted
  <2>4. \A i \in DOMAIN q : q[i] \in D
    BY <2>3
  <2> HIDE DEF at, D, E
  <2>5. \A i \in DOMAIN q : at(q[i]).idx = P + q[i]
    BY <2>1, <2>4
  <2> QED
    BY <2>5 DEF Released
<1> HIDE DEF t
<1>7. J!releaseUntil(j, limit) =
        [present |-> ((P % Cycle) + s) % Cycle, buffer |-> {p \in j.buffer : J!distance(j, p) > s},
         out |-> j.out \o t, full |-> j.full]
  BY <1>1, <1>3
<1> QED
  BY <1>4, <1>5, <1>6, <1>7 DEF Drained

(* releaseUntil keeps one line.                                            *)
LEMMA Releases ==
    ASSUME NEW j, NEW A, NEW P, NEW G, Buffers(j, A, P, G), NEW limit \in Int,
           NEW k, k = J!releaseUntil(j, limit)
    PROVE  \E Q \in Nat : /\ Buffers(k, A, Q, G) /\ k.full = j.full
                          /\ P <= Q /\ Passes(P, Q, G, limit)
<1> DEFINE D == J!Distances(j)
           s == Stop(D, limit)
           E == {d \in D : d <= s}
           q == J!Ascending(E)
           t == Released(P, q)
           Q == P + s
<1>0. /\ A \in Nat /\ P \in Nat /\ A <= P /\ G \in SUBSET (A + 1..A + Cycle - 1)
      /\ P = A \/ P \in G
      /\ Line(j.out, A, P) /\ Indices(j.out) = {g \in G : g <= P}
      /\ Cycle \in Nat \ {0} /\ \A g \in G : g \in Nat
  BY CycleType DEF Buffers
<1>1. /\ D = {g - P : g \in Beyond(G, P)} /\ D \in SUBSET (1..Cycle - 1)
      /\ \A g \in Beyond(G, P) : g \in Nat /\ g - P \in 1..Cycle - 1
  BY TrueDistance
<1>2. k = [present |-> Q % Cycle, buffer |-> Slots(Beyond(G, Q)), out |-> j.out \o t, full |-> j.full]
  <2>1. s = Stop(J!Distances(j), limit) /\ q = J!Ascending(Upto(J!Distances(j), s))
    BY DEF Upto
  <2>2. Buffers(j, A, P, G) /\ limit \in Int
    OBVIOUS
  <2> HIDE DEF s, q
  <2>3. Drained(J!releaseUntil(j, limit), j, P, G, q, s)
    BY <2>1, <2>2, ReleaseFields
  <2> QED
    BY <2>3 DEF Drained
<1> HIDE DEF D
<1>3. /\ s = 0 \/ s \in D
      /\ s \in 0..Cycle - 1
      /\ \A d \in D : d <= limit => d <= s
      /\ \A i \in 1..s : i \in D \/ \E d \in D : i < d /\ d <= limit
  BY <1>1, StopsAt
<1> HIDE DEF s
<1>4. Line(t, P, Q) /\ Indices(t) = {P + e : e \in E}
  <2>1. E \in SUBSET (1..s) /\ (s = 0 \/ s \in E) /\ s \in Nat
    BY <1>1, <1>3
  <2> HIDE DEF E, t, q
  <2>2. q = J!Ascending(E) /\ t = Released(P, q)
    BY DEF t, q
  <2>3. P \in Nat /\ Q = P + s
    BY <1>0
  <2> HIDE DEF Q
  <2>4. Line(t, P, P + s) /\ Indices(t) = {P + e : e \in E}
    BY <2>1, <2>2, <2>3, ReleasedLine
  <2> QED
    BY <2>3, <2>4
<1>5. Line(j.out \o t, A, Q) /\ Indices(j.out \o t) = Indices(j.out) \union Indices(t)
  <2> HIDE DEF t
  <2> QED
    BY <1>0, <1>4, LineJoin
<1>6. \A d \in Int : d \in D <=> P + d \in Beyond(G, P)
  <2>1. ASSUME NEW d \in Int, d \in D PROVE P + d \in Beyond(G, P)
    <3>1. PICK g \in Beyond(G, P) : d = g - P
      BY <1>1, <2>1
    <3>2. P + d = g
      BY <1>0, <1>1, <3>1
    <3> QED
      BY <3>1, <3>2
  <2>2. ASSUME NEW d \in Int, P + d \in Beyond(G, P) PROVE d \in D
    <3>1. (P + d) - P = d
      BY <1>0
    <3> QED
      BY <1>1, <2>2, <3>1
  <2> QED
    BY <2>1, <2>2
<1>7. Q \in Nat /\ P <= Q /\ A <= Q
  BY <1>0, <1>3
<1>8. Q = P \/ Q \in G
  <2>1. s = 0 => Q = P
    BY <1>0
  <2>2. s \in D => P + s \in Beyond(G, P)
    BY <1>3, <1>6
  <2> QED
    BY <1>3, <2>1, <2>2 DEF Beyond
<1>9. Indices(j.out) \union Indices(t) = {g \in G : g <= Q}
  <2> HIDE DEF t
  <2>1. ASSUME NEW g \in G, g <= Q PROVE g \in {h \in G : h <= P} \union {P + e : e \in E}
    <3>1. CASE g <= P
      BY <3>1
    <3>2. CASE ~(g <= P)
      <4> DEFINE e == g - P
      <4>1. e \in Int /\ P + e = g /\ g \in Beyond(G, P) /\ e <= s
        BY <1>0, <1>3, <2>1, <3>2 DEF Beyond
      <4> HIDE DEF e
      <4>2. e \in E
        BY <1>6, <4>1
      <4> QED
        BY <4>1, <4>2
    <3> QED
      BY <3>1, <3>2
  <2>2. ASSUME NEW e \in E PROVE P + e \in G /\ P + e <= Q
    <3>1. e \in Int /\ P + e \in Beyond(G, P) /\ e <= s
      BY <1>1, <1>6
    <3> QED
      BY <1>0, <1>3, <3>1 DEF Beyond
  <2>3. \A g \in G : g <= P => g <= Q
    BY <1>0, <1>7
  <2> HIDE DEF E, Q
  <2>4. {h \in G : h <= P} \union {P + e : e \in E} = {g \in G : g <= Q}
    BY <2>1, <2>2, <2>3
  <2> QED
    BY <1>0, <1>4, <2>4
<1>10. ASSUME NEW g \in G, g > P, g - P <= limit PROVE g <= Q
  <2> DEFINE d == g - P
  <2>1. d \in Int /\ P + d = g /\ g \in Beyond(G, P) /\ d <= limit
    BY <1>0, <1>10 DEF Beyond
  <2> HIDE DEF d
  <2>2. d <= s
    BY <1>3, <1>6, <2>1
  <2> QED
    BY <1>0, <1>3, <2>1, <2>2
<1>11. ASSUME NEW i \in P + 1..Q PROVE i \in G \/ \E g \in G : i < g /\ g > P /\ g - P <= limit
  <2> DEFINE d == i - P
  <2>1. d \in 1..s /\ P + d = i
    BY <1>0, <1>3
  <2> HIDE DEF d
  <2>2. CASE d \in D
    BY <1>6, <2>1, <2>2 DEF Beyond
  <2>3. CASE \E e \in D : d < e /\ e <= limit
    <3>1. PICK e \in D : d < e /\ e <= limit
      BY <2>3
    <3>2. e \in Int /\ P + e \in Beyond(G, P)
      BY <1>1, <1>6, <3>1
    <3> DEFINE g == P + e
    <3>3. g \in G /\ i < g /\ g > P /\ g - P <= limit
      BY <1>0, <2>1, <3>1, <3>2 DEF Beyond
    <3> HIDE DEF g
    <3> QED
      BY <3>3
  <2> QED
    BY <1>3, <2>1, <2>2, <2>3
<1> HIDE DEF t, Q
<1>12. /\ k.present = Q % Cycle /\ k.buffer = Slots(Beyond(G, Q)) /\ k.out = j.out \o t /\ k.full = j.full
       /\ k = [present |-> Q % Cycle, buffer |-> Slots(Beyond(G, Q)), out |-> k.out, full |-> k.full]
  BY <1>2
<1>13. Passes(P, Q, G, limit)
  BY <1>10, <1>11 DEF Passes
<1>14. Line(k.out, A, Q) /\ Indices(k.out) = {g \in G : g <= Q}
  BY <1>5, <1>9, <1>12
<1>15. Buffers(k, A, Q, G)
  BY <1>0, <1>7, <1>8, <1>12, <1>14 DEF Buffers
<1> QED
  BY <1>7, <1>12, <1>13, <1>15

-----------------------------------------------------------------------------
(* The jitter buffer: timeout and overflow.                                *)

(* From P to Q at a packet x: every packet that is more than the latency   *)
(* behind x is out, and what was passed over is that far behind.           *)
Expires(P, Q, G, x) ==
    /\ \A g \in G : x - g > Latency => g <= Q
    /\ \A i \in P + 1..Q : i \in G \/ x - i > Latency

(* findLatestTimeoutSeqNum finds the packets more than the latency behind. *)
LEMMA TimedOutIs ==
    ASSUME NEW j, NEW A, NEW P, NEW G, Buffers(j, A, P, G), NEW x \in Nat,
           \A g \in G : x - g < Half /\ g - x < Half
    PROVE  J!TimedOut(j, (x + TsStart) % TsMod) = {g - P : g \in {h \in Beyond(G, P) : x - h > Latency}}
<1> DEFINE ts == (x + TsStart) % TsMod
           Out(p) == ~J!SerialGt(p.ts, ts, TsMod) /\ (ts - p.ts + TsMod) % TsMod > Latency
<1>0. /\ TsMod \in Nat \ {0} /\ 2 * Half <= TsMod /\ TsStart \in Nat /\ Half \in Nat /\ Latency \in Nat
      /\ j.buffer = Slots(Beyond(G, P)) /\ \A g \in Beyond(G, P) : g \in Nat
  BY CycleType, MediaAssumption, TrueDistance DEF Buffers
<1>1. ASSUME NEW g \in Beyond(G, P) PROVE Out(Slot(g)) <=> x - g > Latency
  <2>1. g \in Nat /\ g \in G /\ x - g < Half /\ g - x < Half
    BY <1>0 DEF Beyond
  <2> DEFINE a == g + TsStart
             b == x + TsStart
  <2>2. a \in Int /\ b \in Int /\ a - b < Half /\ b - a < Half /\ b - a = x - g
    BY <1>0, <2>1
  <2>3. Slot(g).ts = a % TsMod /\ ts = b % TsMod
    BY DEF Slot
  <2> HIDE DEF a, b, ts
  <2>4. J!SerialGt(a % TsMod, b % TsMod, TsMod) <=> a > b
    BY <1>0, <2>2, NearOrder
  <2>5. a <= b => ((b % TsMod) - (a % TsMod) + TsMod) % TsMod = b - a
    <3> SUFFICES ASSUME a <= b PROVE ((b % TsMod) - (a % TsMod) + TsMod) % TsMod = b - a
      OBVIOUS
    <3>1. b - a < TsMod
      BY <1>0, <2>2
    <3> QED
      BY <1>0, <2>2, <3>1, Apart
  <2>6. CASE a <= b
    BY <2>2, <2>3, <2>4, <2>5, <2>6
  <2>7. CASE ~(a <= b)
    <3>1. J!SerialGt(a % TsMod, b % TsMod, TsMod)
      BY <2>2, <2>4, <2>7
    <3>2. ~(x - g > Latency)
      BY <1>0, <2>1, <2>2, <2>7
    <3> QED
      BY <2>3, <3>1, <3>2
  <2> QED
    BY <2>6, <2>7
<1>2. J!TimedOut(j, ts) = {J!distance(j, p) : p \in {q \in j.buffer : Out(q)}}
  BY DEF J!TimedOut
<1> HIDE DEF Out, ts
<1>3. {q \in j.buffer : Out(q)} = {Slot(g) : g \in {h \in Beyond(G, P) : x - h > Latency}}
  BY <1>0, <1>1 DEF Slots
<1>4. \A g \in Beyond(G, P) : J!distance(j, Slot(g)) = g - P
  BY TrueDistance
<1>5. J!TimedOut(j, ts) = {g - P : g \in {h \in Beyond(G, P) : x - h > Latency}}
  BY <1>2, <1>3, <1>4
<1> QED
  BY <1>5 DEF ts

(* A packet releases what is more than the latency behind it.              *)
LEMMA TimesOut ==
    ASSUME NEW j, NEW A, NEW P, NEW G, Buffers(j, A, P, G), NEW x \in Nat,
           \A g \in G : x - g < Half /\ g - x < Half,
           NEW k, k = J!timeout(j, (x + TsStart) % TsMod)
    PROVE  \E Q \in Nat : Buffers(k, A, Q, G) /\ k.full = j.full /\ P <= Q /\ Expires(P, Q, G, x)
<1> DEFINE far == J!TimedOut(j, (x + TsStart) % TsMod)
<1>0. P \in Nat /\ \A g \in G : g \in Nat
  BY CycleType DEF Buffers
<1>1. far = {g - P : g \in {h \in Beyond(G, P) : x - h > Latency}}
  BY TimedOutIs
<1>2. k = IF far = {} THEN j ELSE J!releaseUntil(j, J!Highest(far))
  BY DEF J!timeout
<1> HIDE DEF far
<1>3. CASE far = {}
  <2>1. \A g \in G : x - g > Latency => g <= P
    BY <1>0, <1>1, <1>3 DEF Beyond
  <2>2. P + 1..P = {}
    BY <1>0
  <2>3. Expires(P, P, G, x)
    BY <2>1, <2>2 DEF Expires
  <2> QED
    BY <1>0, <1>2, <1>3, <2>3
<1>4. CASE far # {}
  <2> DEFINE f == J!Highest(far)
  <2>1. IsFiniteSet(far) /\ far \subseteq Int
    <3>1. far \subseteq J!Distances(j) /\ IsFiniteSet(J!Distances(j)) /\ J!Distances(j) \in SUBSET (1..Cycle - 1)
      BY <1>1, TrueDistance
    <3>2. IsFiniteSet(far)
      BY <3>1, FS_Subset
    <3> QED
      BY <3>1, <3>2
  <2>2. f \in far /\ \A d \in far : d <= f
    BY <1>4, <2>1, HighestIs
  <2> HIDE DEF f
  <2>3. PICK z \in Beyond(G, P) : x - z > Latency /\ f = z - P
    BY <1>1, <2>2
  <2>4. f \in Int /\ z \in Nat /\ z \in G /\ Latency \in Nat
    BY <1>0, <2>1, <2>2, <2>3, MediaAssumption DEF Beyond
  <2>5. k = J!releaseUntil(j, f)
    BY <1>2, <1>4 DEF f
  <2>6. PICK Q \in Nat : Buffers(k, A, Q, G) /\ k.full = j.full /\ P <= Q /\ Passes(P, Q, G, f)
    BY <2>4, <2>5, Releases
  <2>7. ASSUME NEW g \in G, x - g > Latency PROVE g <= Q
    <3>1. CASE g <= P
      BY <1>0, <2>6, <3>1
    <3>2. CASE ~(g <= P)
      <4>1. g > P /\ g \in Beyond(G, P)
        BY <1>0, <3>2 DEF Beyond
      <4>2. g - P \in far
        BY <1>1, <2>7, <4>1
      <4> QED
        BY <2>2, <2>6, <4>1, <4>2 DEF Passes
    <3> QED
      BY <3>1, <3>2
  <2>8. ASSUME NEW i \in P + 1..Q, i \notin G PROVE x - i > Latency
    <3>1. PICK g \in G : i < g /\ g > P /\ g - P <= f
      BY <2>6, <2>8 DEF Passes
    <3> QED
      BY <1>0, <2>3, <2>4, <3>1
  <2>9. Expires(P, Q, G, x)
    BY <2>7, <2>8 DEF Expires
  <2> QED
    BY <2>6, <2>9
<1> QED
  BY <1>3, <1>4

(* A set that a function reaches from S is no larger than S.               *)
LEMMA ReachedBound ==
    ASSUME NEW S, IsFiniteSet(S), NEW f, DOMAIN f = S, NEW W, \A w \in W : \E x \in S : w = f[x]
    PROVE  IsFiniteSet(W) /\ Cardinality(W) \in Nat /\ Cardinality(W) <= Cardinality(S)
<1> DEFINE T0 == {f[x] : x \in S}
           g == [x \in S |-> f[x]]
<1>1. g \in Surjection(S, T0)
  BY DEF Surjection
<1> HIDE DEF g
<1>2. IsFiniteSet(T0) /\ Cardinality(T0) <= Cardinality(S)
  <2> HIDE DEF T0
  <2> QED
    BY <1>1, FS_Surjection
<1>3. W \in SUBSET T0
  OBVIOUS
<1> HIDE DEF T0
<1>4. IsFiniteSet(W) /\ Cardinality(W) <= Cardinality(T0)
  BY <1>2, <1>3, FS_Subset
<1> QED
  BY <1>2, <1>4, FS_CardinalityType

(* The packets beyond Q are few enough.                                    *)
Fits(G, Q) == IsFiniteSet(Beyond(G, Q)) /\ Cardinality(Beyond(G, Q)) <= BufferSize

(* The buffer j, at P, is k at Q when it has made room.                    *)
HasRoom(k, j, A, P, Q, G) ==
    /\ Buffers(k, A, Q, G) /\ P <= Q /\ Fits(G, Q)
    /\ k.full = TRUE \/ (k.full = j.full /\ Q = P)

(* More packets than the buffer has room for: the first ones are released. *)
LEMMA MakesRoom ==
    ASSUME NEW j, NEW A, NEW P, NEW G, Buffers(j, A, P, G),
           NEW k, k = J!overflow(j)
    PROVE  \E Q \in Nat : HasRoom(k, j, A, P, Q, G)
<1> DEFINE D == J!Distances(j)
           n == Cardinality(D)
           q == J!Ascending(D)
<1>0. P \in Nat /\ BufferSize \in Nat /\ \A g \in G : g \in Nat
  BY MediaAssumption, CycleType DEF Buffers
<1>1. /\ D = {g - P : g \in Beyond(G, P)} /\ D \in SUBSET (1..Cycle - 1) /\ IsFiniteSet(D)
  BY TrueDistance
<1>a. k = IF Len(q) <= BufferSize THEN j
          ELSE [J!releaseUntil(j, q[Len(q) - BufferSize]) EXCEPT !.full = TRUE]
  BY DEF J!overflow
<1> HIDE DEF D
<1>2. D \subseteq Int
  BY <1>1
<1>3. Sorted(q, n, D)
  BY <1>1, <1>2, BufferSorts
<1> HIDE DEF n, q
<1>4. /\ n \in Nat /\ q \in [1..n -> D] /\ Len(q) = n
      /\ \A i, l \in 1..n : i < l => q[i] < q[l]
      /\ \A x \in D : \E i \in 1..n : q[i] = x
  <2>1. /\ n \in Nat /\ q \in [1..n -> D]
        /\ \A i, l \in 1..n : i < l => q[i] < q[l]
        /\ \A x \in D : \E i \in 1..n : q[i] = x
    BY <1>3 DEF Sorted
  <2>2. Len(q) = n
    BY <2>1
  <2> QED
    BY <2>1, <2>2
<1>5. \A g \in Beyond(G, P) : g \in Nat /\ \E i \in 1..n : q[i] = g - P /\ g = P + q[i]
  <2> SUFFICES ASSUME NEW g \in Beyond(G, P)
               PROVE  g \in Nat /\ \E i \in 1..n : q[i] = g - P /\ g = P + q[i]
    OBVIOUS
  <2>1. g \in Nat
    BY <1>0 DEF Beyond
  <2>2. PICK i \in 1..n : q[i] = g - P
    BY <1>1, <1>4
  <2>3. g = P + q[i]
    BY <1>0, <2>1, <2>2
  <2> QED
    BY <2>1, <2>2, <2>3
<1>6. CASE n <= BufferSize
  <2> DEFINE f == [i \in 1..n |-> P + q[i]]
  <2>1. IsFiniteSet(1..n) /\ Cardinality(1..n) = n
    BY <1>4, FS_Interval
  <2>2. DOMAIN f = 1..n /\ \A w \in Beyond(G, P) : \E i \in 1..n : w = f[i]
    BY <1>5
  <2> HIDE DEF f
  <2>3. IsFiniteSet(Beyond(G, P)) /\ Cardinality(Beyond(G, P)) \in Nat /\ Cardinality(Beyond(G, P)) <= n
    BY <2>1, <2>2, ReachedBound
  <2>4. Fits(G, P)
    BY <1>0, <1>4, <1>6, <2>3 DEF Fits
  <2>5. k = j
    BY <1>a, <1>4, <1>6
  <2> QED
    BY <1>0, <2>4, <2>5 DEF HasRoom
<1>7. CASE ~(n <= BufferSize)
  <2> DEFINE m == n - BufferSize
             limit == q[m]
             r == J!releaseUntil(j, limit)
  <2>1. m \in 1..n /\ limit \in D /\ limit \in Int
    <3>1. m \in 1..n
      BY <1>0, <1>4, <1>7
    <3> HIDE DEF m
    <3> QED
      BY <1>2, <1>4, <3>1
  <2>2. k = [r EXCEPT !.full = TRUE]
    BY <1>a, <1>4, <1>7
  <2>3. \E Q \in Nat : Buffers(r, A, Q, G) /\ r.full = j.full /\ P <= Q /\ Passes(P, Q, G, limit)
    <3>1. limit \in Int /\ r = J!releaseUntil(j, limit)
      BY <2>1
    <3> HIDE DEF limit, r
    <3> QED
      BY <3>1, Releases
  <2> HIDE DEF r, limit
  <2>4. PICK Q \in Nat : Buffers(r, A, Q, G) /\ P <= Q /\ Passes(P, Q, G, limit)
    BY <2>3
  <2>5. Buffers(k, A, Q, G) /\ k.full = TRUE
    <3>1. r = [present |-> Q % Cycle, buffer |-> Slots(Beyond(G, Q)), out |-> r.out, full |-> r.full]
      BY <2>4 DEF Buffers
    <3> DEFINE o == r.out
               u == r.full
    <3>a. r = [present |-> Q % Cycle, buffer |-> Slots(Beyond(G, Q)), out |-> o, full |-> u]
      BY <3>1
    <3>b. o = r.out
      OBVIOUS
    <3> HIDE DEF o, u
    <3>2. k = [present |-> Q % Cycle, buffer |-> Slots(Beyond(G, Q)), out |-> r.out, full |-> TRUE]
      BY <2>2, <3>a, <3>b
    <3>3. /\ k = [present |-> Q % Cycle, buffer |-> Slots(Beyond(G, Q)), out |-> k.out, full |-> k.full]
          /\ k.out = r.out /\ k.full = TRUE
      BY <3>2
    <3> QED
      BY <2>4, <3>3 DEF Buffers
  <2> DEFINE I == m + 1..n
             f == [i \in I |-> P + q[i]]
  <2>6. IsFiniteSet(I) /\ Cardinality(I) = BufferSize
    <3> DEFINE a == m + 1
    <3>1. a \in Int /\ n \in Int /\ a <= n + 1 /\ n - a + 1 = BufferSize
      BY <1>0, <1>4, <2>1
    <3>2. I = a..n
      OBVIOUS
    <3> HIDE DEF a, I
    <3>3. IsFiniteSet(I) /\ Cardinality(I) = IF a > n THEN 0 ELSE n - a + 1
      BY <3>1, <3>2, FS_Interval
    <3> QED
      BY <1>0, <3>1, <3>3
  <2>7. \A w \in Beyond(G, Q) : \E i \in I : w = f[i]
    <3> SUFFICES ASSUME NEW w \in Beyond(G, Q) PROVE \E i \in I : w = f[i]
      OBVIOUS
    <3>1. w \in Beyond(G, P) /\ w \in G /\ w > Q
      BY <1>0, <2>4 DEF Beyond
    <3>2. PICK i \in 1..n : q[i] = w - P /\ w = P + q[i]
      BY <1>5, <3>1
    <3>3. ~(w - P <= limit) /\ q[i] \in Int
      <4>1. w > P /\ w \in Nat /\ ~(w <= Q)
        BY <1>0, <2>4, <3>1 DEF Beyond
      <4>2. w - P <= limit => w <= Q
        BY <2>4, <3>1, <4>1 DEF Passes
      <4>3. q[i] \in Int
        BY <1>2, <1>4
      <4> QED
        BY <4>1, <4>2, <4>3
    <3>4. ~(i <= m)
      <4> SUFFICES ASSUME i <= m PROVE q[i] <= q[m]
        BY <3>2, <3>3 DEF limit
      <4>1. m \in 1..n
        BY <2>1
      <4>2. q[m] \in Int
        BY <1>2, <1>4, <4>1
      <4> HIDE DEF m
      <4>3. i = m \/ i < m
        BY <4>1
      <4>4. i < m => q[i] < q[m]
        BY <1>4, <4>1
      <4> QED
        BY <3>3, <4>2, <4>3, <4>4
    <3>5. i \in I
      BY <2>1, <3>4
    <3> QED
      BY <3>2, <3>5
  <2>8. DOMAIN f = I
    OBVIOUS
  <2> HIDE DEF I, f
  <2>9. IsFiniteSet(Beyond(G, Q)) /\ Cardinality(Beyond(G, Q)) <= Cardinality(I)
    BY <2>6, <2>7, <2>8, ReachedBound
  <2>10. Fits(G, Q)
    BY <2>6, <2>9 DEF Fits
  <2> QED
    BY <2>4, <2>5, <2>10 DEF HasRoom
<1> QED
  BY <1>6, <1>7

-----------------------------------------------------------------------------
(* The jitter buffer: processInput.                                        *)

(* A buffer at P that holds the packets B.                                 *)
HoldsAt(j, P, B) ==
    /\ P \in Nat /\ B \in SUBSET (P + 1..P + Cycle - 1)
    /\ j = [present |-> P % Cycle, buffer |-> Slots(B), out |-> j.out, full |-> j.full]

(* The buffer j took x in, to the packets G then, and went from P to Q.    *)
TakesIn(k, j, P, Q, G, x) ==
    /\ Buffers(k, P, Q, G) /\ Fits(G, Q)
    /\ \A g \in G : x - g > Latency => g <= Q
    /\ j.full => k.full
    /\ k.full \/ \A i \in P + 1..Q : i \in G \/ x - i > Latency

LEMMA BeginsLine ==
    ASSUME NEW j, NEW P, NEW B, HoldsAt(j, P, B), NEW G \in SUBSET (P + 1..P + Cycle - 1),
           NEW k, k = [present |-> P % Cycle, buffer |-> Slots(G), out |-> <<>>, full |-> j.full]
    PROVE  Buffers(k, P, P, G)
<1>0. P \in Nat /\ Cycle \in Nat
  BY CycleType DEF HoldsAt
<1>1. \A g \in G : g > P /\ ~(g <= P) /\ g \in Int
  BY <1>0
<1>2. Beyond(G, P) = G /\ {g \in G : g <= P} = {}
  BY <1>1 DEF Beyond
<1>3. Line(<<>>, P, P) /\ Indices(<<>>) = {}
  BY DEF Line, Outputs, Indices
<1>4. k.out = <<>>
  OBVIOUS
<1>5. k = [present |-> P % Cycle, buffer |-> Slots(Beyond(G, P)), out |-> k.out, full |-> k.full]
  BY <1>2
<1> QED
  BY <1>0, <1>2, <1>3, <1>4, <1>5 DEF Buffers

(* A number is known when it is behind P or in the buffer.                 *)
LEMMA KnownIs ==
    ASSUME NEW j, NEW P, NEW B, HoldsAt(j, P, B), NEW x \in Nat, x - P < Half, P - x < Half,
           \A b \in B : x - b < Half /\ b - x < Half
    PROVE  J!Known(j, Slot(x)) <=> x <= P \/ x \in B
<1>0. /\ P \in Nat /\ j.present = P % Cycle /\ j.buffer = Slots(B) /\ \A b \in B : b \in Int
      /\ Cycle \in Nat \ {0} /\ Half \in Nat /\ 2 * Half <= Cycle
  BY CycleType DEF HoldsAt
<1>1. J!SerialGte(P % Cycle, x % Cycle, Cycle) <=> P >= x
  <2>1. /\ Cycle \in Nat \ {0} /\ Half \in Nat /\ 2 * Half <= Cycle
        /\ P \in Int /\ x \in Int /\ P - x < Half /\ x - P < Half
    BY <1>0
  <2> QED
    BY <2>1, NearOrder
<1>2. ASSUME NEW b \in B, b % Cycle = x % Cycle PROVE b = x
  <2>0. /\ Cycle \in Nat \ {0} /\ Half \in Nat /\ 2 * Half <= Cycle
        /\ b \in Int /\ x \in Int /\ x - b < Half /\ b - x < Half
    BY <1>0
  <2>1. J!SerialGte(b % Cycle, x % Cycle, Cycle) <=> b >= x
    BY <2>0, NearOrder
  <2>2. J!SerialGte(x % Cycle, b % Cycle, Cycle) <=> x >= b
    BY <2>0, NearOrder
  <2>3. J!SerialGte(b % Cycle, x % Cycle, Cycle) /\ J!SerialGte(x % Cycle, b % Cycle, Cycle)
    BY <1>2 DEF J!SerialGte
  <2> QED
    BY <2>0, <2>1, <2>2, <2>3
<1>3. (\E q \in j.buffer : q.seq = Slot(x).seq) <=> x \in B
  <2>1. ASSUME NEW q \in j.buffer, q.seq = Slot(x).seq PROVE x \in B
    <3>1. PICK b \in B : q = Slot(b)
      BY <1>0 DEF Slots
    <3>2. b % Cycle = x % Cycle
      BY <2>1, <3>1 DEF Slot
    <3> QED
      BY <1>2, <3>2
  <2>2. ASSUME x \in B PROVE Slot(x) \in j.buffer
    BY <1>0, <2>2 DEF Slots
  <2> QED
    BY <2>1, <2>2
<1>4. Slot(x).seq = x % Cycle
  BY DEF Slot
<1>5. J!Known(j, Slot(x)) <=> \/ J!SerialGte(P % Cycle, x % Cycle, Cycle)
                            \/ \E q \in j.buffer : q.seq = Slot(x).seq
  BY <1>0, <1>4 DEF J!Known
<1> QED
  BY <1>0, <1>1, <1>3, <1>5

(* A packet arrives.                                                       *)
LEMMA Inputs ==
    ASSUME NEW j, NEW P, NEW B, HoldsAt(j, P, B), NEW x \in Nat, x - P < Half, P - x < Half,
           \A b \in B : x - b < Half /\ b - x < Half,
           NEW k, k = J!processInput(j, Slot(x))
    PROVE  IF x <= P \/ x \in B THEN k = [j EXCEPT !.out = <<>>]
           ELSE \E Q \in Nat : TakesIn(k, j, P, Q, B \union {x}, x)
<1> DEFINE G == B \union {x}
           p == Slot(x)
           ts == (x + TsStart) % TsMod
           j0 == [j EXCEPT !.buffer = @ \union {p}, !.out = <<>>]
           j1 == J!releaseUntil(j0, 0)
           j2 == J!timeout(j1, ts)
           j3 == J!overflow(j2)
<1>0. /\ P \in Nat /\ B \in SUBSET (P + 1..P + Cycle - 1)
      /\ Cycle \in Nat \ {0} /\ Half \in Nat /\ Cycle = 2 * Half
      /\ j = [present |-> P % Cycle, buffer |-> Slots(B), out |-> j.out, full |-> j.full]
      /\ j.present = P % Cycle
  BY CycleType DEF HoldsAt
<1>1. J!Known(j, p) <=> x <= P \/ x \in B
  BY KnownIs
<1>2. j.present # J!Undefined
  <2>1. P % Cycle \in 0..Cycle - 1
    BY <1>0, Quotient
  <2> QED
    BY <1>0, <2>1 DEF J!Undefined
<1>3. k = IF J!Known(j, p) THEN [j EXCEPT !.out = <<>>] ELSE j3
  BY <1>2 DEF J!processInput, Slot
<1>4. CASE x <= P \/ x \in B
  BY <1>1, <1>3, <1>4
<1>5. ASSUME ~(x <= P), x \notin B
      PROVE  \E Q \in Nat : TakesIn(k, j, P, Q, G, x)
  <2>0. k = j3
    BY <1>1, <1>3, <1>5
  <2>1. G \in SUBSET (P + 1..P + Cycle - 1)
    BY <1>0, <1>5
  <2>2. j0 = [present |-> P % Cycle, buffer |-> Slots(G), out |-> <<>>, full |-> j.full]
    <3> DEFINE o == j.out
               u == j.full
    <3>a. j = [present |-> P % Cycle, buffer |-> Slots(B), out |-> o, full |-> u] /\ u = j.full
      BY <1>0
    <3>b. j0 = [j EXCEPT !.buffer = @ \union {p}, !.out = <<>>]
      OBVIOUS
    <3> HIDE DEF o, u, p, j0
    <3>1. j0 = [present |-> P % Cycle, buffer |-> Slots(B) \union {p}, out |-> <<>>, full |-> j.full]
      BY <3>a, <3>b
    <3>2. Slots(B) \union {p} = Slots(G)
      BY DEF Slots, p
    <3> QED
      BY <3>1, <3>2
  <2>3. \A g \in G : x - g < Half /\ g - x < Half
    BY <1>0, CycleType
  <2>a. j1 = J!releaseUntil(j0, 0)
    OBVIOUS
  <2>b. j2 = J!timeout(j1, (x + TsStart) % TsMod)
    OBVIOUS
  <2>c. j3 = J!overflow(j2)
    OBVIOUS
  <2> HIDE DEF G, j0, j1, j2, j3, ts
  <2>4. Buffers(j0, P, P, G) /\ j0.full = j.full
    BY <2>1, <2>2, BeginsLine
  <2>5. PICK Q1 \in Nat : Buffers(j1, P, Q1, G) /\ j1.full = j0.full /\ P <= Q1 /\ Passes(P, Q1, G, 0)
    <3> DEFINE zero == 0
    <3>1. zero \in Int /\ zero = 0
      OBVIOUS
    <3> HIDE DEF zero
    <3>2. j1 = J!releaseUntil(j0, zero)
      BY <2>a, <3>1
    <3>3. \E Q \in Nat : Buffers(j1, P, Q, G) /\ j1.full = j0.full /\ P <= Q /\ Passes(P, Q, G, zero)
      BY <2>4, <3>1, <3>2, Releases
    <3> QED
      BY <3>1, <3>3
  <2>6. PICK Q2 \in Nat : Buffers(j2, P, Q2, G) /\ j2.full = j1.full /\ Q1 <= Q2 /\ Expires(Q1, Q2, G, x)
    BY <2>3, <2>5, <2>b, TimesOut
  <2>7. PICK Q3 \in Nat : HasRoom(j3, j2, P, Q2, Q3, G)
    BY <2>6, <2>c, MakesRoom
  <2>d. /\ Buffers(j3, P, Q3, G) /\ Q2 <= Q3 /\ Fits(G, Q3)
        /\ j3.full \/ (j3.full = j2.full /\ Q3 = Q2)
    BY <2>7 DEF HasRoom
  <2>8. \A g \in G : g \in Int /\ g > P
    BY <1>0, <2>1
  <2>9. \A g \in G : x - g > Latency => g <= Q3
    BY <2>6, <2>d, <2>8 DEF Expires
  <2>10. ASSUME Q3 = Q2, NEW i \in P + 1..Q3 PROVE i \in G \/ x - i > Latency
    <3>1. CASE i <= Q1
      <4>1. i \in P + 1..Q1
        BY <1>0, <3>1
      <4>2. i \in G \/ \E g \in G : g > P /\ g - P <= 0
        BY <2>5, <4>1 DEF Passes
      <4> QED
        BY <1>0, <2>8, <4>2
    <3>2. CASE ~(i <= Q1)
      <4>1. i \in Q1 + 1..Q2
        BY <1>0, <2>10, <3>2
      <4> QED
        BY <2>6, <4>1 DEF Expires
    <3> QED
      BY <3>1, <3>2
  <2>11. j3.full \/ \A i \in P + 1..Q3 : i \in G \/ x - i > Latency
    BY <2>d, <2>10
  <2>12. j.full => j3.full
    BY <2>4, <2>5, <2>6, <2>d
  <2>13. TakesIn(j3, j, P, Q3, G, x)
    BY <2>d, <2>9, <2>11, <2>12 DEF TakesIn
  <2> QED
    BY <2>0, <2>13
<1> QED
  BY <1>4, <1>5

(* The end of the stream: everything is output.                            *)
LEMMA Ends ==
    ASSUME NEW j, NEW P, NEW B, HoldsAt(j, P, B), NEW k, k = J!endOfLife(j)
    PROVE  \E Q \in Nat : Buffers(k, P, Q, B) /\ k.full = j.full /\ \A b \in B : b <= Q
<1> DEFINE j0 == [j EXCEPT !.out = <<>>]
           limit == Cycle - 1
<1>0. /\ P \in Nat /\ B \in SUBSET (P + 1..P + Cycle - 1) /\ Cycle \in Nat \ {0} /\ limit \in Int
      /\ j = [present |-> P % Cycle, buffer |-> Slots(B), out |-> j.out, full |-> j.full]
  BY CycleType DEF HoldsAt
<1>1. j0 = [present |-> P % Cycle, buffer |-> Slots(B), out |-> <<>>, full |-> j.full]
  BY <1>0
<1>2. k = J!releaseUntil(j0, limit)
  BY DEF J!endOfLife
<1> HIDE DEF j0
<1>3. Buffers(j0, P, P, B) /\ j0.full = j.full
  BY <1>0, <1>1, BeginsLine
<1> HIDE DEF limit
<1>4. PICK Q \in Nat : Buffers(k, P, Q, B) /\ k.full = j0.full /\ P <= Q /\ Passes(P, Q, B, limit)
  BY <1>0, <1>2, <1>3, Releases
<1>5. \A b \in B : b <= Q
  <2>1. \A b \in B : b > P /\ b - P <= limit
    BY <1>0 DEF limit
  <2> QED
    BY <1>4, <2>1 DEF Passes
<1> QED
  BY <1>3, <1>4, <1>5

-----------------------------------------------------------------------------
(* NackHandler: how much it asks for.                                      *)

(* It asks for at most LOST_SIZE numbers, each once.                       *)
AsksFew(n) ==
    /\ IsFiniteSet(n.lost) /\ Cardinality(n.lost) <= LostSize
    /\ \A l \in n.lost : l.seq < Cycle
    /\ \A l, m \in n.lost : l.seq = m.seq => l = m

LEMMA NackCardinality == \A S : N!Cardinality(S) = Cardinality(S)
BY DEF N!Cardinality, Cardinality, N!IsFiniteSet, IsFiniteSet

(* Fewer numbers are asked for.                                            *)
LEMMA AsksFewer ==
    ASSUME NEW n, AsksFew(n), NEW m, m.lost \subseteq n.lost, LostSize \in Nat
    PROVE  AsksFew(m)
<1>1. IsFiniteSet(m.lost) /\ Cardinality(m.lost) <= Cardinality(n.lost)
  BY FS_Subset DEF AsksFew
<1>2. Cardinality(m.lost) \in Nat /\ Cardinality(n.lost) \in Nat
  BY <1>1, FS_CardinalityType DEF AsksFew
<1>3. Cardinality(m.lost) <= LostSize
  BY <1>1, <1>2 DEF AsksFew
<1> QED
  BY <1>1, <1>3 DEF AsksFew

(* pruneLost: the largest LOST_SIZE numbers stay.                          *)
LEMMA PruneFits ==
    ASSUME NEW n \in NackType, IsFiniteSet(n.lost), \A l \in n.lost : l.seq < Cycle,
           \A l, m \in n.lost : l.seq = m.seq => l = m
    PROVE  AsksFew(N!pruneLost(n))
<1> DEFINE L == n.lost
           larger(l) == {k \in L : k.seq > l.seq}
           out == {l \in L : N!Cardinality(larger(l)) >= LostSize}
           K == L \ out
           m == N!pruneLost(n)
<1>0. m = [n EXCEPT !.lost = @ \ out, !.gaveUp = @ \union {l.seq : l \in out}]
  BY DEF N!pruneLost
<1>1. m.lost = K
  <2> HIDE DEF out, m
  <2> QED
    BY <1>0 DEF NackType
<1>2. L \subseteq [seq : Nat, count : Nat] /\ LostSize \in Nat
  BY MediaAssumption DEF NackType
<1>3. \A l \in L : l.seq \in Nat /\ l.seq < Cycle
  BY <1>2
<1>4. IsFiniteSet(L) /\ \A l, k \in L : l.seq = k.seq => l = k
  OBVIOUS
<1>5. \A l \in K : l \in L /\ ~(Cardinality(larger(l)) >= LostSize)
  BY NackCardinality
<1> HIDE DEF out, m, L
<1>6. IsFiniteSet(K) /\ K \subseteq L
  BY <1>4, FS_Subset
<1> HIDE DEF K, larger
<1>7. Cardinality(K) <= LostSize
  <2>1. CASE K = {}
    BY <1>2, <2>1, FS_EmptySet
  <2>2. CASE K # {}
    <3> DEFINE S == {l.seq : l \in K}
    <3>1. S \subseteq Nat /\ S # {}
      BY <1>3, <1>6, <2>2
    <3> HIDE DEF S
    <3>2. PICK s \in S : \A t \in S : s <= t
      BY <3>1, LeastNatural
    <3>3. PICK l \in K : l.seq = s
      BY DEF S
    <3>4. \A k \in K : s <= k.seq
      BY <3>2 DEF S
    <3> DEFINE R == K \ {l}
               A == larger(l)
    <3>5. ASSUME NEW k \in R PROVE k \in A
      <4>1. k \in L /\ l \in L /\ k # l /\ k \in K
        BY <1>6, <3>3
      <4>2. k.seq # l.seq /\ k.seq \in Nat /\ l.seq \in Nat /\ l.seq <= k.seq
        BY <1>3, <1>4, <3>3, <3>4, <4>1
      <4>3. k.seq > l.seq
        BY <4>2
      <4> QED
        BY <4>1, <4>3 DEF larger
    <3>6. IsFiniteSet(A)
      <4>1. A \subseteq L
        BY DEF larger
      <4> HIDE DEF A
      <4> QED
        BY <1>4, <4>1, FS_Subset
    <3>7. ~(Cardinality(A) >= LostSize)
      BY <1>5, <3>3
    <3>8. IsFiniteSet(R) /\ Cardinality(R) = Cardinality(K) - 1
      BY <1>6, <3>3, FS_RemoveElement
    <3>9. R \subseteq A
      BY <3>5
    <3> HIDE DEF A, R
    <3>10. Cardinality(R) <= Cardinality(A) /\ Cardinality(R) \in Nat /\ Cardinality(A) \in Nat
      BY <3>6, <3>8, <3>9, FS_Subset, FS_CardinalityType
    <3>11. Cardinality(K) \in Nat
      BY <1>6, FS_CardinalityType
    <3> QED
      BY <1>2, <3>7, <3>8, <3>10, <3>11
  <2> QED
    BY <2>1, <2>2
<1>8. AsksFew(m)
  BY <1>1, <1>3, <1>4, <1>6, <1>7 DEF AsksFew
<1> QED
  BY <1>8 DEF m

(* The handler with a hole asked for.                                      *)
LEMMA AsksFinite ==
    ASSUME NEW n \in NackType, AsksFew(n), NEW next \in Nat, NEW seq \in 0..Cycle - 1,
           NEW a, a = Asks(n, next, seq)
    PROVE  /\ IsFiniteSet(a.lost) /\ \A l \in a.lost : l.seq < Cycle
           /\ \A l, m \in a.lost : l.seq = m.seq => l = m
<1> DEFINE I == next..seq - 1
           new == {[seq |-> i, count |-> 1] : i \in I}
           old == {l \in n.lost : l.seq \notin I}
           f == [i \in I |-> [seq |-> i, count |-> 1]]
<1>0. Cycle \in Nat /\ seq \in Int
  BY CycleType
<1>1. a.lost = old \union new
  BY DEF Asks, NackType
<1>2. IsFiniteSet(I)
  <2> DEFINE z == seq - 1
  <2>1. z \in Int /\ I = next..z
    BY <1>0
  <2> HIDE DEF z, I
  <2> QED
    BY <2>1, FS_Interval
<1>3. \A i \in I : i \in Int /\ i < Cycle
  BY <1>0
<1>4. \A l \in n.lost : l.seq < Cycle
  BY DEF AsksFew
<1>5. IsFiniteSet(n.lost) /\ \A l, m \in n.lost : l.seq = m.seq => l = m
  BY DEF AsksFew
<1>6. \A l \in new : \E i \in I : l = f[i]
  OBVIOUS
<1>7. \A l \in new : l.seq \in I /\ l = [seq |-> l.seq, count |-> 1]
  OBVIOUS
<1>8. \A l \in old : l \in n.lost /\ l.seq \notin I
  OBVIOUS
<1>9. DOMAIN f = I
  OBVIOUS
<1> HIDE DEF I, f, new, old
<1>10. IsFiniteSet(new)
  BY <1>2, <1>6, <1>9, ReachedBound
<1>11. IsFiniteSet(old)
  <2>1. old \subseteq n.lost
    BY <1>8
  <2> QED
    BY <1>5, <2>1, FS_Subset
<1>12. IsFiniteSet(a.lost)
  BY <1>1, <1>10, <1>11, FS_Union
<1>13. ASSUME NEW l \in a.lost PROVE l.seq < Cycle
  BY <1>1, <1>3, <1>4, <1>7, <1>8
<1>14. ASSUME NEW l \in a.lost, NEW m \in a.lost, l.seq = m.seq PROVE l = m
  <2>1. CASE l \in old /\ m \in old
    BY <1>5, <1>8, <1>14, <2>1
  <2>2. CASE l \in new /\ m \in new
    BY <1>7, <1>14, <2>2
  <2>3. (l \in old /\ m \in new) \/ (l \in new /\ m \in old) => FALSE
    BY <1>7, <1>8, <1>14
  <2> QED
    BY <1>1, <2>1, <2>2, <2>3
<1> QED
  BY <1>12, <1>13, <1>14

(* A packet.                                                               *)
LEMMA AddPacketFits ==
    ASSUME NEW n \in NackType, AsksFew(n), NEW seq \in 0..Cycle - 1
    PROVE  AsksFew(N!addPacket(n, seq))
<1> DEFINE next == (n.est + 1) % Cycle
           a == Asks(n, next, seq)
<1>0. next \in Nat /\ seq \in Nat /\ LostSize \in Nat
  BY SrtpAssumption, MediaAssumption DEF NackType, Cycle
<1>1. AsksFew([n EXCEPT !.est = seq]) /\ AsksFew([n EXCEPT !.lost = {l \in @ : l.seq # seq}])
  <2>1. [n EXCEPT !.est = seq].lost \subseteq n.lost
    BY DEF NackType
  <2>2. [n EXCEPT !.lost = {l \in @ : l.seq # seq}].lost \subseteq n.lost
    BY DEF NackType
  <2> QED
    BY <1>0, <2>1, <2>2, AsksFewer
<1>2. AsksFew(N!pruneLost(a))
  <2>1. a = Asks(n, next, seq)
    OBVIOUS
  <2> HIDE DEF a, next
  <2>2. AsksBeyond(a, n, next, seq)
    BY <1>0, <2>1, AsksType
  <2>3. a \in NackType
    BY <2>2 DEF AsksBeyond
  <2>4. /\ IsFiniteSet(a.lost) /\ \A l \in a.lost : l.seq < Cycle
        /\ \A l, m \in a.lost : l.seq = m.seq => l = m
    BY <1>0, <2>1, AsksFinite
  <2> QED
    BY <2>3, <2>4, PruneFits
<1>3. N!addPacket(n, seq) \in {n, [n EXCEPT !.est = seq], [n EXCEPT !.lost = {l \in @ : l.seq # seq}],
                               N!pruneLost(a)}
  BY DEF N!addPacket, Asks
<1> QED
  BY <1>1, <1>2, <1>3

(* The handler's interval.                                                 *)
LEMMA RetryFits ==
    ASSUME NEW n \in NackType, AsksFew(n)
    PROVE  AsksFew(N!updateRetryCount(n))
<1> DEFINE over == {l \in n.lost : l.count > RetryCount}
           again(l) == [l EXCEPT !.count = @ + 1]
           m == N!updateRetryCount(n)
           f == [l \in n.lost |-> again(l)]
<1>0. m.lost = {again(l) : l \in n.lost \ over}
  BY DEF N!updateRetryCount, NackType
<1>1. \A l \in n.lost : again(l).seq = l.seq
  BY DEF NackType
<1>2. /\ IsFiniteSet(n.lost) /\ Cardinality(n.lost) <= LostSize /\ LostSize \in Nat
      /\ \A l \in n.lost : l.seq < Cycle
      /\ \A l, k \in n.lost : l.seq = k.seq => l = k
  BY MediaAssumption DEF AsksFew
<1>3. \A w \in m.lost : \E l \in n.lost : w = again(l) /\ w = f[l] /\ w.seq = l.seq
  BY <1>0, <1>1
<1>4. DOMAIN f = n.lost
  OBVIOUS
<1> HIDE DEF m, f, again, over
<1>5. IsFiniteSet(m.lost) /\ Cardinality(m.lost) \in Nat /\ Cardinality(m.lost) <= Cardinality(n.lost)
  <2>1. \A w \in m.lost : \E l \in n.lost : w = f[l]
    BY <1>3
  <2> QED
    BY <1>2, <1>4, <2>1, ReachedBound
<1>6. Cardinality(m.lost) <= LostSize
  <2>1. Cardinality(n.lost) \in Nat
    BY <1>2, FS_CardinalityType
  <2> QED
    BY <1>2, <1>5, <2>1
<1>7. \A w \in m.lost : w.seq < Cycle
  BY <1>2, <1>3
<1>8. \A w, v \in m.lost : w.seq = v.seq => w = v
  BY <1>2, <1>3
<1>9. AsksFew(m)
  BY <1>5, <1>6, <1>7, <1>8 DEF AsksFew
<1> QED
  BY <1>9 DEF m

-----------------------------------------------------------------------------
(* What is asked for, and where nothing arrived or everything has.         *)

(* The numbers asked for are few, and numbers of the stream.               *)
LostTrue ==
    /\ AsksFew(nack) /\ asked \subseteq 0..Cycle - 1
    /\ ~wide.on => twcc = T!Silent

LEMMA LostInductive ==
    /\ MediaInit => LostTrue
    /\ IInv /\ NetTrue /\ NackTrue /\ LostTrue /\ ~Astray /\ [MediaNext]_vars => LostTrue'
<1>1. MediaInit => LostTrue
  <2> SUFFICES ASSUME MediaInit PROVE LostTrue
    OBVIOUS
  <2>1. nack.lost = {} /\ asked = {} /\ twcc = T!Silent /\ LostSize \in Nat
    BY MediaAssumption DEF MediaInit, N!Fresh
  <2>2. IsFiniteSet({}) /\ Cardinality({}) = 0
    BY FS_EmptySet
  <2> QED
    BY <2>1, <2>2 DEF LostTrue, AsksFew
<1>2. ASSUME IInv, NetTrue, NackTrue, LostTrue, ~Astray, [MediaNext]_vars
      PROVE  LostTrue'
  <2>0. wide'.on = wide.on /\ nack \in NackType /\ AsksFew(nack)
    BY <1>2, StepsOfStream, KindStays DEF IInv, NackTrue, LostTrue
  <2>1. AsksFew(nack')
    <3>1. ASSUME Keeps PROVE AsksFew(nack')
      BY <2>0, <3>1, RetryFits DEF Keeps
    <3>2. ASSUME NEW p \in net, NEW again \in BOOLEAN, Accepts(p, again) PROVE AsksFew(nack')
      <4>1. nack' = IF nackEnabled THEN N!addPacket(nack, p.seq) ELSE nack
        BY <3>2 DEF Accepts, handleRTP
      <4>2. p.seq \in 0..Cycle - 1
        BY <1>2, <3>2, AcceptedNear DEF Accepts
      <4> QED
        BY <2>0, <4>1, <4>2, AddPacketFits
    <3> QED
      BY <1>2, <3>1, <3>2, ReceiverSteps DEF IInv
  <2>2. asked' \subseteq 0..Cycle - 1
    <3>1. asked \subseteq 0..Cycle - 1
      BY <1>2 DEF LostTrue
    <3>2. N!LostNumbers(nack) \subseteq 0..Cycle - 1
      <4> SUFFICES ASSUME NEW l \in nack.lost PROVE l.seq \in 0..Cycle - 1
        BY DEF N!LostNumbers
      <4>1. l.seq \in Nat /\ l.seq < Cycle
        BY <2>0 DEF NackType, AsksFew
      <4> QED
        BY <4>1, CycleType
    <3>3. asked' \subseteq asked \union N!LostNumbers(nack)
      BY <1>2 DEF MediaNext, vars, source, retransmit, arrive, lose, damaged, sendNack, runTWCC, eol
    <3> QED
      BY <3>1, <3>2, <3>3
  <2>3. ASSUME ~wide.on PROVE twcc' = T!Silent
    <3>1. twcc = T!Silent /\ twcc.info = {} /\ [twcc EXCEPT !.sent = <<>>] = twcc
      BY <1>2, <2>3 DEF LostTrue, T!Silent
    <3>2. ASSUME Keeps PROVE twcc' = twcc
      BY <3>1, <3>2 DEF Keeps, runTWCC, eol
    <3>3. ASSUME NEW p \in net, NEW again \in BOOLEAN, Accepts(p, again) PROVE twcc' = twcc
      BY <2>3, <3>1, <3>3 DEF Accepts, handleRTP
    <3> QED
      BY <1>2, <3>1, <3>2, <3>3, ReceiverSteps DEF IInv
  <2> QED
    BY <2>0, <2>1, <2>2, <2>3 DEF LostTrue
<1> QED
  BY <1>1, <1>2

(* The highest packet accepted is less than MaxDelay behind the last one   *)
(* sent: before the first one is accepted nothing is sent again.           *)
TopNear ==
    /\ top = -1 => asked = {} /\ \A p \in net : Last - Index(p) < MaxDelay
    /\ top # -1 => Last - top < MaxDelay

LEMMA TopInductive ==
    /\ MediaInit => TopNear
    /\ IInv /\ NetTrue /\ NackTrue /\ TopNear /\ ~Astray /\ ~Astray' /\ [MediaNext]_vars => TopNear'
<1>1. MediaInit => TopNear
  BY DEF MediaInit, Init, TopNear
<1>2. ASSUME IInv, NetTrue, NackTrue, TopNear, ~Astray, ~Astray', [MediaNext]_vars
      PROVE  TopNear'
  <2>0. /\ top \in Nat \union {-1} /\ Last \in Int /\ MaxDelay \in Nat \ {0}
        /\ top = -1 => nack.lost = {}
        /\ \A q \in net : Index(q) \in Nat
    <3>1. snd.roc \in Nat /\ snd.last \in Nat /\ Cycle \in Nat
      BY <1>2, CycleType, SrtpAssumption DEF IInv, StreamTypeOK, State
    <3>2. Last \in Int
      BY <3>1 DEF Last, packetIndex
    <3>3. \A q \in net : Index(q) \in Nat
      BY <1>2, IndexType DEF IInv, StreamTypeOK, Index
    <3>4. top \in Nat \union {-1} /\ (top = -1 => nack.lost = {})
      BY <1>2 DEF IInv, StreamTypeOK, NackTrue
    <3>5. MaxDelay \in Nat \ {0}
      BY MediaAssumption, SrtpAssumption
    <3> QED
      BY <3>2, <3>3, <3>4, <3>5
  <2>1. ASSUME UNCHANGED <<snd, top>>, net' \subseteq net, top = -1 => asked' = {} PROVE TopNear'
    BY <1>2, <2>1 DEF TopNear, Index, Last
  <2>2. ASSUME NEW gap \in Gaps, NEW kept \in BOOLEAN, source(gap, kept) PROVE TopNear'
    <3>1. /\ Last' = Index(pos) /\ top' = top /\ Index(pos) \in Nat
          /\ net' = net \union {Emitted(pos)} /\ Index(Emitted(pos)) = Index(pos)
          /\ \A p \in net : Index(pos) - Index(p) < MaxDelay
          /\ top # -1 => Index(pos) - top < MaxDelay
      BY <1>2, <2>2, SourceEmits
    <3>2. asked' = asked
      BY <2>2 DEF source
    <3>3. \A p \in net' : Last' - Index(p) < MaxDelay
      BY <2>0, <3>1
    <3>4. \A p \in net' : Index(p)' = Index(p)
      BY DEF Index
    <3> QED
      BY <1>2, <3>1, <3>2, <3>3 DEF TopNear, Index
  <2>3. ASSUME NEW seq \in asked, retransmit(seq) PROVE TopNear'
    <3>1. top # -1
      BY <1>2, <2>3 DEF TopNear
    <3>2. ASSUME NEW c \in cache, Resend(c) PROVE Last' = Last /\ top' = top
      BY <1>2, <3>2, ResendEmits
    <3>3. Last' = Last /\ top' = top
      BY <2>3, <3>2 DEF retransmit, svars, Last
    <3> QED
      BY <1>2, <3>1, <3>3 DEF TopNear
  <2>4. ASSUME NEW p \in net, NEW again \in BOOLEAN, arrive(p, again) PROVE TopNear'
    <3>0. Receive(p, again) /\ net' \subseteq net /\ UNCHANGED <<snd, asked>> /\ Last' = Last
      BY <2>4 DEF arrive, Receive, Last
    <3>1. CASE Authentic(rcv, p)
      <4>1. /\ Index(p) \in Nat
            /\ top = -1 \/ Index(p) > top => top' = Index(p)
            /\ top # -1 /\ Index(p) <= top => top' = top
        BY <1>2, <3>0, <3>1, AcceptedNear
      <4>2. /\ top = -1 => Last - Index(p) < MaxDelay
            /\ top # -1 => Last - top < MaxDelay
        BY <1>2 DEF TopNear
      <4>3. top' # -1 /\ Last - top' < MaxDelay
        BY <2>0, <4>1, <4>2
      <4> QED
        BY <3>0, <4>3 DEF TopNear
    <3>2. CASE ~Authentic(rcv, p)
      <4>1. top' = top
        BY <3>0, <3>2, RefusedKeeps
      <4> QED
        BY <1>2, <2>1, <3>0, <4>1 DEF TopNear
    <3> QED
      BY <3>1, <3>2
  <2>5. ASSUME NEW p \in net, lose(p) PROVE TopNear'
    BY <1>2, <2>1, <2>5 DEF lose, Lose, TopNear
  <2>6. ASSUME NEW seq \in {0, Half}, damaged(seq) PROVE TopNear'
    BY <1>2, <2>1, <2>6 DEF damaged, ReceiveDamaged, TopNear
  <2>7. ASSUME NEW arrives \in BOOLEAN, sendNack(arrives) PROVE TopNear'
    BY <1>2, <2>0, <2>1, <2>7 DEF sendNack, svars
  <2>8. ASSUME runTWCC \/ eol \/ UNCHANGED vars PROVE TopNear'
    BY <1>2, <2>1, <2>8 DEF runTWCC, eol, vars, svars, TopNear
  <2> QED
    BY <1>2, <2>2, <2>3, <2>4, <2>5, <2>6, <2>7, <2>8 DEF MediaNext
<1> QED
  BY <1>1, <1>2

(* Of any MaxDelay numbers in a row behind the first packet and before the *)
(* highest one, one has arrived.                                           *)
Dense(S, first, high) == \A i \in first..high - 1 : \E h \in S : i < h /\ h < i + MaxDelay

GapsTrue == top # -1 => Dense(Heard, log.heard[1], top)

LEMMA GapsInductive ==
    /\ MediaInit => GapsTrue
    /\ IInv /\ NetTrue /\ HeardTrue /\ TopNear /\ GapsTrue /\ ~Astray /\ [MediaNext]_vars => GapsTrue'
<1>1. MediaInit => GapsTrue
  BY DEF MediaInit, Init, GapsTrue
<1>2. ASSUME IInv, NetTrue, HeardTrue, TopNear, GapsTrue, ~Astray, [MediaNext]_vars
      PROVE  GapsTrue'
  <2>1. ASSUME Keeps PROVE GapsTrue'
    <3>1. log'.heard = log.heard /\ Heard' = Heard /\ top' = top
      BY <1>2, <2>1, NotHearing DEF HeardTrue, Keeps
    <3> QED
      BY <1>2, <3>1 DEF GapsTrue
  <2>2. ASSUME NEW p \in net, NEW again \in BOOLEAN, Accepts(p, again) PROVE GapsTrue'
    <3> DEFINE x == Index(p)
    <3>1. /\ x \in Nat /\ top \in Nat \union {-1} /\ MaxDelay \in Nat /\ Last \in Int
          /\ top = -1 \/ x > top => top' = x
          /\ top # -1 /\ x <= top => top' = top
      <4>1. snd.roc \in Nat /\ snd.last \in Nat /\ Cycle \in Nat
        BY <1>2, CycleType, SrtpAssumption DEF IInv, StreamTypeOK, State
      <4>2. Last \in Int
        BY <4>1 DEF Last, packetIndex
      <4> QED
        BY <1>2, <2>2, <4>2, AcceptedNear, MediaAssumption, SrtpAssumption DEF Accepts, IInv, StreamTypeOK
    <3>2. /\ Heard' = Heard \union {x}
          /\ Heard # {} => log'.heard[1] = log.heard[1]
          /\ Heard = {} => log'.heard[1] = x
          /\ Heard = {} <=> top = -1
      BY <1>2, <2>2, <3>1, Hearing DEF Accepts, HeardTrue
    <3>3. top # -1 => x - top < MaxDelay
      <4>1. x <= Last /\ (top # -1 => Last - top < MaxDelay)
        BY <1>2 DEF NetTrue, TopNear
      <4> HIDE DEF x
      <4> QED
        BY <3>1, <4>1
    <3> HIDE DEF x
    <3>4. CASE top = -1
      <4>1. top' = x /\ log'.heard[1] = x
        BY <3>1, <3>2, <3>4
      <4>2. x..x - 1 = {}
        BY <3>1
      <4> QED
        BY <4>1, <4>2 DEF GapsTrue, Dense
    <3>5. CASE top # -1
      <4> DEFINE first == log.heard[1]
      <4>1. first \in Nat /\ log'.heard[1] = first
        BY <1>2, <3>1, <3>2, <3>5, TopIsHighest
      <4>2. Dense(Heard, first, top)
        BY <1>2, <3>5 DEF GapsTrue
      <4> HIDE DEF first
      <4>3. ASSUME NEW i \in first..top' - 1 PROVE \E h \in Heard' : i < h /\ h < i + MaxDelay
        <5>1. CASE i < top
          <6>1. i \in first..top - 1
            BY <3>1, <4>1, <5>1
          <6> QED
            BY <3>2, <4>2, <6>1 DEF Dense
        <5>2. CASE ~(i < top)
          <6>1. i < x /\ x < i + MaxDelay
            BY <3>1, <3>3, <3>5, <4>1, <5>2
          <6> QED
            BY <3>2, <6>1
        <5> QED
          BY <5>1, <5>2
      <4> QED
        BY <4>1, <4>3 DEF GapsTrue, Dense
    <3> QED
      BY <3>4, <3>5
  <2> QED
    BY <1>2, <2>1, <2>2, ReceiverSteps DEF IInv
<1> QED
  BY <1>1, <1>2

(* Nothing arrives when the stream has ended.                              *)
EndTrue ==
    /\ DOMAIN count = {"sends", "faults"}
    /\ ended => net = {} /\ asked = {} /\ count.sends = MaxSends

LEMMA EndInductive ==
    /\ MediaInit => EndTrue
    /\ EndTrue /\ [MediaNext]_vars => EndTrue'
<1>1. MediaInit => EndTrue
  BY DEF MediaInit, EndTrue
<1>2. ASSUME EndTrue, [MediaNext]_vars PROVE EndTrue'
  <2>0. MaxSends \in Nat
    BY MediaAssumption
  <2>1. ASSUME NEW gap \in Gaps, NEW kept \in BOOLEAN, source(gap, kept) PROVE EndTrue'
    BY <1>2, <2>0, <2>1 DEF source, EndTrue
  <2>2. ASSUME NEW p \in net, NEW again \in BOOLEAN, arrive(p, again) PROVE EndTrue'
    BY <1>2, <2>2 DEF arrive, EndTrue
  <2>3. ASSUME NEW p \in net, lose(p) PROVE EndTrue'
    BY <1>2, <2>3 DEF lose, EndTrue
  <2>4. ASSUME NEW seq \in {0, Half}, damaged(seq) PROVE EndTrue'
    BY <1>2, <2>4 DEF damaged, ReceiveDamaged, EndTrue
  <2>5. ASSUME NEW arrives \in BOOLEAN, ~ended, sendNack(arrives) PROVE EndTrue'
    BY <1>2, <2>5 DEF sendNack, svars, EndTrue
  <2>6. ASSUME runTWCC \/ eol \/ UNCHANGED vars PROVE EndTrue'
    <3>1. net' = net /\ asked' = asked /\ count' = count
      BY <2>6 DEF runTWCC, eol, vars, svars
    <3>2. ended' = ended \/ (net = {} /\ asked = {} /\ count.sends = MaxSends)
      BY <2>6 DEF runTWCC, eol, vars
    <3> QED
      BY <1>2, <3>1, <3>2 DEF EndTrue
  <2>7. ASSUME NEW seq \in asked, retransmit(seq) PROVE EndTrue'
    BY <1>2, <2>7 DEF retransmit, EndTrue
  <2> QED
    BY <1>2, <2>1, <2>2, <2>3, <2>4, <2>5, <2>6, <2>7 DEF MediaNext
<1> QED
  BY <1>1, <1>2

-----------------------------------------------------------------------------
(* The jitter buffer: what is played.                                      *)

(* Of the packets S, from first to high, those up to P are played in one   *)
(* line and the others are in the buffer j. What was passed over is more   *)
(* than the latency behind, or the buffer was full, or it is over.         *)
Plays(j, played, timely, S, first, high, over, P) ==
    /\ first \in Nat /\ high \in Nat /\ P \in Nat
    /\ first <= P /\ P <= high /\ high - P < MaxDelay + Latency
    /\ HoldsAt(j, P, Beyond(S, P)) /\ j.out = <<>> /\ Fits(S, P)
    /\ Line(played, first - 1, P)
    /\ \A i \in first..P : i \in Indices(played) \/ j.full \/ over \/ high - i > Latency
    /\ j.full \/ timely \subseteq Indices(played) \union Beyond(S, P)

(* What a call output is taken away.                                       *)
LEMMA TakenAway ==
    ASSUME NEW k, NEW a, NEW b, NEW o, NEW u, k = [present |-> a, buffer |-> b, out |-> o, full |-> u],
           NEW z, z = [k EXCEPT !.out = <<>>]
    PROVE  /\ z = [present |-> a, buffer |-> b, out |-> z.out, full |-> z.full]
           /\ z.out = <<>> /\ z.full = u /\ k.out = o /\ k.full = u
<1>1. z = [present |-> a, buffer |-> b, out |-> <<>>, full |-> u]
  OBVIOUS
<1>2. z.out = <<>> /\ z.full = u /\ k.out = o /\ k.full = u
  BY <1>1
<1> QED
  BY <1>1, <1>2

(* The end of the stream also clears the buffer.                           *)
Closed(k) == [k EXCEPT !.out = <<>>, !.buffer = {}]

IsClosed(z, a, u) ==
    /\ z = [present |-> a, buffer |-> {}, out |-> z.out, full |-> z.full]
    /\ z.out = <<>> /\ z.full = u

LEMMA TakenAll ==
    ASSUME NEW k, NEW a, NEW b, NEW o, NEW u, k = [present |-> a, buffer |-> b, out |-> o, full |-> u],
           NEW z, z = Closed(k)
    PROVE  IsClosed(z, a, u)
<1> DEFINE c == {}
<1>0. z = [k EXCEPT !.out = <<>>, !.buffer = c]
  BY DEF Closed
<1> HIDE DEF c
<1>1. z = [present |-> a, buffer |-> c, out |-> <<>>, full |-> u]
  BY <1>0
<1>2. z.out = <<>> /\ z.full = u
  BY <1>1
<1>3. z = [present |-> a, buffer |-> c, out |-> z.out, full |-> z.full]
  BY <1>1, <1>2
<1> QED
  BY <1>2, <1>3 DEF c, IsClosed

(* What is noted of a packet that arrives in time.                         *)
TimelyWith(timely, first, high, x) ==
    IF x > first /\ high - x <= Latency THEN timely \union {x} ELSE timely

Upper(high, x) == IF x > high THEN x ELSE high

(* The bounds of the network.                                              *)
LEMMA NearBounds ==
    /\ MaxDelay \in Nat \ {0} /\ Latency \in Nat /\ Half \in Nat \ {0} /\ Cycle = 2 * Half /\ Cycle \in Nat
    /\ MaxDelay + MaxDelay + Latency < Half + 2
BY CycleType, MediaAssumption

LEMMA NearCycle == Cycle \in Int /\ MaxDelay + Latency <= Cycle
BY NearBounds

(* One packet is a line.                                                   *)
LEMMA OneLine ==
    ASSUME NEW x \in Nat, NEW s, s = <<[idx |-> x, skipped |-> 0]>>
    PROVE  Line(s, x - 1, x) /\ Indices(s) = {x}
<1> DEFINE r == [idx |-> x, skipped |-> 0]
           R == [idx : Int, skipped : Int]
<1>1. r \in R /\ r.idx = x /\ r.skipped = 0 /\ s = <<r>>
  OBVIOUS
<1> HIDE DEF r, R
<1>2. s \in Seq(R) /\ Len(s) = 1 /\ s[1] = r /\ DOMAIN s = 1..1
  BY <1>1
<1>3. s \in Outputs
  BY <1>2 DEF Outputs, R
<1>4. 2..Len(s) = {}
  BY <1>2
<1>5. Line(s, x - 1, x)
  BY <1>1, <1>2, <1>3, <1>4 DEF Line
<1>6. Indices(s) = {x}
  <2>1. DOMAIN s = {1} /\ s[1].idx = x
    BY <1>1, <1>2
  <2> QED
    BY <2>1 DEF Indices
<1> QED
  BY <1>5, <1>6

(* The first packet.                                                       *)
LEMMA PlaysFirst ==
    ASSUME NEW x \in Nat, NEW k, k = J!processInput(J!Empty, Slot(x)),
           NEW z, z = [k EXCEPT !.out = <<>>], NEW played, played = <<>> \o k.out
    PROVE  Plays(z, played, {}, {x}, x, x, FALSE, x)
<1> DEFINE s == <<[idx |-> x, skipped |-> 0]>>
           a == x % Cycle
           E == Beyond({x}, x)
           none == {}
           no == FALSE
<1>1. k = [present |-> a, buffer |-> none, out |-> s, full |-> no]
  BY DEF J!processInput, J!Empty, J!Undefined, Slot
<1>2. s = <<[idx |-> x, skipped |-> 0]>> /\ s \in Seq([idx : Int, skipped : Int])
  BY OneLine DEF Line, Outputs
<1>a. a = x % Cycle
  OBVIOUS
<1>b. E = {} /\ Slots(E) = none /\ E = Beyond({x}, x)
  BY DEF Beyond, Slots
<1> HIDE DEF s, a, E, none, no
<1>6. /\ z.out = <<>> /\ k.out = s
      /\ z = [present |-> a, buffer |-> none, out |-> z.out, full |-> z.full]
  BY <1>1, TakenAway
<1>4. played = s
  BY <1>2, <1>6
<1>7. Line(played, x - 1, x) /\ Indices(played) = {x}
  BY <1>2, <1>4, OneLine
<1>8. HoldsAt(z, x, E)
  BY <1>a, <1>b, <1>6 DEF HoldsAt
<1>9. IsFiniteSet(E) /\ Cardinality(E) <= BufferSize
  BY <1>b, FS_EmptySet, MediaAssumption
<1>10. Fits({x}, x)
  BY <1>b, <1>9 DEF Fits
<1>11. \A i \in x..x : i \in Indices(played)
  BY <1>7
<1>12. x - x < MaxDelay + Latency /\ x <= x
  BY NearBounds
<1>13. {} \subseteq Indices(played) \union Beyond({x}, x)
  OBVIOUS
<1>14. HoldsAt(z, x, Beyond({x}, x)) /\ z.out = <<>>
  BY <1>b, <1>6, <1>8
<1> QED
  BY <1>7, <1>10, <1>11, <1>12, <1>13, <1>14, Zenon DEF Plays

(* A packet that is known is played already, or in the buffer.             *)
LEMMA PlaysKnown ==
    ASSUME NEW j, NEW played, NEW timely, NEW S, NEW first, NEW high, NEW P,
           Plays(j, played, timely, S, first, high, FALSE, P),
           NEW x \in Nat, x <= P \/ x \in Beyond(S, P),
           NEW k, k = [j EXCEPT !.out = <<>>], NEW z, z = [k EXCEPT !.out = <<>>],
           NEW played2, played2 = played \o k.out,
           NEW timely2, timely2 = TimelyWith(timely, first, high, x)
    PROVE  Plays(z, played2, timely2, S \union {x}, first, high, FALSE, P)
<1>0. /\ first \in Nat /\ high \in Nat /\ P \in Nat
      /\ first <= P /\ P <= high /\ high - P < MaxDelay + Latency
      /\ HoldsAt(j, P, Beyond(S, P)) /\ j.out = <<>> /\ Fits(S, P)
      /\ Line(played, first - 1, P)
      /\ \A i \in first..P : i \in Indices(played) \/ j.full \/ high - i > Latency
      /\ j.full \/ timely \subseteq Indices(played) \union Beyond(S, P)
  BY DEF Plays
<1>p. first \in Int /\ high \in Int /\ P \in Int /\ x \in Int /\ Latency \in Int
  BY <1>0, NearBounds
<1>1. Beyond(S \union {x}, P) = Beyond(S, P)
  BY <1>0 DEF Beyond
<1>2. z = j /\ k.out = <<>>
  <2> DEFINE u == j.full
             B == Slots(Beyond(S, P))
             a == P % Cycle
  <2>1. j = [present |-> a, buffer |-> B, out |-> <<>>, full |-> u]
    BY <1>0 DEF HoldsAt
  <2> HIDE DEF u, B, a
  <2>2. k = [present |-> a, buffer |-> B, out |-> <<>>, full |-> u]
    BY <2>1
  <2>3. z = [present |-> a, buffer |-> B, out |-> <<>>, full |-> u]
    BY <2>2
  <2> QED
    BY <2>1, <2>2, <2>3
<1>3. played \o <<>> = played
  BY <1>0 DEF Line, Outputs
<1>4. Fits(S \union {x}, P)
  BY <1>0, <1>1 DEF Fits
<1>5. j.full \/ timely2 \subseteq Indices(played) \union Beyond(S, P)
  <2> SUFFICES ASSUME ~j.full, x > first, high - x <= Latency PROVE x \in Indices(played) \union Beyond(S, P)
    BY <1>0 DEF TimelyWith
  <2>1. CASE x <= P
    <3>1. x \in first..P /\ ~(high - x > Latency)
      BY <1>p, <2>1
    <3> QED
      BY <1>0, <3>1
  <2> QED
    BY <2>1
<1>6. played2 = played
  BY <1>2, <1>3
<1> QED
  BY <1>0, <1>1, <1>2, <1>4, <1>5, <1>6 DEF Plays

(* A packet that is new is taken in.                                       *)
LEMMA PlaysNew ==
    ASSUME NEW j, NEW played, NEW timely, NEW S, NEW first, NEW high, NEW P,
           Plays(j, played, timely, S, first, high, FALSE, P), S \in SUBSET (0..high),
           NEW x \in Nat, x > P,
           NEW high2, high2 = Upper(high, x),
           NEW S2, S2 = S \union {x}, Dense(S2, first, high2),
           NEW k, NEW G, G = Beyond(S, P) \union {x}, NEW Q, Q \in Nat, TakesIn(k, j, P, Q, G, x),
           NEW z, z = [k EXCEPT !.out = <<>>],
           NEW played2, played2 = played \o k.out,
           NEW timely2, timely2 = TimelyWith(timely, first, high, x)
    PROVE  Plays(z, played2, timely2, S2, first, high2, FALSE, Q)
<1>0. /\ first \in Nat /\ high \in Nat /\ P \in Nat
      /\ first <= P /\ P <= high /\ high - P < MaxDelay + Latency
      /\ Line(played, first - 1, P)
      /\ \A i \in first..P : i \in Indices(played) \/ j.full \/ high - i > Latency
      /\ j.full \/ timely \subseteq Indices(played) \union Beyond(S, P)
  BY DEF Plays
<1>1. /\ Fits(G, Q)
      /\ \A g \in G : x - g > Latency => g <= Q
      /\ j.full => k.full
      /\ k.full \/ \A i \in P + 1..Q : i \in G \/ x - i > Latency
      /\ P <= Q /\ (Q = P \/ Q \in G)
      /\ Line(k.out, P, Q) /\ Indices(k.out) = {g \in G : g <= Q}
      /\ k = [present |-> Q % Cycle, buffer |-> Slots(Beyond(G, Q)), out |-> k.out, full |-> k.full]
  BY DEF TakesIn, Buffers
<1>2. /\ MaxDelay \in Nat \ {0} /\ Latency \in Nat /\ Half \in Nat \ {0} /\ Cycle = 2 * Half /\ Cycle \in Nat
      /\ MaxDelay + Latency <= Half
  BY NearBounds
<1>3. high2 \in Nat /\ high <= high2 /\ x <= high2 /\ (high2 = high \/ (high2 = x /\ x > high))
  BY <1>0 DEF Upper
<1> HIDE DEF TakesIn
<1>4. \A h : h \in G <=> (h \in S /\ h > P) \/ h = x
  BY DEF Beyond
<1>5. \A h \in S : h \in Int /\ 0 <= h /\ h <= high
  BY <1>0
<1>a. /\ first \in Int /\ high \in Int /\ P \in Int /\ Q \in Int /\ x \in Int /\ high2 \in Int
      /\ P <= Q /\ high - P < MaxDelay + Latency
  BY <1>0, <1>1, <1>3
<1>b. MaxDelay \in Int /\ 0 < MaxDelay /\ Latency \in Int /\ 0 <= Latency
  BY <1>2
<1>6. Beyond(S2, Q) = Beyond(G, Q)
  <2>1. ASSUME NEW h PROVE h \in S2 /\ h > Q <=> h \in G /\ h > Q
    BY <1>0, <1>1, <1>4, <1>5
  <2> QED
    BY <2>1 DEF Beyond
<1>7. /\ z = [present |-> Q % Cycle, buffer |-> Slots(Beyond(S2, Q)), out |-> z.out, full |-> z.full]
      /\ z.out = <<>> /\ z.full = k.full
  <2> DEFINE a == Q % Cycle
             b == Slots(Beyond(G, Q))
             o == k.out
             u == k.full
  <2>1. /\ k = [present |-> a, buffer |-> b, out |-> o, full |-> u] /\ u = k.full
        /\ b = Slots(Beyond(S2, Q)) /\ a = Q % Cycle
    BY <1>1, <1>6
  <2> HIDE DEF a, b, o, u
  <2>2. /\ z = [present |-> a, buffer |-> b, out |-> z.out, full |-> z.full]
        /\ z.out = <<>> /\ z.full = u
    BY <2>1, TakenAway
  <2> QED
    BY <2>1, <2>2
<1>8. Q <= high2
  <2>1. Q = P \/ Q = x \/ Q <= high
    BY <1>1, <1>4, <1>5
  <2>2. P <= high /\ high <= high2 /\ x <= high2
    BY <1>0, <1>3
  <2> QED
    BY <1>a, <2>1, <2>2
<1>9. high2 - Q < MaxDelay + Latency
  <2>1. CASE high2 = high
    BY <1>a, <1>b, <2>1
  <2>2. CASE high2 = x /\ x > high
    <3> SUFFICES ASSUME x - Q >= MaxDelay + Latency PROVE FALSE
      BY <1>2, <2>2
    <3> DEFINE i == x - Latency - MaxDelay
    <3>0. first <= Q /\ high2 = x /\ x - Q >= MaxDelay + Latency
      BY <1>0, <1>a, <2>2
    <3>1. i \in first..high2 - 1 /\ i >= Q /\ i \in Int
      BY <1>a, <1>b, <3>0
    <3>2. i + MaxDelay = x - Latency
      BY <1>a, <1>b
    <3> HIDE DEF i
    <3>3. PICK h \in S2 : i < h /\ h < i + MaxDelay
      BY <3>1 DEF Dense
    <3>4. h # x
      BY <1>2, <3>2, <3>3
    <3>5. h \in S /\ h \in Int /\ h > P
      BY <1>0, <1>1, <1>5, <3>1, <3>3, <3>4
    <3>6. h \in G /\ x - h > Latency
      BY <1>2, <1>4, <3>2, <3>3, <3>5
    <3>7. h <= Q
      BY <1>1, <3>6
    <3> QED
      BY <3>1, <3>3, <3>5, <3>7
  <2> QED
    BY <1>3, <2>1, <2>2
<1>10. HoldsAt(z, Q, Beyond(S2, Q))
  <2>1. ASSUME NEW h \in Beyond(S2, Q) PROVE h \in Q + 1..Q + Cycle - 1
    <3>1. h \in Int /\ h > Q /\ h <= high2
      <4>1. h \in S2 /\ h > Q
        BY <2>1 DEF Beyond
      <4>2. h \in S => h \in Int /\ h <= high2
        BY <1>0, <1>3, <1>5
      <4> QED
        BY <1>3, <4>1, <4>2
    <3>2. Cycle \in Int /\ MaxDelay + Latency <= Cycle
      BY NearCycle
    <3>3. h < Q + Cycle
      BY <1>9, <1>a, <1>b, <3>1, <3>2
    <3> QED
      BY <1>a, <3>1, <3>2, <3>3
  <2>2. Beyond(S2, Q) \in SUBSET (Q + 1..Q + Cycle - 1)
    BY <2>1
  <2> QED
    BY <1>7, <2>2 DEF HoldsAt
<1>11. Line(played2, first - 1, Q) /\ Indices(played2) = Indices(played) \union Indices(k.out)
  <2> DEFINE a == first - 1
             t == k.out
  <2>1. Line(played, a, P) /\ Line(t, P, Q) /\ played2 = played \o t
    BY <1>0, <1>1
  <2> HIDE DEF a, t
  <2>2. Line(played2, a, Q) /\ Indices(played2) = Indices(played) \union Indices(t)
    BY <2>1, LineJoin
  <2> QED
    BY <2>2 DEF a, t
<1>12. ASSUME NEW i \in first..Q PROVE i \in Indices(played2) \/ z.full \/ high2 - i > Latency
  <2>1. CASE i <= P
    <3>1. i \in Indices(played) \/ j.full \/ high - i > Latency
      <4>1. i \in first..P
        BY <1>a, <2>1
      <4> QED
        BY <1>0, <4>1
    <3>2. high - i > Latency => high2 - i > Latency
      BY <1>3, <1>a, <1>b
    <3> QED
      BY <1>1, <1>7, <1>11, <3>1, <3>2
  <2>2. CASE ~(i <= P)
    <3>1. k.full \/ i \in G \/ x - i > Latency
      <4>1. i \in P + 1..Q
        BY <1>a, <2>2
      <4> QED
        BY <1>1, <4>1
    <3>2. x - i > Latency => high2 - i > Latency
      BY <1>3, <1>a, <1>b
    <3>3. i \in G => i \in Indices(k.out)
      BY <1>1
    <3> QED
      BY <1>7, <1>11, <3>1, <3>2, <3>3
  <2> QED
    BY <2>1, <2>2
<1>13. G \subseteq Indices(played2) \union Beyond(S2, Q)
  <2>1. ASSUME NEW g \in G PROVE g \in Indices(k.out) \/ g \in Beyond(G, Q)
    <3>1. g \in Int
      BY <1>4, <1>5
    <3> QED
      BY <1>1, <3>1 DEF Beyond
  <2> QED
    BY <1>6, <1>11, <2>1
<1>14. z.full \/ timely2 \subseteq Indices(played2) \union Beyond(S2, Q)
  <2> SUFFICES ASSUME ~k.full PROVE timely2 \subseteq Indices(played2) \union Beyond(S2, Q)
    BY <1>7
  <2>1. timely \subseteq Indices(played) \union Beyond(S, P)
    BY <1>0, <1>1
  <2>2. Beyond(S, P) \subseteq G /\ x \in G
    OBVIOUS
  <2> QED
    BY <1>11, <1>13, <2>1, <2>2 DEF TimelyWith
<1>15. Fits(S2, Q)
  BY <1>1, <1>6 DEF Fits
<1>16. first <= Q
  BY <1>0, <1>1
<1> QED
  BY <1>0, <1>3, <1>7, <1>8, <1>9, <1>10, <1>11, <1>12, <1>14, <1>15, <1>16 DEF Plays

(* A packet x, not too far from the highest one, and what follows it.      *)
Comes(j, played, S, first, high, x, z, played2, S2, high2) ==
    /\ S \in SUBSET (0..high) /\ x \in Nat /\ x - high < MaxDelay /\ high - x < Half
    /\ high2 = Upper(high, x) /\ S2 = S \union {x} /\ Dense(S2, first, high2)
    /\ z = [J!processInput(j, Slot(x)) EXCEPT !.out = <<>>]
    /\ played2 = played \o J!processInput(j, Slot(x)).out

PlaysAt(j, played, timely, S, first, high, over) ==
    \E P \in Nat : Plays(j, played, timely, S, first, high, over, P)

LEMMA PlaysOn ==
    ASSUME NEW j, NEW played, NEW timely, NEW S, NEW first, NEW high, NEW x,
           NEW z, NEW played2, NEW S2, NEW high2,
           PlaysAt(j, played, timely, S, first, high, FALSE),
           Comes(j, played, S, first, high, x, z, played2, S2, high2)
    PROVE  PlaysAt(z, played2, TimelyWith(timely, first, high, x), S2, first, high2, FALSE)
<1> DEFINE k == J!processInput(j, Slot(x))
           timely2 == TimelyWith(timely, first, high, x)
<1>p. PICK P \in Nat : Plays(j, played, timely, S, first, high, FALSE, P)
  BY DEF PlaysAt
<1>c. /\ S \in SUBSET (0..high) /\ x \in Nat /\ x - high < MaxDelay /\ high - x < Half
      /\ high2 = Upper(high, x) /\ S2 = S \union {x} /\ Dense(S2, first, high2)
      /\ z = [k EXCEPT !.out = <<>>] /\ played2 = played \o k.out
      /\ k = J!processInput(j, Slot(x)) /\ timely2 = TimelyWith(timely, first, high, x)
  BY DEF Comes
<1> HIDE DEF k, timely2
<1> DEFINE B == Beyond(S, P)
<1>0. /\ first \in Nat /\ high \in Nat /\ P \in Nat
      /\ first <= P /\ P <= high /\ high - P < MaxDelay + Latency /\ HoldsAt(j, P, B)
  BY <1>p DEF Plays
<1>1. /\ MaxDelay \in Nat \ {0} /\ Latency \in Nat /\ Half \in Nat \ {0}
      /\ MaxDelay + MaxDelay + Latency < Half + 2
  BY NearBounds
<1>2. x - P < Half /\ P - x < Half
  <2>1. /\ P \in Int /\ high \in Int /\ x \in Int /\ Half \in Int /\ MaxDelay \in Int /\ Latency \in Int
        /\ 0 < MaxDelay /\ 0 <= Latency /\ P <= high
    BY <1>0, <1>1, <1>c
  <2>2. high - P < MaxDelay + Latency /\ x - high < MaxDelay /\ high - x < Half
    BY <1>0, <1>c
  <2>3. MaxDelay + MaxDelay + Latency < Half + 2
    BY <1>1
  <2> QED
    BY <2>1, <2>2, <2>3
<1>3. \A b \in B : b \in Int /\ b > P /\ b <= high
  BY <1>0, <1>c DEF Beyond
<1>4. \A b \in B : x - b < Half /\ b - x < Half
  <2> SUFFICES ASSUME NEW b \in B PROVE x - b < Half /\ b - x < Half
    OBVIOUS
  <2>1. b \in Int /\ b > P /\ b <= high /\ P \in Int /\ high \in Int /\ x \in Int /\ Half \in Int
    BY <1>0, <1>1, <1>3, <1>c
  <2> HIDE DEF B
  <2> QED
    BY <1>2, <1>c, <2>1
<1>b. B = Beyond(S, P)
  OBVIOUS
<1> HIDE DEF B
<1>5. CASE x <= P \/ x \in B
  <2>1. k = [j EXCEPT !.out = <<>>]
    BY <1>0, <1>2, <1>4, <1>5, <1>c, Inputs
  <2>2. Plays(z, played2, timely2, S \union {x}, first, high, FALSE, P)
    BY <1>5, <1>b, <1>c, <1>p, <2>1, PlaysKnown
  <2>3. high2 = high
    BY <1>0, <1>3, <1>5, <1>c DEF Upper
  <2> QED
    BY <1>0, <1>c, <2>2, <2>3 DEF PlaysAt
<1>6. CASE ~(x <= P \/ x \in B)
  <2>1. PICK Q \in Nat : TakesIn(k, j, P, Q, B \union {x}, x)
    BY <1>0, <1>2, <1>4, <1>6, <1>c, Inputs
  <2> DEFINE G == B \union {x}
  <2>2. G = Beyond(S, P) \union {x} /\ TakesIn(k, j, P, Q, G, x) /\ x > P
    BY <1>0, <1>6, <1>b, <1>c, <2>1
  <2> HIDE DEF G
  <2>3. Plays(z, played2, timely2, S2, first, high2, FALSE, Q)
    BY <1>c, <1>p, <2>2, PlaysNew
  <2> QED
    BY <2>3 DEF PlaysAt, timely2
<1> QED
  BY <1>5, <1>6

(* The end of the stream: everything is played.                            *)
LEMMA PlaysEnd ==
    ASSUME NEW j, NEW played, NEW timely, NEW S, NEW first, NEW high, NEW P,
           Plays(j, played, timely, S, first, high, FALSE, P), S \in SUBSET (0..high),
           NEW k, k = J!endOfLife(j), NEW z, z = Closed(k),
           NEW played2, played2 = played \o k.out
    PROVE  \E Q \in Nat : Plays(z, played2, timely, S, first, high, TRUE, Q)
<1> DEFINE B == Beyond(S, P)
<1>0. /\ first \in Nat /\ high \in Nat /\ P \in Nat
      /\ first <= P /\ P <= high /\ high - P < MaxDelay + Latency
      /\ HoldsAt(j, P, B) /\ Line(played, first - 1, P)
      /\ j.full \/ timely \subseteq Indices(played) \union B
  BY DEF Plays
<1>1. \A b \in B : b \in Int /\ b > P /\ b <= high /\ b \in S
  BY <1>0 DEF Beyond
<1>2. \A h \in S : h \in Int
  OBVIOUS
<1>b. B = Beyond(S, P)
  OBVIOUS
<1> HIDE DEF B
<1>3. PICK Q \in Nat : Buffers(k, P, Q, B) /\ k.full = j.full /\ \A b \in B : b <= Q
  BY <1>0, Ends
<1>4. /\ P <= Q /\ (Q = P \/ Q \in B)
      /\ Line(k.out, P, Q) /\ Indices(k.out) = {g \in B : g <= Q}
      /\ k = [present |-> Q % Cycle, buffer |-> Slots(Beyond(B, Q)), out |-> k.out, full |-> k.full]
  BY <1>3 DEF Buffers
<1>5. Indices(k.out) = B
  BY <1>3, <1>4
<1>6. Beyond(S, Q) = {} /\ Slots({}) = {}
  <2>1. ASSUME NEW h \in S, h > Q PROVE FALSE
    <3>1. h \in B
      BY <1>0, <1>2, <1>4, <1>b, <2>1 DEF Beyond
    <3> QED
      BY <1>2, <1>3, <2>1, <3>1
  <2> QED
    BY <2>1 DEF Beyond, Slots
<1>7. /\ z = [present |-> Q % Cycle, buffer |-> {}, out |-> z.out, full |-> z.full]
      /\ z.out = <<>> /\ z.full = j.full
  <2> DEFINE a == Q % Cycle
             b == Slots(Beyond(B, Q))
             o == k.out
             u == k.full
  <2>1. k = [present |-> a, buffer |-> b, out |-> o, full |-> u] /\ u = j.full
    BY <1>3, <1>4
  <2>2. a = Q % Cycle
    OBVIOUS
  <2> HIDE DEF a, b, o, u
  <2>3. IsClosed(z, a, u)
    BY <2>1, TakenAll
  <2> QED
    BY <2>1, <2>2, <2>3 DEF IsClosed
<1>8. HoldsAt(z, Q, Beyond(S, Q))
  BY <1>6, <1>7 DEF HoldsAt
<1>9. Fits(S, Q)
  <2>1. IsFiniteSet({}) /\ Cardinality({}) = 0 /\ BufferSize \in Nat
    BY FS_EmptySet, MediaAssumption
  <2> DEFINE E == Beyond(S, Q)
  <2>2. E = {}
    BY <1>6
  <2> HIDE DEF E
  <2>3. IsFiniteSet(E) /\ Cardinality(E) <= BufferSize
    BY <2>1, <2>2
  <2> QED
    BY <2>3 DEF Fits, E
<1>10. Line(played2, first - 1, Q) /\ Indices(played2) = Indices(played) \union Indices(k.out)
  <2> DEFINE a == first - 1
             t == k.out
  <2>1. Line(played, a, P) /\ Line(t, P, Q) /\ played2 = played \o t
    BY <1>0, <1>4
  <2> HIDE DEF a, t
  <2>2. Line(played2, a, Q) /\ Indices(played2) = Indices(played) \union Indices(t)
    BY <2>1, LineJoin
  <2> QED
    BY <2>2 DEF a, t
<1>11. z.full \/ timely \subseteq Indices(played2) \union Beyond(S, Q)
  BY <1>0, <1>5, <1>7, <1>10
<1>12. first <= Q /\ Q <= high /\ high - Q < MaxDelay + Latency
  <2>1. P <= Q /\ Q <= high
    BY <1>0, <1>1, <1>4
  <2>2. /\ first \in Int /\ P \in Int /\ Q \in Int /\ high \in Int /\ MaxDelay \in Int /\ Latency \in Int
        /\ first <= P /\ high - P < MaxDelay + Latency
    BY <1>0, NearBounds
  <2> QED
    BY <2>1, <2>2
<1> QED
  BY <1>0, <1>7, <1>8, <1>9, <1>10, <1>11, <1>12 DEF Plays

(* An end without a packet.                                                *)
LEMMA EmptyEnd ==
    ASSUME NEW k, k = J!endOfLife(J!Empty)
    PROVE  k.out = <<>>
<1> DEFINE j == [J!Empty EXCEPT !.out = <<>>]
           D == J!Distances(j)
           limit == Cycle - 1
           s == Stop(D, limit)
           E == {d \in D : d <= s}
           q == J!Ascending(E)
           at(d) == CHOOSE p \in j.buffer : J!distance(j, p) = d
           before(i) == IF i = 1 THEN 0 ELSE q[i - 1]
           t == [i \in DOMAIN q |-> [idx |-> at(q[i]).idx, skipped |-> q[i] - before(i) - 1]]
<1>1. k = [j EXCEPT !.present = (@ + s) % Cycle,
                    !.buffer = {p \in @ : J!distance(j, p) > s},
                    !.out = @ \o t]
  BY DEF J!endOfLife, J!releaseUntil, Stop, Reach
<1>2. j.buffer = {} /\ j.out = <<>> /\ DOMAIN j = {"present", "buffer", "out", "full"}
  BY DEF J!Empty
<1>3. E = {}
  BY <1>2 DEF J!Distances
<1>4. DOMAIN q = {}
  <2> HIDE DEF E
  <2>1. Cardinality(E) = 0 /\ IsFiniteSet(E) /\ E \subseteq Int
    BY <1>3, FS_EmptySet
  <2>2. Sorted(q, Cardinality(E), E)
    BY <2>1, BufferSorts
  <2>3. q \in [1..0 -> E]
    BY <2>1, <2>2 DEF Sorted
  <2>4. 1..0 = {}
    OBVIOUS
  <2> HIDE DEF q
  <2> QED
    BY <2>3, <2>4
<1> HIDE DEF j, D, s, E, q
<1>5. t = <<>>
  <2>1. t = [i \in {} |-> [idx |-> at(q[i]).idx, skipped |-> q[i] - before(i) - 1]]
    BY <1>4
  <2> HIDE DEF at, before
  <2> QED
    BY <2>1
<1> HIDE DEF t
<1>6. k.out = j.out \o t
  BY <1>1, <1>2
<1>7. <<>> \o <<>> = <<>>
  OBVIOUS
<1> QED
  BY <1>2, <1>5, <1>6, <1>7

(* What is played is in sequence, and what was timely is played.           *)
LEMMA PlaysSafe ==
    ASSUME NEW j, NEW played, NEW timely, NEW S, NEW first, NEW high, NEW over, NEW P,
           Plays(j, played, timely, S, first, high, over, P)
    PROVE  /\ \A i \in 2..Len(played) : played[i].idx = played[i - 1].idx + played[i].skipped + 1
           /\ j.full \/ timely \subseteq {played[i].idx : i \in DOMAIN played} \union {p.idx : p \in j.buffer}
           /\ Cardinality(j.buffer) <= BufferSize
<1> DEFINE B == Beyond(S, P)
           f == [h \in B |-> Slot(h)]
<1>0. /\ HoldsAt(j, P, B) /\ Fits(S, P) /\ Line(played, first - 1, P)
      /\ j.full \/ timely \subseteq Indices(played) \union B
  BY DEF Plays
<1>1. j.buffer = Slots(B)
  BY <1>0 DEF HoldsAt
<1>2. \A h \in B : Slot(h) \in j.buffer /\ Slot(h).idx = h
  BY <1>1 DEF Slots, Slot
<1>3. IsFiniteSet(B) /\ Cardinality(B) <= BufferSize
  BY <1>0 DEF Fits
<1>4. \A w \in j.buffer : \E h \in B : w = f[h]
  BY <1>1 DEF Slots
<1>5. DOMAIN f = B
  OBVIOUS
<1> HIDE DEF B, f
<1>6. Cardinality(j.buffer) \in Nat /\ Cardinality(j.buffer) <= Cardinality(B)
  BY <1>3, <1>4, <1>5, ReachedBound
<1>7. Cardinality(j.buffer) <= BufferSize
  <2>1. Cardinality(B) \in Nat /\ BufferSize \in Nat
    BY <1>3, FS_CardinalityType, MediaAssumption
  <2> QED
    BY <1>3, <1>6, <2>1
<1>8. B \subseteq {p.idx : p \in j.buffer}
  BY <1>2
<1>9. \A i \in 2..Len(played) : played[i].idx = played[i - 1].idx + played[i].skipped + 1
  BY <1>0 DEF Line
<1> QED
  BY <1>0, <1>7, <1>8, <1>9 DEF Indices

-----------------------------------------------------------------------------
(* The jitter buffer in the media stream.                                  *)

(* The number of an index.                                                 *)
LEMMA NumberOf ==
    ASSUME NEW c \in Nat, NEW s \in 0..Cycle - 1
    PROVE  packetIndex(c, s) % Cycle = s
<1> DEFINE M == Cycle
           x == packetIndex(c, s)
           r == x % M
           d == x \div M
           q == c - d
<1>0. M \in Nat \ {0} /\ x = c * M + s /\ x \in Int
  BY CycleType DEF packetIndex
<1>1. r \in 0..M - 1 /\ d \in Int /\ x = M * d + r
  <2> HIDE DEF M, x
  <2> QED
    BY <1>0, Quotient
<1>2. s \in 0..M - 1
  OBVIOUS
<1> HIDE DEF M, r, d, x
<1>3. q \in Int /\ M * q = M * c - M * d
  BY <1>0, <1>1
<1>4. r = s + M * q
  <2>1. M * c = c * M /\ M * c \in Int /\ M * d \in Int
    BY <1>0, <1>1
  <2> HIDE DEF q
  <2> QED
    BY <1>0, <1>1, <1>2, <1>3, <2>1
<1> HIDE DEF q
<1>5. r - s < M /\ s - r < M /\ r \in Int /\ s \in Int
  BY <1>0, <1>1, <1>2
<1>6. r = s
  BY <1>0, <1>3, <1>4, <1>5, Remainders
<1> QED
  BY <1>6 DEF r, x, M

(* What handleRTP plays.                                                   *)
LEMMA LogPlays ==
    ASSUME DOMAIN log = Fields, NEW p, handleRTP(p), NEW x, x = Index(p), p.seq = x % Cycle,
           NEW k, k = J!processInput(jitter, Slot(x))
    PROVE  /\ log'.played = log.played \o k.out
           /\ log'.timely = IF Heard # {} /\ x > log.heard[1] /\ Highest(Heard) - x <= Latency
                            THEN log.timely \union {x} ELSE log.timely
           /\ jitter' = [k EXCEPT !.out = <<>>]
<1> DEFINE w == p.wide + WideStart
           t == IF wide.on THEN T!handleTWCC(twcc, w) ELSE twcc
           g == [log EXCEPT !.wides = @ \union {w},
                            !.late = IF \E r \in log.reported : w < r THEN @ \union {w} ELSE @,
                            !.offset = IF log.wides = {} THEN (w % WideMod) - w ELSE @]
           entries == twcc.info \union {Entry(w)}
           h == Tell(g, t, entries)
           timely == IF Heard # {} /\ x > log.heard[1] /\ Highest(Heard) - x <= Latency
                     THEN log.timely \union {x} ELSE log.timely
           also(y) == IF Heard # {} /\ x > log.heard[1] /\ Highest(Heard) - x <= Latency
                      THEN y \union {x} ELSE y
           heard(y) == IF x \in Heard THEN y ELSE Append(y, x)
<1>0. Slot(x) = [seq |-> p.seq, ts |-> (x + TsStart) % TsMod, idx |-> x]
  BY DEF Slot
<1>1. /\ log' = [h EXCEPT !.heard = heard(@), !.timely = also(@), !.played = @ \o k.out]
      /\ jitter' = [k EXCEPT !.out = <<>>]
  BY <1>0 DEF handleRTP, Entry
<1>2. DOMAIN g = Fields /\ g.timely = log.timely /\ g.played = log.played
  BY DEF Fields
<1>3. h = Tell(g, t, entries) /\ also(log.timely) = timely
  OBVIOUS
<1> HIDE DEF g, h, t, entries, also, heard, timely
<1>4. Told(h, g, t.sent, entries)
  BY <1>2, <1>3, TellFields
<1>5. DOMAIN h = Fields /\ h.timely = log.timely /\ h.played = log.played
  BY <1>2, <1>4 DEF Told
<1>6. log'.played = log.played \o k.out /\ log'.timely = timely
  BY <1>1, <1>3, <1>5 DEF Fields
<1> QED
  BY <1>1, <1>6 DEF timely

(* A packet arrives at the jitter buffer, the stream ends, or neither.     *)
Rests ==
    /\ UNCHANGED <<jitter, ended, top>>
    /\ log'.played = log.played /\ log'.timely = log.timely /\ log'.heard = log.heard

LEMMA PlayerSteps ==
    ASSUME StreamTypeOK, DOMAIN log = Fields, EndTrue, [MediaNext]_vars
    PROVE  \/ Rests
           \/ eol /\ top' = top
           \/ \E p \in net, again \in BOOLEAN : Accepts(p, again) /\ ~ended /\ ended' = ended
<1>1. ASSUME UNCHANGED <<jitter, ended, top, log>> PROVE Rests
  BY <1>1 DEF Rests
<1>2. ASSUME NEW gap \in Gaps, NEW kept \in BOOLEAN, source(gap, kept) PROVE Rests
  BY <1>1, <1>2 DEF source, Send
<1>3. ASSUME NEW seq \in asked, retransmit(seq) PROVE Rests
  <2>1. (\E c \in cache : Resend(c)) \/ UNCHANGED svars
    BY <1>3 DEF retransmit
  <2>2. top' = top
    BY <2>1 DEF Resend, svars
  <2> QED
    BY <1>1, <1>3, <2>2 DEF retransmit
<1>4. ASSUME NEW p \in net, NEW again \in BOOLEAN, arrive(p, again)
      PROVE  Rests \/ (Accepts(p, again) /\ ~ended /\ ended' = ended)
  <2>1. CASE Authentic(rcv, p)
    <3>1. ~ended
      BY <1>4 DEF EndTrue
    <3> QED
      BY <1>4, <2>1, <3>1 DEF arrive, Receive, Accepts
  <2>2. CASE ~Authentic(rcv, p)
    <3>1. top' = top
      BY <1>4, <2>2, RefusedKeeps DEF arrive
    <3> QED
      BY <1>1, <1>4, <2>2, <3>1 DEF arrive
  <2> QED
    BY <2>1, <2>2
<1>5. ASSUME NEW p \in net, lose(p) PROVE Rests
  BY <1>1, <1>5 DEF lose, Lose
<1>6. ASSUME NEW seq \in {0, Half}, damaged(seq) PROVE Rests
  BY <1>1, <1>6 DEF damaged, ReceiveDamaged
<1>7. ASSUME NEW arrives \in BOOLEAN, sendNack(arrives) PROVE Rests
  BY <1>1, <1>7 DEF sendNack, svars
<1>8. ASSUME runTWCC PROVE Rests
  <2>1. log' = Tell(log, T!sendTWCC(twcc), twcc.info) /\ UNCHANGED <<jitter, ended, svars>>
    BY <1>8 DEF runTWCC
  <2> DEFINE h == log'
             t == T!sendTWCC(twcc)
             entries == twcc.info
             g == log
  <2>2. h = Tell(g, t, entries) /\ DOMAIN g = Fields
    BY <2>1
  <2> HIDE DEF h, t, entries, g
  <2>3. Told(h, g, t.sent, entries)
    BY <2>2, TellFields
  <2>4. h.heard = g.heard /\ h.timely = g.timely /\ h.played = g.played
    BY <2>3 DEF Told
  <2> QED
    BY <2>1, <2>4 DEF Rests, svars, h, g
<1>9. ASSUME eol PROVE top' = top
  BY <1>9 DEF eol, svars
<1>10. UNCHANGED vars => UNCHANGED <<jitter, ended, top, log>>
  BY DEF vars, svars
<1> QED
  BY <1>1, <1>2, <1>3, <1>4, <1>5, <1>6, <1>7, <1>8, <1>9, <1>10 DEF MediaNext

(* Before the first packet nothing is played; then one line is, up to some *)
(* packet, and what has arrived of the ones behind it is in the buffer.    *)
PlayTrue ==
    /\ top = -1 => /\ log.timely = {} /\ log.played = <<>> /\ jitter.buffer = {}
                   /\ ~ended => jitter = J!Empty
    /\ top # -1 =>
          \E P \in Nat : Plays(jitter, log.played, log.timely, Heard, log.heard[1], top, ended, P)

(* A packet is accepted.                                                   *)
LEMMA AcceptPlays ==
    ASSUME IInv, NetTrue, HeardTrue, TopNear, PlayTrue, GapsTrue', ~Astray, ~ended, ended' = ended,
           NEW p \in net, NEW again \in BOOLEAN, Accepts(p, again)
    PROVE  PlayTrue'
<1> DEFINE x == Index(p)
           k == J!processInput(jitter, Slot(x))
<1>1. /\ x \in Nat /\ top \in Nat \union {-1} /\ p.seq = x % Cycle /\ Half \in Nat /\ MaxDelay \in Nat
      /\ top # -1 => top - Half < x
      /\ top = -1 \/ x > top => top' = x
      /\ top # -1 /\ x <= top => top' = top
  <2>1. /\ p.seq \in 0..Cycle - 1 /\ p.cycle \in Nat /\ x \in Nat
        /\ top # -1 => top - Half < x
        /\ top = -1 \/ x > top => top' = x
        /\ top # -1 /\ x <= top => top' = top
    BY AcceptedNear DEF Accepts
  <2>2. packetIndex(p.cycle, p.seq) % Cycle = p.seq
    BY <2>1, NumberOf
  <2>3. top \in Nat \union {-1}
    BY DEF IInv, StreamTypeOK
  <2> QED
    BY <2>1, <2>2, <2>3, NearBounds DEF Index
<1>2. /\ Heard' = Heard \union {x}
      /\ Heard # {} => log'.heard[1] = log.heard[1]
      /\ Heard = {} => log'.heard[1] = x
      /\ Heard = {} <=> top = -1
  BY <1>1, Hearing DEF Accepts, HeardTrue
<1>3. top # -1 => x - top < MaxDelay
  <2>1. x <= Last /\ (top # -1 => Last - top < MaxDelay) /\ Last \in Int
    <3>1. snd.roc \in Nat /\ snd.last \in Nat /\ Cycle \in Nat
      BY CycleType, SrtpAssumption DEF IInv, StreamTypeOK, State
    <3>2. Last \in Int
      BY <3>1 DEF Last, packetIndex
    <3> QED
      BY <3>2 DEF NetTrue, TopNear
  <2> HIDE DEF x
  <2> QED
    BY <1>1, <2>1
<1>4. /\ log'.played = log.played \o k.out
      /\ log'.timely = IF Heard # {} /\ x > log.heard[1] /\ Highest(Heard) - x <= Latency
                       THEN log.timely \union {x} ELSE log.timely
      /\ jitter' = [k EXCEPT !.out = <<>>]
  <2>1. /\ handleRTP(p) /\ DOMAIN log = Fields /\ x = Index(p) /\ p.seq = x % Cycle
        /\ k = J!processInput(jitter, Slot(x))
    BY <1>1 DEF Accepts, HeardTrue
  <2> HIDE DEF x, k
  <2> QED
    BY <2>1, LogPlays
<1>5. k = J!processInput(jitter, Slot(x))
  OBVIOUS
<1> HIDE DEF x, k
<1>6. CASE top = -1
  <2>1. log.timely = {} /\ log.played = <<>> /\ jitter = J!Empty /\ Heard = {}
    BY <1>2, <1>6 DEF PlayTrue
  <2> DEFINE none == {}
             one == {x}
             no == FALSE
  <2>2. /\ log'.timely = none /\ top' = x /\ log'.heard[1] = x /\ Heard' = one /\ ended' = no
        /\ log'.played = <<>> \o k.out
    BY <1>1, <1>2, <1>4, <1>6, <2>1
  <2>3. Plays(jitter', log'.played, none, one, x, x, no, x)
    BY <1>1, <1>4, <1>5, <2>1, <2>2, PlaysFirst
  <2> HIDE DEF none, one, no
  <2>4. Plays(jitter', log'.played, log'.timely, Heard', log'.heard[1], top', ended', x)
    BY <2>2, <2>3
  <2>5. x \in Nat /\ top' # -1
    BY <1>1, <2>2
  <2> QED
    BY <2>4, <2>5 DEF PlayTrue
<1>7. CASE top # -1
  <2> DEFINE first == log.heard[1]
             S == Heard
             played == log.played
             timely == log.timely
             high2 == Upper(top, x)
             S2 == S \union {x}
             timely2 == TimelyWith(timely, first, top, x)
  <2>0. ended = FALSE /\ ended' = FALSE
    OBVIOUS
  <2>1. PICK P \in Nat : Plays(jitter, played, timely, S, first, top, FALSE, P)
    BY <1>7, <2>0 DEF PlayTrue
  <2>2. Highest(Heard) = top /\ top \in Nat
    BY <1>1, <1>2, <1>7, TopIsHighest
  <2>3. S \in SUBSET (0..top)
    <3>1. Heard \subseteq Nat
      BY DEF Heard, HeardTrue
    <3>2. \A i \in Heard : i <= top
      BY <1>7 DEF HeardTrue
    <3> QED
      BY <2>2, <3>1, <3>2
  <2>4. top' = high2 /\ log'.heard[1] = first /\ Heard' = S2
    BY <1>1, <1>2, <1>7 DEF Upper
  <2>5. Dense(S2, first, high2)
    <3>1. top' # -1
      BY <1>1, <1>7
    <3> QED
      BY <2>4, <3>1 DEF GapsTrue
  <2>6. log'.timely = timely2
    BY <1>2, <1>4, <1>7, <2>2 DEF TimelyWith
  <2>7. x - top < MaxDelay /\ top - x < Half
    BY <1>1, <1>3, <1>7, <2>2
  <2>a. high2 = Upper(top, x) /\ S2 = S \union {x} /\ timely2 = TimelyWith(timely, first, top, x)
    OBVIOUS
  <2>b. log'.played = played \o k.out
    BY <1>4
  <2> HIDE DEF first, S, played, timely, high2, S2, timely2
  <2> DEFINE j == jitter
             z == jitter'
             played2 == log'.played
  <2>c. k = J!processInput(j, Slot(x)) /\ z = [k EXCEPT !.out = <<>>] /\ played2 = played \o k.out
    BY <1>4, <1>5, <2>b
  <2>d. Plays(j, played, timely, S, first, top, FALSE, P)
    BY <2>1
  <2> HIDE DEF j, z, played2
  <2>e. PlaysAt(j, played, timely, S, first, top, FALSE)
    BY <2>d DEF PlaysAt
  <2>f. Comes(j, played, S, first, top, x, z, played2, S2, high2)
    BY <1>1, <2>3, <2>5, <2>7, <2>a, <2>c DEF Comes
  <2>g. PlaysAt(z, played2, TimelyWith(timely, first, top, x), S2, first, high2, FALSE)
    BY <2>e, <2>f, PlaysOn
  <2>8. PICK Q \in Nat : Plays(jitter', log'.played, timely2, S2, first, high2, FALSE, Q)
    BY <2>a, <2>g DEF z, played2, PlaysAt
  <2>9. Plays(jitter', log'.played, log'.timely, Heard', log'.heard[1], top', ended', Q)
    BY <2>0, <2>4, <2>6, <2>8
  <2>10. top' # -1
    BY <1>1, <1>7
  <2> QED
    BY <2>9, <2>10 DEF PlayTrue
<1> QED
  BY <1>6, <1>7

(* The stream ends.                                                        *)
LEMMA EndPlays ==
    ASSUME IInv, HeardTrue, PlayTrue, eol, top' = top
    PROVE  PlayTrue'
<1> DEFINE k == J!endOfLife(jitter)
<1>1. /\ ~ended /\ ended' = TRUE
      /\ jitter' = Closed(k)
      /\ log' = [log EXCEPT !.played = @ \o k.out]
  BY DEF eol, Closed
<1>2. k = J!endOfLife(jitter)
  OBVIOUS
<1> HIDE DEF k
<1>3. log'.played = log.played \o k.out /\ log'.timely = log.timely /\ log'.heard = log.heard
  BY <1>1 DEF HeardTrue, Fields
<1>4. Heard' = Heard
  BY <1>3 DEF Heard
<1>5. CASE top = -1
  <2>1. log.timely = {} /\ log.played = <<>> /\ jitter = J!Empty
    BY <1>1, <1>5 DEF PlayTrue
  <2>2. k.out = <<>> /\ DOMAIN k = {"present", "buffer", "out", "full"}
    <3>1. k.out = <<>>
      BY <1>2, <2>1, EmptyEnd
    <3>2. DOMAIN k = DOMAIN [jitter EXCEPT !.out = <<>>]
      BY <1>2 DEF J!endOfLife, J!releaseUntil
    <3>3. DOMAIN [jitter EXCEPT !.out = <<>>] = {"present", "buffer", "out", "full"}
      BY <2>1 DEF J!Empty
    <3> QED
      BY <3>1, <3>2, <3>3
  <2>3. log'.played = <<>>
    <3>1. log'.played = <<>> \o <<>>
      BY <1>3, <2>1, <2>2
    <3> QED
      BY <3>1
  <2>4. jitter'.buffer = {}
    BY <1>1, <2>2 DEF Closed
  <2> QED
    BY <1>1, <1>3, <1>5, <2>1, <2>3, <2>4 DEF PlayTrue
<1>6. CASE top # -1
  <2> DEFINE first == log.heard[1]
             S == Heard
             played == log.played
             timely == log.timely
  <2>0. ended = FALSE
    BY <1>1
  <2>1. PICK P \in Nat : Plays(jitter, played, timely, S, first, top, FALSE, P)
    BY <1>6, <2>0 DEF PlayTrue
  <2>2. S \in SUBSET (0..top)
    <3>1. Heard \subseteq Nat /\ top \in Nat
      BY <1>6 DEF Heard, HeardTrue, IInv, StreamTypeOK
    <3>2. \A i \in Heard : i <= top
      BY <1>6 DEF HeardTrue
    <3> QED
      BY <3>1, <3>2
  <2>3. log'.played = played \o k.out
    BY <1>3
  <2>4. /\ log'.timely = timely /\ Heard' = S /\ log'.heard[1] = first /\ top' = top
    BY <1>3, <1>4
  <2> HIDE DEF first, S, played, timely
  <2>5. PICK Q \in Nat : Plays(jitter', log'.played, timely, S, first, top, TRUE, Q)
    BY <1>1, <1>2, <2>1, <2>2, <2>3, PlaysEnd
  <2>6. Plays(jitter', log'.played, log'.timely, Heard', log'.heard[1], top', ended', Q)
    BY <1>1, <2>4, <2>5
  <2> QED
    BY <1>6, <2>6 DEF PlayTrue
<1> QED
  BY <1>5, <1>6

(* It stays so.                                                            *)
LEMMA PlayInductive ==
    /\ MediaInit => PlayTrue
    /\ IInv /\ NetTrue /\ HeardTrue /\ TopNear /\ EndTrue /\ PlayTrue /\ GapsTrue' /\ ~Astray
          /\ [MediaNext]_vars => PlayTrue'
<1>1. MediaInit => PlayTrue
  <2> SUFFICES ASSUME MediaInit PROVE PlayTrue
    OBVIOUS
  <2>1. top = -1 /\ log.timely = {} /\ log.played = <<>> /\ jitter = J!Empty
    BY DEF MediaInit, Init
  <2>2. jitter.buffer = {}
    BY <2>1 DEF J!Empty
  <2> QED
    BY <2>1, <2>2 DEF PlayTrue
<1>2. ASSUME IInv, NetTrue, HeardTrue, TopNear, EndTrue, PlayTrue, GapsTrue', ~Astray, [MediaNext]_vars
      PROVE  PlayTrue'
  <2>1. ASSUME Rests PROVE PlayTrue'
    <3>1. /\ jitter' = jitter /\ ended' = ended /\ top' = top
          /\ log'.played = log.played /\ log'.timely = log.timely /\ log'.heard = log.heard
      BY <2>1 DEF Rests
    <3>2. Heard' = Heard
      BY <3>1 DEF Heard
    <3> QED
      BY <1>2, <3>1, <3>2 DEF PlayTrue
  <2>2. ASSUME eol, top' = top PROVE PlayTrue'
    BY <1>2, <2>2, EndPlays
  <2>3. ASSUME NEW p \in net, NEW again \in BOOLEAN, Accepts(p, again), ~ended, ended' = ended PROVE PlayTrue'
    BY <1>2, <2>3, AcceptPlays
  <2> QED
    BY <1>2, <2>1, <2>2, <2>3, PlayerSteps DEF IInv, HeardTrue
<1> QED
  BY <1>1, <1>2

(* What is played, and how much is held, is right.                         *)
LEMMA PlayedSafe ==
    ASSUME IInv, HeardTrue, LostTrue, TwccTrue, PlayTrue
    PROVE  PlayedRight
<1>1. PlayedInSequence /\ TimelyPlayed /\ Cardinality(jitter.buffer) <= BufferSize
  <2>1. CASE top = -1
    <3>1. log.timely = {} /\ log.played = <<>> /\ jitter.buffer = {}
      BY <2>1 DEF PlayTrue
    <3>2. 2..Len(log.played) = {}
      BY <3>1
    <3>3. Cardinality(jitter.buffer) <= BufferSize
      BY <3>1, FS_EmptySet, MediaAssumption
    <3> QED
      BY <3>1, <3>2, <3>3 DEF PlayedInSequence, TimelyPlayed
  <2>2. CASE top # -1
    <3> DEFINE first == log.heard[1]
               S == Heard
    <3>1. PICK P \in Nat : Plays(jitter, log.played, log.timely, S, first, top, ended, P)
      BY <2>2 DEF PlayTrue
    <3> HIDE DEF first, S
    <3> DEFINE played == log.played
               timely == log.timely
    <3>2. Plays(jitter, played, timely, S, first, top, ended, P)
      BY <3>1
    <3> HIDE DEF played, timely
    <3>3. /\ \A i \in 2..Len(played) : played[i].idx = played[i - 1].idx + played[i].skipped + 1
          /\ \/ jitter.full
             \/ timely \subseteq {played[i].idx : i \in DOMAIN played} \union {p.idx : p \in jitter.buffer}
          /\ Cardinality(jitter.buffer) <= BufferSize
      BY <3>2, PlaysSafe
    <3> QED
      BY <3>3 DEF PlayedInSequence, TimelyPlayed, played, timely
  <2> QED
    BY <2>1, <2>2
<1>2. Cardinality(twcc.info) <= MaxBuffered
  <2>1. CASE wide.on
    BY <2>1 DEF TwccTrue
  <2>2. CASE ~wide.on
    <3>1. twcc.info = {}
      BY <2>2 DEF LostTrue, T!Silent
    <3>2. Cardinality({}) = 0 /\ MaxBuffered \in Nat
      BY FS_EmptySet, WideBounds
    <3> QED
      BY <3>1, <3>2
  <2> QED
    BY <2>1, <2>2
<1>3. Cardinality(nack.lost) <= LostSize /\ asked \subseteq 0..Cycle - 1
  BY DEF LostTrue, AsksFew
<1>4. StreamTypeOK
  BY DEF IInv
<1> QED
  BY <1>1, <1>2, <1>3, <1>4 DEF PlayedRight, TypeOK

-----------------------------------------------------------------------------
(* The invariant: what holds while the rollover counter is not exhausted   *)
(* is kept by the steps up to then.                                        *)
ReceptionTrue == NetTrue /\ HeardTrue /\ StatsTrue /\ NackTrue /\ WideTrue /\ TwccTrue

PlayoutTrue == LostTrue /\ TopNear /\ GapsTrue /\ PlayTrue

(* IInv of SrtpStreamProofs is the invariant of the SRTP stream below.     *)
MediaInv == IInv /\ OneFeedback /\ EndTrue /\ (~Astray => ReceptionTrue /\ PlayoutTrue)

(* It holds at first and is kept by every step.                            *)
LEMMA MediaInductive ==
    /\ MediaInit => MediaInv
    /\ MediaInv /\ [MediaNext]_vars => MediaInv'
<1>1. MediaInit => MediaInv
  <2> SUFFICES ASSUME MediaInit PROVE MediaInv
    OBVIOUS
  <2>1. IInv
    BY InitIInv DEF MediaInit
  <2>2. NetTrue /\ OneFeedback
    BY NetInductive, OneFeedbackInductive
  <2>3. HeardTrue /\ StatsTrue
    BY HeardInductive, StatsInductive
  <2>4. NackTrue /\ WideTrue /\ TwccTrue
    BY NackInductive, WideInductive, TwccInductive
  <2>5. EndTrue /\ LostTrue /\ TopNear
    BY EndInductive, LostInductive, TopInductive
  <2>6. GapsTrue /\ PlayTrue
    BY GapsInductive, PlayInductive
  <2> QED
    BY <2>1, <2>2, <2>3, <2>4, <2>5, <2>6 DEF MediaInv, ReceptionTrue, PlayoutTrue
<1>2. ASSUME MediaInv, [MediaNext]_vars PROVE MediaInv'
  <2>1. IInv /\ OneFeedback /\ EndTrue /\ StreamTypeOK /\ [Next]_svars
    BY <1>2, StepsOfStream DEF MediaInv, IInv
  <2>2. IInv'
    BY <2>1, SendStep, ResendStep, ReceiveStep, OtherSteps DEF Next
  <2>3. OneFeedback'
    BY <1>2, <2>1, OneFeedbackInductive
  <2>4. EndTrue'
    BY <1>2, <2>1, EndInductive
  <2>5. ASSUME ~Astray' PROVE ReceptionTrue' /\ PlayoutTrue'
    <3>1. ~Astray
      BY <2>1, <2>5, StaysAstray
    <3>2. NetTrue /\ HeardTrue /\ StatsTrue /\ NackTrue /\ WideTrue /\ TwccTrue
      BY <1>2, <3>1 DEF MediaInv, ReceptionTrue
    <3>p. LostTrue /\ TopNear /\ GapsTrue /\ PlayTrue
      BY <1>2, <3>1 DEF MediaInv, PlayoutTrue
    <3>3. NetTrue' /\ HeardTrue'
      BY <1>2, <2>1, <2>5, <3>1, <3>2, NetInductive, HeardInductive
    <3>4. StatsTrue' /\ NackTrue'
      BY <1>2, <2>1, <3>1, <3>2, StatsInductive, NackInductive
    <3>5. WideTrue' /\ TwccTrue'
      BY <1>2, <2>1, <3>1, <3>2, WideInductive, TwccInductive
    <3>6. LostTrue' /\ TopNear' /\ GapsTrue'
      BY <1>2, <2>1, <2>5, <3>1, <3>2, <3>p, LostInductive, TopInductive, GapsInductive
    <3>7. PlayTrue'
      BY <1>2, <2>1, <3>1, <3>2, <3>p, <3>6, PlayInductive
    <3> QED
      BY <3>3, <3>4, <3>5, <3>6, <3>7 DEF ReceptionTrue, PlayoutTrue
  <2> QED
    BY <2>2, <2>3, <2>4, <2>5 DEF MediaInv
<1> QED
  BY <1>1, <1>2

(* The invariant holds.                                                    *)
THEOREM MediaInvariant == MediaSpec => []MediaInv
<1>1. MediaInit => MediaInv
  BY MediaInductive
<1>2. MediaInv /\ [MediaNext]_vars => MediaInv'
  BY MediaInductive
<1> QED
  BY <1>1, <1>2, PTL DEF MediaSpec

(* rtpReceiver.ts: what the statistics, the NACK handler and the           *)
(* transport-wide feedback say of the stream is what has arrived, until    *)
(* the stream is astray, when the first packet does not have the number 0, *)
(* which NackHandler takes for none.                                       *)
THEOREM ReceptionIsReported ==
    MediaSpec => [](~Astray /\ (Heard # {} => log.heard[1] # 0) => ReceptionReported)
<1> DEFINE Reported == ~Astray /\ (Heard # {} => log.heard[1] # 0) => ReceptionReported
<1>1. MediaInv => Reported
  <2> SUFFICES ASSUME MediaInv, ~Astray, Heard # {} => log.heard[1] # 0 PROVE ReceptionReported
    OBVIOUS
  <2>1. IInv /\ HeardTrue /\ StatsTrue /\ NackTrue /\ TwccTrue
    BY DEF MediaInv, ReceptionTrue
  <2>2. ExpectedExact
    BY <2>1, StatsExpect
  <2>3. LossesAsked
    BY <2>1, NackAsks
  <2>4. FeedbackExact
    BY <2>1, TwccExact
  <2> QED
    BY <2>2, <2>3, <2>4 DEF ReceptionReported
<1> HIDE DEF Reported
<1>2. MediaSpec => []Reported
  BY <1>1, MediaInvariant, PTL
<1> QED
  BY <1>2 DEF Reported

(* jitterBuffer.ts: the jitter buffer passes the packets on in sequence,   *)
(* each with the number of the ones it gave up before it; a packet that    *)
(* arrives within the latency is passed on or waits there, unless the      *)
(* buffer was full; and what it, the NACK handler and the feedback hold    *)
(* stays within their bounds.                                              *)
THEOREM PlayedInOrder == MediaSpec => [](~Astray => PlayedRight)
<1> DEFINE Played == ~Astray => PlayedRight
<1>1. MediaInv => Played
  <2> SUFFICES ASSUME MediaInv, ~Astray PROVE PlayedRight
    OBVIOUS
  <2>1. IInv /\ HeardTrue /\ TwccTrue /\ LostTrue /\ PlayTrue
    BY DEF MediaInv, ReceptionTrue, PlayoutTrue
  <2> QED
    BY <2>1, PlayedSafe
<1> HIDE DEF Played
<1>2. MediaSpec => []Played
  BY <1>1, MediaInvariant, PTL
<1> QED
  BY <1>2 DEF Played

(* The sender behind the media stream never uses one key stream for two    *)
(* packets, and its receiver stays in step with it, until it is astray.    *)
THEOREM MediaStreamSecured == MediaSpec => [](EncryptedAtIndex /\ InStep)
BY MediaIsStream, KeystreamsDiffer, ReceiverInStep, PTL
=============================================================================
