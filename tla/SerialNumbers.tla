---------------------------- MODULE SerialNumbers ----------------------------
(***************************************************************************)
(* Wrapping sequence numbers as the code computes with them: RFC 1982      *)
(* comparison (packages/common/src/number.ts), the TSN successor and       *)
(* predecessor of packages/sctp/src/sctp.ts with JavaScript's remainder,   *)
(* and the order in which Array.prototype.sort() puts numbers when it is   *)
(* given no comparator.  M is the modulus: 2^16 or 2^32 in the code.       *)
(***************************************************************************)
EXTENDS Integers, Sequences

\* uint16Gt / uint32Gt: a is after b by less than half the space.
SerialGt(a, b, M) ==
    \/ a < b /\ b - a > M \div 2
    \/ a > b /\ a - b < M \div 2
SerialGte(a, b, M) == a = b \/ SerialGt(a, b, M)

\* uint16Add / uint32Add.
SerialAdd(a, b, M) == (a + b) % M

\* JavaScript's %, which takes the sign of the dividend.
JsRemainder(a, M) == IF a < 0 THEN -((-a) % M) ELSE a % M

TsnPlusOne(a, M) == JsRemainder(a + 1, M)
TsnMinusOne(a, M) == JsRemainder(a - 1, M)

\* "[...set].sort()" compares the numbers as strings: digits from the left, a
\* prefix first.  For numbers below 1000, which every model stays under.
LexScale(a) == IF a < 10 THEN 100 * a ELSE IF a < 100 THEN 10 * a ELSE a
LexLess(a, b) == LexScale(a) < LexScale(b) \/ (LexScale(a) = LexScale(b) /\ a < b)
=============================================================================
