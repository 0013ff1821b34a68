----------------------------- MODULE OrderedSets -----------------------------
(***************************************************************************)
(* Finite sets of numbers in order.                                        *)
(***************************************************************************)
EXTENDS Integers, FiniteSets

(* The largest member.                                                     *)
Highest(S) == CHOOSE i \in S : \A k \in S : k <= i

(* The members in ascending order.                                         *)
Ascending(S) ==
    CHOOSE q \in [1..Cardinality(S) -> S] : \A i, k \in DOMAIN q : i < k => q[i] < q[k]
=============================================================================
