----------------------------- MODULE FifoChannel -----------------------------
(***************************************************************************)
(* What SCTP promises a reliable ordered stream: messages, numbered in the *)
(* order they were accepted, are received in that order, one or several at *)
(* a time, none missing and none twice.                                    *)
(***************************************************************************)
EXTENDS Naturals, Sequences

VARIABLES accepted, received

chan == <<accepted, received>>

Init == accepted = 0 /\ received = <<>>

Accept == accepted' = accepted + 1 /\ UNCHANGED received

Receive ==
    /\ \E n \in Len(received) + 1 .. accepted : received' = [i \in 1 .. n |-> i]
    /\ UNCHANGED accepted

Spec == Init /\ [][Accept \/ Receive]_chan
=============================================================================
