---------------------------- MODULE MCNegotiation ----------------------------
(***************************************************************************)
(* The instance TLC checks: what the two applications change in a run.     *)
(* Two transceivers and a restart on either side let every change meet an  *)
(* offer that glare rolls back; a second restart meets the first one's.    *)
(***************************************************************************)
EXTENDS Negotiation

Does(adds, restarts) == [adds |-> adds, restarts |-> restarts]
Both(p, i) == [x \in Peers |-> IF x = Polite THEN p ELSE i]

AllScenarios ==
    {Both(Does(2, 1), Does(2, 1)), Both(Does(1, 2), Does(1, 1)),
     Both(Does(1, 1), Does(1, 2)), Both(Does(3, 0), Does(2, 0))}
=============================================================================
