------------------------- MODULE MCSctpAssociation -------------------------
(* SctpAssociation for TLC: a client that offers more streams than the      *)
(* server takes, and a server that offers fewer than the client takes.      *)
EXTENDS SctpAssociation

MCOutboundStreams == [e \in Endpoint |-> IF e = "client" THEN 3 ELSE 1]
MCInboundStreams == [e \in Endpoint |-> 2]
=============================================================================
