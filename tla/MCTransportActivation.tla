------------------------ MODULE MCTransportActivation ------------------------
(* Bounds for TransportActivation: two transports, and up to three answers. *)
EXTENDS TransportActivation

CONSTANTS a, b

MCTransports == {a, b}

Plain == [live |-> {a, b}, sctp |-> b, sctpLate |-> FALSE, answers |-> 2, restarts |-> 0,
          rollbacks |-> 0, failures |-> 0, closes |-> FALSE, midCheck |-> FALSE]

MCScenarios ==
    {\* a provisional answer, rolled back, and two more
     [Plain EXCEPT !.answers = 3, !.rollbacks = 1, !.live = {b}],
     \* a transport that joins, and a restart
     [Plain EXCEPT !.live = {a}, !.restarts = 1],
     \* a restart of one transport of two
     [Plain EXCEPT !.answers = 3, !.restarts = 1],
     \* a restart while checks run
     [Plain EXCEPT !.live = {b}, !.answers = 3, !.restarts = 1, !.midCheck = TRUE],
     \* the association joins the transport of the session
     [Plain EXCEPT !.live = {a}, !.sctp = a, !.sctpLate = TRUE],
     \* something fails
     [Plain EXCEPT !.failures = 1, !.rollbacks = 1],
     \* close() at any moment
     [Plain EXCEPT !.rollbacks = 1, !.closes = TRUE]}
=============================================================================
