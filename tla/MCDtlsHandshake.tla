--------------------------- MODULE MCDtlsHandshake ---------------------------
EXTENDS DtlsHandshake

NoFaults == [RetransmitCount |-> 1, prompt |-> TRUE, lossable |-> Recoverable, losses |-> 0, copies |-> 0,
             overtakes |-> 0, wrong |-> FALSE, stops |-> FALSE]

MCScenarios ==
    { [NoFaults EXCEPT !.RetransmitCount = 2, !.losses = 2],
      \* timers that fire while answers are on their way
      [NoFaults EXCEPT !.prompt = FALSE],
      \* the same, and a handler that waits for a lost message gives up
      [NoFaults EXCEPT !.RetransmitCount = 0, !.prompt = FALSE, !.losses = 1,
                       !.lossable = {"ServerKeyExchange", "CertificateVerify"}],
      \* any datagram may be lost
      [NoFaults EXCEPT !.losses = 1, !.lossable = Kinds, !.stops = TRUE],
      \* a late copy, and a datagram that overtakes another
      [NoFaults EXCEPT !.copies = 1, !.overtakes = 1],
      \* the peer shows another certificate than the description said
      [NoFaults EXCEPT !.losses = 1, !.wrong = TRUE] }
=============================================================================
