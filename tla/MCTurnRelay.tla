---------------------------- MODULE MCTurnRelay ----------------------------
EXTENDS TurnRelay

\* the clock's unit is 100 seconds: 600, 300 and 600 seconds, refresh after 500
MCIpOf == [p \in Peers |-> "ip"]

Steady == [lossy |-> FALSE, stream |-> FALSE, password |-> TRUE, nonceLifetime |-> 36]

MCScenarios ==
    { Steady,
      [Steady EXCEPT !.lossy = TRUE],
      [Steady EXCEPT !.nonceLifetime = 4],
      [Steady EXCEPT !.stream = TRUE],
      [Steady EXCEPT !.password = FALSE] }
=============================================================================
