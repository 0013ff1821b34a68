---------------------------- MODULE MCRtpSender ----------------------------
EXTENDS RtpSender

MCFirstNumber == [t \in Tracks |-> IF t = "t1" THEN 5 ELSE 2]

Plain == [pendingRtp |-> FALSE, suppresses |-> FALSE, swaps |-> FALSE]

MCScenarios ==
    { [Plain EXCEPT !.swaps = TRUE], [Plain EXCEPT !.suppresses = TRUE],
      [Plain EXCEPT !.pendingRtp = TRUE, !.suppresses = TRUE],
      [Plain EXCEPT !.pendingRtp = TRUE, !.swaps = TRUE] }
=============================================================================
