-------------------------- MODULE MCDataChannelPair --------------------------
(***************************************************************************)
(* Scenarios for DataChannelPair.                                          *)
(***************************************************************************)
EXTENDS DataChannelPair

InBand(p) == [by |-> {p}, negotiated |-> FALSE, id |-> NoId]
Negotiated(i) == [by |-> Peers, negotiated |-> TRUE, id |-> i]
Unused == [by |-> {}, negotiated |-> FALSE, id |-> NoId]

\* Each end may close both channels, except where messages cross a close.
Bounds(lost, late, msgs, dropped) ==
    [losses |-> lost, lateTimers |-> late, sends |-> msgs, closes |-> 4, drops |-> dropped]
Play(a, b, bounds, slow) ==
    [plan |-> [c \in {"chat", "file"} |-> IF c = "chat" THEN a ELSE b],
     budget |-> bounds, eager |-> FALSE, reuse |-> FALSE, slowSends |-> slow]

AllScenarios ==
    {Play(InBand("offerer"), InBand("answerer"), Bounds(1, 0, 0, 0), FALSE),
     Play(InBand("offerer"), InBand("answerer"), [Bounds(0, 0, 1, 0) EXCEPT !.closes = 2], FALSE),
     Play(InBand("offerer"), Unused, Bounds(1, 0, 0, 0), TRUE),
     Play(InBand("offerer"), Unused, Bounds(0, 1, 0, 0), TRUE),
     Play(InBand("answerer"), Unused, Bounds(1, 0, 1, 1), FALSE),
     Play(Negotiated(1), Unused, Bounds(2, 0, 0, 1), FALSE)}
ReuseScenario ==
    {[Play(InBand("offerer"), InBand("offerer"), Bounds(0, 0, 0, 0), FALSE) EXCEPT !.reuse = TRUE]}
EagerScenario ==
    {[Play(InBand("offerer"), Unused, Bounds(0, 0, 0, 0), FALSE) EXCEPT !.eager = TRUE]}
=============================================================================
