---------------------------- MODULE MCIceAgents ----------------------------
(* Two sockets per agent.  Each scenario lets one or two things go wrong.  *)
EXTENDS IceAgents

Plain == [lite |-> {}, tcp |-> FALSE, timeouts |-> 0, losses |-> 0,
          restarters |-> {}, closers |-> {}, consents |-> 0, trickle |-> FALSE,
          begun |-> FALSE,
          paths |-> Paths, controlling |-> {"A"}]

MCScenarios ==
    {[Plain EXCEPT !.trickle = TRUE],
     [Plain EXCEPT !.controlling = {"A", "B"}, !.losses = 1],
     [Plain EXCEPT !.controlling = {}, !.losses = 1],
     [Plain EXCEPT !.controlling = {"B"}, !.timeouts = 1],
     [Plain EXCEPT !.lite = {"B"}, !.losses = 1, !.consents = 1],
     [Plain EXCEPT !.tcp = TRUE, !.trickle = TRUE],
     [Plain EXCEPT !.paths = {1}, !.timeouts = 1, !.consents = 1],
     [Plain EXCEPT !.paths = {1}, !.begun = TRUE, !.restarters = {"B"}],
     [Plain EXCEPT !.paths = {1}, !.closers = {"A", "B"}]}

\* A restart while connect() still schedules checks.
RestartScenario == {[Plain EXCEPT !.paths = {1}, !.begun = TRUE, !.restarters = {"A"}]}
=============================================================================
