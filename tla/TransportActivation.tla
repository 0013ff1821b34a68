------------------------- MODULE TransportActivation -------------------------
(***************************************************************************)
(* How a peer connection starts its transports and reports their state:    *)
(* TransportActivation.connect and cleanupInitialProvisional, the states   *)
(* SecureTransportManager aggregates, start() and stop() of                *)
(* RTCIceTransport and RTCDtlsTransport, and connectSctp (packages/webrtc).*)
(*                                                                         *)
(* Every answer is followed by a connect() of its own, so several calls    *)
(* may wait on one transport.  A call is [epoch, at, done]; at says for    *)
(* each transport where the call is: at an await ("start", "join", "dtls", *)
(* "dtlsJoin", "sctp"), about to go on behind one ("iceOk", "iceErr",      *)
(* "joined", "dtlsOk", "dtlsErr", "dtlsSettled", "sctpOk"), or at its end  *)
(* ("ok", progressed; "idle", not; "rejected").  What goes on behind an    *)
(* await does so before the next event (Micro).                            *)
(*                                                                         *)
(* ICE and DTLS are what IceAgents and DtlsHandshake leave of them: a      *)
(* start that succeeds, fails or never settles.                            *)
(***************************************************************************)
EXTENDS Naturals, FiniteSets, Sequences

CONSTANTS
    Transports,   \* the transports m-lines may use
    Scenarios     \* what the application and the network may do

ASSUME TransportsAssumption == IsFiniteSet(Transports) /\ Transports # {}

ASSUME ScenariosAssumption ==
    Scenarios \subseteq
        [live : SUBSET Transports, sctp : Transports, sctpLate : BOOLEAN, answers : Nat,
         restarts : Nat, rollbacks : Nat, failures : Nat, closes : BOOLEAN, midCheck : BOOLEAN]

VARIABLES s, scenario

vars == <<s, scenario>>

Waiting == {"start", "join", "dtls", "dtlsJoin", "sctp"}
Released == {"iceOk", "iceErr", "joined", "dtlsOk", "dtlsErr", "dtlsSettled", "sctpOk"}
Ended == {"none", "ok", "idle", "rejected"}

\* A transport; wait is the generation whose start() runs, 0 for none, and
\* inc tells the transports of one m-line apart that rollbacks replaced.
NewTransport(inc) ==
    [inc |-> inc, gen |-> 1, ice |-> "new", params |-> FALSE, checksStarted |-> FALSE,
     wait |-> 0, dtls |-> "new", iceStarts |-> 0, dtlsStarts |-> 0]

NewSctp(state) == [state |-> state, starts |-> 0]

Init ==
    /\ scenario \in Scenarios
    /\ s = [tr |-> [t \in Transports |-> NewTransport(0)], live |-> scenario.live,
            sctp |-> NewSctp(IF scenario.sctpLate THEN "none" ELSE "idle"), port |-> FALSE,
            conn |-> "new", iceConn |-> "new", session |-> "none", connectEpoch |-> 0,
            op |-> "idle", closing |-> "open", calls |-> <<>>,
            answers |-> scenario.answers, restarts |-> scenario.restarts,
            rollbacks |-> scenario.rollbacks, failures |-> scenario.failures]

-----------------------------------------------------------------------------
(* The aggregate states.                                                   *)

setConnectionState(x, state) == [x EXCEPT !.conn = state]

IceConnectionState(x) ==
    LET all == {x.tr[t].ice : t \in x.live}
    IN  IF x.conn = "closed" THEN "closed"
        ELSE IF "failed" \in all THEN "failed"
        ELSE IF all \subseteq {"new", "closed"} THEN "new"
        ELSE IF all \intersect {"new", "checking"} # {} THEN "checking"
        ELSE IF all \subseteq {"completed", "closed"} THEN "completed"
        ELSE "connected"

\* The agent never reports "disconnected".
updateIceConnectionState(x) ==
    LET state == IceConnectionState(x)
        y == [x EXCEPT !.iceConn = state]
    IN  IF state # x.iceConn /\ state = "failed" THEN setConnectionState(y, "failed") ELSE y

\* Mutant: the peer connection does not follow its transports.
setIceStatesQuietly(x, T, state) ==
    [x EXCEPT !.tr = [t \in Transports |->
        IF t \in T /\ x.tr[t].ice # "closed" THEN [x.tr[t] EXCEPT !.ice = state] ELSE x.tr[t]]]

\* RTCIceTransport.setState of the transports T: closed is final, and every
\* change is an event.
setIceStates(x, T, state) ==
    LET changing == {t \in T : x.tr[t].ice # "closed"}
    IN  IF changing = {} THEN x
        ELSE updateIceConnectionState(
                 [x EXCEPT !.tr = [t \in Transports |->
                     IF t \in changing THEN [x.tr[t] EXCEPT !.ice = state] ELSE x.tr[t]]])

setIceState(x, t, state) == setIceStates(x, {t}, state)

-----------------------------------------------------------------------------
(* connect(), one transport of one call.                                   *)

At(x, c, t) == x.calls[c].at[t]
Go(x, c, t, pc) == [x EXCEPT !.calls[c].at[t].pc = pc]
OnCurrent(x, c, t) == At(x, c, t).inc = x.tr[t].inc

\* SCTP.start: at most one association starts.
startSctp(x) ==
    IF x.sctp.state = "idle" THEN [x EXCEPT !.sctp = [state |-> "started", starts |-> @.starts + 1]]
    ELSE x

OnSctp(t) == t = scenario.sctp

\* Mutant: only a new DTLS transport starts the association.
startJoinedSctpNever(x, t) == x

startJoinedSctp(x, t) == IF OnSctp(t) /\ x.port THEN startSctp(x) ELSE x

connectSctp(x, c, t) ==
    IF OnSctp(t) /\ x.port /\ x.sctp.state # "none" THEN Go(startSctp(x), c, t, "sctp")
    ELSE Go(x, c, t, "ok")

\* What a call does with one transport up to its next await: where it is
\* then, what the transport becomes, whether it reports "connecting" and
\* whether an association joins.
Does(pc, transport) ==
    [pc |-> pc, transport |-> transport, connecting |-> FALSE, joins |-> FALSE]

startDtls(x, t) ==
    [Does("dtls", [x.tr[t] EXCEPT !.dtls = "connecting", !.dtlsStarts = @ + 1]) EXCEPT
        !.connecting = TRUE]

\* Behind ICE.  Mutant: whether DTLS is new was looked up before the await.
ConnectDtlsBlindly(x, t, progressed, iceReady) ==
    IF iceReady THEN startDtls(x, t) ELSE Does(IF progressed THEN "ok" ELSE "idle", x.tr[t])

ConnectDtls(x, t, progressed, iceReady) ==
    LET end == IF progressed THEN "ok" ELSE "idle"
    IN  CASE x.tr[t].dtls = "connecting" -> Does("dtlsJoin", x.tr[t])
          [] x.tr[t].dtls = "connected" -> [Does(end, x.tr[t]) EXCEPT !.joins = TRUE]
          [] x.tr[t].dtls = "new" /\ iceReady /\ x.tr[t].params -> startDtls(x, t)
          [] OTHER -> Does(end, x.tr[t])

\* RTCIceTransport.start up to its await, behind setConnectionState; its
\* transport is then "checking".
startIce(x, t) ==
    [(IF x.tr[t].ice = "closed" THEN Does("rejected", x.tr[t])
      ELSE Does("start", [x.tr[t] EXCEPT !.wait = x.tr[t].gen, !.checksStarted = TRUE,
                                         !.iceStarts = @ + 1]))
     EXCEPT !.connecting = TRUE]

IceReady(x, t) == x.tr[t].ice \in {"connected", "completed"}

\* The part of connect() up to the first await, for transport t.
connectTransport(x, t) ==
    CASE t \notin x.live -> Does("none", x.tr[t])
      [] t \in x.live /\ ~x.tr[t].checksStarted ->
           IF x.tr[t].params THEN startIce(x, t) ELSE Does("idle", x.tr[t])
      [] t \in x.live /\ x.tr[t].checksStarted /\ x.tr[t].ice = "checking" ->
           Does(IF x.tr[t].wait = 0 THEN "joined" ELSE "join", x.tr[t])
      [] OTHER -> ConnectDtls(x, t, FALSE, IceReady(x, t))

\* The parts of a call of connect() for its transports.
Report(x, d) == IF \E t \in DOMAIN d : d[t].connecting THEN setConnectionState(x, "connecting") ELSE x

Joins(x, d) ==
    IF \E t \in DOMAIN d : d[t].joins /\ OnSctp(t) THEN startJoinedSctp(x, scenario.sctp) ELSE x

connect(x) ==
    LET d == [t \in Transports |-> connectTransport(x, t)]
        call == [epoch |-> x.connectEpoch, done |-> FALSE,
                 at |-> [t \in Transports |-> [pc |-> d[t].pc, inc |-> x.tr[t].inc,
                                               gen |-> x.tr[t].gen]]]
        y == [x EXCEPT !.calls = Append(@, call), !.tr = [t \in Transports |-> d[t].transport]]
    IN  setIceStates(Joins(Report(y, d), d), {t \in Transports : d[t].pc = "start"}, "checking")

\* The same of a call that went on for t.
GoesOn(x, c, t, does) ==
    LET d == [u \in {t} |-> does]
    IN  Joins(Report(Go([x EXCEPT !.tr[t] = does.transport], c, t, does.pc), d), d)

\* What follows an await.  A transport that a rollback replaced is closed.
Behind(x, c, t) ==
    LET pc == At(x, c, t).pc
        gone == ~OnCurrent(x, c, t)
        Dtls == GoesOn(x, c, t, ConnectDtls(x, t, TRUE, TRUE))
    IN  CASE pc = "iceErr" \/ pc = "dtlsErr" -> Go(x, c, t, "rejected")
          [] pc = "sctpOk" -> Go(x, c, t, "ok")
          [] pc = "iceOk" -> IF gone THEN Go(x, c, t, "ok") ELSE Dtls
          [] pc = "joined" -> IF gone \/ ~IceReady(x, t) THEN Go(x, c, t, "rejected") ELSE Dtls
          [] pc = "dtlsSettled" -> IF gone \/ x.tr[t].dtls # "connected" THEN Go(x, c, t, "rejected")
                                   ELSE Go(startJoinedSctp(x, t), c, t, "ok")
          [] pc = "dtlsOk" -> IF gone THEN Go(x, c, t, "ok") ELSE connectSctp(x, c, t)

\* Mutant: a call of a connection that was retired reports like any other.
SettleAnyEpoch(x, c) ==
    LET ends == {At(x, c, t).pc : t \in Transports}
        y == [x EXCEPT !.calls[c].done = TRUE]
    IN  IF "rejected" \in ends THEN setConnectionState(y, "failed")
        ELSE IF "ok" \in ends THEN setConnectionState(y, "connected")
        ELSE y

\* The end of connect(), when every transport has settled.
Settle(x, c) ==
    LET ends == {At(x, c, t).pc : t \in Transports}
        y == [x EXCEPT !.calls[c].done = TRUE]
    IN  IF x.calls[c].epoch # x.connectEpoch THEN y
        ELSE IF "rejected" \in ends THEN setConnectionState(y, "failed")
        ELSE IF "ok" \in ends THEN setConnectionState(y, "connected")
        ELSE y

Settled(x, c) == ~x.calls[c].done /\ \A t \in Transports : At(x, c, t).pc \in Ended

Ready(c, t) == At(s, c, t).pc \in Released
Micro == \E c \in DOMAIN s.calls : Settled(s, c) \/ \E t \in Transports : Ready(c, t)

Resume(c, t) == Ready(c, t) /\ s' = Behind(s, c, t) /\ UNCHANGED scenario
Ends(c) == Settled(s, c) /\ s' = Settle(s, c) /\ UNCHANGED scenario

-----------------------------------------------------------------------------
(* What the agents report.  A transport that is closed, or that a rollback *)
(* replaced, may still settle what waited on it, or leave it waiting.      *)

Entries(x, t, pcs) == {c \in DOMAIN x.calls : At(x, c, t).pc \in pcs}
OnTransport(x, t, pcs) == {c \in Entries(x, t, pcs) : OnCurrent(x, c, t)}

\* Whoever waits at one of pcs, of a generation in gens, goes on at next.
ReleaseAll(x, t, pcs, gens, next) ==
    [x EXCEPT !.calls = [c \in DOMAIN x.calls |->
        IF c \in OnTransport(x, t, pcs) /\ At(x, c, t).gen \in gens
        THEN [x.calls[c] EXCEPT !.at[t].pc = next] ELSE x.calls[c]]]

\* The end of start(): its waitStart releases checksSettled(), and is dropped.
startSettles(x, c, t, next) ==
    LET gen == At(x, c, t).gen
    IN  Go([ReleaseAll(x, t, {"join"}, {gen}, "joined") EXCEPT
                !.tr[t].wait = IF @ = gen THEN 0 ELSE @], c, t, next)

Gathered(t) ==
    /\ ~Micro
    /\ t \in s.live /\ s.tr[t].ice = "new" /\ ~s.tr[t].checksStarted
    /\ s.closing = "open"
    /\ s' = setIceState(s, t, "completed")
    /\ UNCHANGED scenario

\* After a restart the loop of the earlier start() may take the result.
IceConnected(t) ==
    /\ ~Micro
    /\ s.tr[t].ice = "checking"
    /\ \E c \in OnTransport(s, t, {"start"}) :
          s' = startSettles(setIceState(s, t, "connected"), c, t, "iceOk")
    /\ UNCHANGED scenario

\* There is nothing to check.
IceStartFails(t) ==
    /\ ~Micro
    /\ s.failures > 0 /\ s.tr[t].ice = "checking"
    /\ \E c \in OnTransport(s, t, {"start"}) :
          s' = startSettles(setIceState([s EXCEPT !.failures = @ - 1], t, "failed"), c, t, "iceErr")
    /\ UNCHANGED scenario

\* Consent expires, or the selected TCP connection is closed.
IceFails(t) ==
    /\ ~Micro
    /\ s.failures > 0 /\ s.tr[t].ice = "connected"
    /\ s' = setIceState([s EXCEPT !.failures = @ - 1], t, "failed")
    /\ UNCHANGED scenario

\* The end of the handshake: the promise of start() and the state change.
dtlsSettles(x, t, state, next) ==
    LET y == ReleaseAll([x EXCEPT !.tr[t].dtls = state], t, {"dtlsJoin"}, Nat, "dtlsSettled")
    IN  ReleaseAll(y, t, {"dtls"}, Nat, next)

DtlsConnected(t) ==
    /\ ~Micro
    /\ s.tr[t].dtls = "connecting" /\ s.tr[t].ice = "connected"
    /\ s' = dtlsSettles(s, t, "connected", "dtlsOk")
    /\ UNCHANGED scenario

DtlsFails(t) ==
    /\ ~Micro
    /\ s.failures > 0 /\ s.tr[t].dtls = "connecting"
    /\ s' = dtlsSettles([s EXCEPT !.failures = @ - 1], t, "failed", "dtlsErr")
    /\ UNCHANGED scenario

SctpConnected ==
    /\ ~Micro
    /\ s.sctp.state = "started"
    /\ s.tr[scenario.sctp].dtls = "connected" /\ s.tr[scenario.sctp].ice = "connected"
    /\ s' = ReleaseAll([s EXCEPT !.sctp.state = "connected"], scenario.sctp, {"sctp"}, Nat, "sctpOk")
    /\ UNCHANGED scenario

\* close() of the agent, or of the handshake, fails what was under way, or
\* the result was there before it.
LateOutcome(c, t) ==
    /\ ~Micro
    /\ ~OnCurrent(s, c, t) \/ s.tr[t].ice = "closed"
    /\ \/ At(s, c, t).pc = "start" /\ \E pc \in {"iceOk", "iceErr"} : s' = Go(s, c, t, pc)
       \/ At(s, c, t).pc = "dtls" /\ s' = Go(s, c, t, "dtlsErr")
    /\ UNCHANGED scenario

-----------------------------------------------------------------------------
(* Descriptions: the operations of the chain that end in connect().        *)

\* RTCIceTransport.restart of the transports T.  Mutant: checksStarted is kept.
restartKeepsChecks(x, T) ==
    setIceStates([x EXCEPT !.tr = [t \in Transports |->
                      IF t \in T THEN [x.tr[t] EXCEPT !.gen = @ + 1, !.wait = 0] ELSE x.tr[t]]],
                 T, "new")

restart(x, T) ==
    setIceStates([x EXCEPT !.tr = [t \in Transports |->
                      IF t \in T THEN [x.tr[t] EXCEPT !.gen = @ + 1, !.checksStarted = FALSE, !.wait = 0]
                      ELSE x.tr[t]]],
                 T, "new")

\* The remote parameters of every m-line.
applyRemote(x, kind, restarted) ==
    LET y == restart(x, restarted)
    IN  [y EXCEPT !.tr = [t \in Transports |-> [y.tr[t] EXCEPT !.params = @ \/ t \in x.live]],
                  !.port = x.sctp.state # "none" /\ scenario.sctp \in x.live,
                  !.session = IF kind = "answer" THEN "current" ELSE "provisional",
                  !.op = "applying", !.answers = @ - 1, !.restarts = @ - Cardinality(restarted)]

\* A provisional answer of a renegotiation leaves the transports alone.
Apply ==
    /\ ~Micro
    /\ s.op = "idle" /\ s.closing = "open" /\ s.answers > 0
    /\ \E kind \in {"answer", "pranswer"}, restarted \in SUBSET s.live :
          /\ kind = "pranswer" => s.session # "current"
          /\ restarted # {} => s.session = "current"
          /\ Cardinality(restarted) <= s.restarts
          /\ \A t \in restarted : s.tr[t].params /\ (s.tr[t].ice = "checking" => scenario.midCheck)
          /\ s' = applyRemote(s, kind, restarted)
    /\ UNCHANGED scenario

\* The end of the operation: connect(), unless close() overtook it.
Connect ==
    /\ ~Micro
    /\ s.op = "applying"
    /\ LET y == [s EXCEPT !.op = "idle"]
       IN  s' = IF s.closing = "open" THEN connect(y) ELSE y
    /\ UNCHANGED scenario

AddTransceiver(t) ==
    /\ ~Micro
    /\ t \notin s.live /\ s.closing = "open"
    /\ s' = updateIceConnectionState([s EXCEPT !.live = @ \union {t}])
    /\ UNCHANGED scenario

\* The channel's transport is the one the session has.
CreateDataChannel ==
    /\ ~Micro
    /\ s.sctp.state = "none" /\ s.closing = "open" /\ s.session = "current"
    /\ s' = [s EXCEPT !.sctp = NewSctp("idle")]
    /\ UNCHANGED scenario

\* Whoever joined a transport that is stopped goes on; its own start() is
\* settled by the agent, or never.
Stopped(x, c, t) ==
    LET place == At(x, c, t)
    IN  IF t \notin x.live \/ ~OnCurrent(x, c, t) THEN place
        ELSE IF place.pc = "dtlsJoin" THEN [place EXCEPT !.pc = "dtlsSettled"]
        ELSE IF place.pc = "join" /\ place.gen = x.tr[t].wait THEN [place EXCEPT !.pc = "joined"]
        ELSE place

stopTransports(x) ==
    setIceStates([x EXCEPT
                      !.calls = [c \in DOMAIN x.calls |-> [x.calls[c] EXCEPT
                                    !.at = [t \in Transports |-> Stopped(x, c, t)]]],
                      !.tr = [t \in Transports |->
                                  IF t \in x.live THEN [x.tr[t] EXCEPT !.dtls = "closed", !.wait = 0]
                                  ELSE x.tr[t]]],
                 x.live, "closed")

stopSctp(x) ==
    [x EXCEPT !.sctp.state = IF @ \in {"started", "connected"} THEN "stopped" ELSE @]

\* Mutant: only the ICE state starts over.
startOverHalf(x) == [updateIceConnectionState(x) EXCEPT !.op = "idle"]

startOver(x) == [setConnectionState(updateIceConnectionState(x), "new") EXCEPT !.op = "idle"]

\* cleanupInitialProvisional, up to its first await.
Rollback ==
    /\ ~Micro
    /\ s.op = "idle" /\ s.closing = "open" /\ s.session # "current" /\ s.rollbacks > 0
    /\ LET x == [s EXCEPT !.connectEpoch = @ + 1, !.session = "none", !.rollbacks = @ - 1]
           used == \E t \in s.live : \/ s.tr[t].dtls # "new"
                                     \/ s.tr[t].ice \notin {"new", "closed"}
                                     \/ s.tr[t].params
       IN  s' = IF used THEN [stopSctp(x) EXCEPT !.op = "stoppingSctp"] ELSE startOver(x)
    /\ UNCHANGED scenario

RollbackStops ==
    /\ ~Micro
    /\ s.op = "stoppingSctp"
    /\ s' = [stopTransports([s EXCEPT !.port = FALSE]) EXCEPT !.op = "stopping"]
    /\ UNCHANGED scenario

\* A closed connection creates no transport: the operation rejects.
RollbackEnds ==
    /\ ~Micro
    /\ s.op = "stopping"
    /\ s' = IF s.closing = "open"
            THEN startOver([s EXCEPT
                     !.tr = [t \in Transports |->
                                IF t \in s.live THEN NewTransport(s.tr[t].inc + 1) ELSE s.tr[t]],
                     !.sctp = IF @.state = "none" THEN @ ELSE NewSctp("idle")])
            ELSE [s EXCEPT !.op = "idle"]
    /\ UNCHANGED scenario

\* close(), up to the await of the association's ABORT, and behind it.
Close ==
    /\ ~Micro
    /\ scenario.closes /\ s.closing = "open"
    /\ s' = [stopSctp(s) EXCEPT !.closing = "stopping"]
    /\ UNCHANGED scenario

CloseEnds ==
    /\ ~Micro
    /\ s.closing = "stopping"
    /\ s' = [stopTransports(setConnectionState(s, "closed")) EXCEPT !.closing = "closed"]
    /\ UNCHANGED scenario

-----------------------------------------------------------------------------
Finished == ~Micro /\ s.op = "idle"

\* Nothing more need happen.
Rest == Finished /\ UNCHANGED vars

Application == Apply \/ CreateDataChannel \/ Rollback \/ Close \/ \E t \in Transports : AddTransceiver(t)

Progress ==
    \/ \E c \in DOMAIN s.calls : Ends(c) \/ \E t \in Transports : Resume(c, t)
    \/ Connect \/ RollbackStops \/ RollbackEnds \/ CloseEnds \/ SctpConnected
    \/ \E t \in Transports : IceConnected(t) \/ DtlsConnected(t)

Outcomes ==
    \/ \E t \in Transports : Gathered(t) \/ IceStartFails(t) \/ IceFails(t) \/ DtlsFails(t)
    \/ \E c \in DOMAIN s.calls, t \in Transports : LateOutcome(c, t)

Next == Application \/ Progress \/ Outcomes \/ Rest

\* Some step of Progress can be taken.
Due ==
    \/ Micro \/ s.op # "idle" \/ s.closing = "stopping"
    \/ \E t \in Transports :
          \/ s.tr[t].ice = "checking" /\ OnTransport(s, t, {"start"}) # {}
          \/ s.tr[t].dtls = "connecting" /\ s.tr[t].ice = "connected"
    \/ /\ s.sctp.state = "started"
       /\ s.tr[scenario.sctp].dtls = "connected" /\ s.tr[scenario.sctp].ice = "connected"

\* Weak fairness of Progress, with its guard spelled out.
Fairness == []<>~Due \/ []<><<Progress>>_vars

Spec == Init /\ [][Next]_vars /\ Fairness

-----------------------------------------------------------------------------
Unfinished(epochs) == {c \in DOMAIN s.calls : ~s.calls[c].done /\ s.calls[c].epoch \in epochs}

Undisturbed == scenario.failures = 0 /\ ~scenario.closes /\ ~scenario.midCheck

\* The values of the state.
TypeOK ==
    /\ s.conn \in {"new", "connecting", "connected", "failed", "closed"}
    /\ s.iceConn \in {"new", "checking", "connected", "completed", "failed", "closed"}
    /\ s.op \in {"idle", "applying", "stoppingSctp", "stopping"}
    /\ s.closing \in {"open", "stopping", "closed"}
    /\ \A t \in Transports : s.tr[t].wait \in {0, s.tr[t].gen}
    /\ \A c \in DOMAIN s.calls, t \in Transports :
          At(s, c, t).pc \in Waiting \union Released \union Ended

\* However many answers call connect(), and however long they wait for each
\* other, the checks of an ICE generation start once, a transport makes one
\* DTLS handshake and one SCTP association starts.
StartsOnce ==
    /\ \A t \in Transports : s.tr[t].iceStarts <= s.tr[t].gen /\ s.tr[t].dtlsStarts <= 1
    /\ s.sctp.starts <= 1

\* iceConnectionState is the state the live transports have together.
IceStateTrue == s.op = "idle" /\ s.closing # "closed" => s.iceConn = IceConnectionState(s)

\* Calls that overlap start nothing twice, nothing runs that was not given
\* its parameters, and the ICE state reported is that of the transports.
ActivationSound ==
    /\ TypeOK /\ StartsOnce /\ IceStateTrue
    /\ \A t \in Transports :
          s.tr[t].dtls \in {"connecting", "connected"} => s.tr[t].params /\ s.tr[t].iceStarts > 0

\* A connection that says "connecting" has a connect() under way that will
\* say how it ends, and one whose first session was rolled back says "new",
\* whatever calls of that session are still settling.
ReportTrue ==
    s.closing = "open" /\ s.op = "idle" /\ Unfinished({s.connectEpoch}) = {} =>
        /\ s.conn # "connecting"
        /\ s.session = "none" => s.conn = "new"

\* Without failures, without close() and without a restart while checks run,
\* the connection of a session is "connected" in the end, and so is
\* everything the session uses.  (A restart may meet the loop of the earlier
\* start(), which takes the result and leaves its successor waiting.)
ReportsConnected ==
    <>[](Undisturbed /\ s.session = "current" =>
            /\ s.conn = "connected"
            /\ \A t \in s.live : s.tr[t].params => s.tr[t].ice = "connected" /\ s.tr[t].dtls = "connected"
            /\ s.port => s.sctp.state = "connected")

\* Not so: a call of connect() that settles behind close() replaces "closed".
ClosedFinal == s.closing = "closed" => s.conn = "closed"

\* Not so: a call that settles well replaces "failed" while a transport of
\* the connection has failed.
FailureStands ==
    s.conn = "connected" => \A t \in s.live : s.tr[t].ice # "failed" /\ s.tr[t].dtls # "failed"
=============================================================================
