--------------------------- MODULE SctpAssociation ---------------------------
(***************************************************************************)
(* The life of an SCTP association between two werift endpoints            *)
(* (packages/sctp/src/sctp.ts): the INIT / INIT-ACK / COOKIE-ECHO /        *)
(* COOKIE-ACK handshake, the T1 and heartbeat timers, stop() and ABORT.    *)
(*                                                                         *)
(* JavaScript runs one handler at a time, so a handler is one action up to *)
(* its first "await this.sendChunk(...)"; what follows the await is a      *)
(* continuation, counted in `pending` and run by an action of its own.     *)
(* Between the two, any other handler, timer or API call may run.          *)
(*                                                                         *)
(* The network loses, delays, reorders and duplicates packets.             *)
(***************************************************************************)
EXTENDS Naturals

CONSTANTS
    OutboundStreams,  \* [Endpoint -> Nat], the initial _outboundStreamsCount
    InboundStreams,   \* [Endpoint -> Nat], _inboundStreamsMax
    MaxInitRetrans,   \* SCTP_MAX_INIT_RETRANS
    MaxPending,       \* bound: continuations of one kind alive at a time
    MaxFaults         \* bound: packets lost or duplicated, sends the transport rejects

Endpoint == {"client", "server"}
Peer(e) == IF e = "client" THEN "server" ELSE "client"

ASSUME StreamsAssumption ==
    /\ OutboundStreams \in [Endpoint -> Nat]
    /\ InboundStreams \in [Endpoint -> Nat]
ASSUME BoundsAssumption ==
    /\ MaxInitRetrans \in Nat
    /\ MaxPending \in Nat \ {0}
    /\ MaxFaults \in Nat

VARIABLES
    ep,       \* [Endpoint -> EndpointState], the fields of the SCTP object
    pending,  \* [Endpoint -> [Continuation -> Nat]], handlers parked at an await
    net,      \* the set of packets in flight
    faults    \* packets lost or duplicated and sends rejected so far

vars == <<ep, pending, net, faults>>

-----------------------------------------------------------------------------
(* Chunks and packets.  An endpoint's verification tag is its own name;    *)
(* "zero" is the tag of a packet whose sender does not know its peer's.    *)

Tag == Endpoint \cup {"zero"}
ChunkType == {"INIT", "INIT-ACK", "COOKIE-ECHO", "COOKIE-ACK", "ERROR", "ABORT"}
Chunk == [type : ChunkType, initiateTag : Tag, outboundStreams : Nat, inboundStreams : Nat]
Packet == [to : Endpoint, verificationTag : Tag, chunk : Chunk]

InitChunk(type, e, out, in) ==
    [type |-> type, initiateTag |-> e, outboundStreams |-> out, inboundStreams |-> in]
PlainChunk(type) ==
    [type |-> type, initiateTag |-> "zero", outboundStreams |-> 0, inboundStreams |-> 0]
NoChunk == [type |-> "none"]

AssociationState == {"CLOSED", "COOKIE_WAIT", "COOKIE_ECHOED", "ESTABLISHED"}
ConnectionState == {"new", "connecting", "connected", "closed"}
Continuation == {"init", "echo", "cookieAck", "stop", "timer1", "heartbeat"}

EndpointState ==
    [associationState : AssociationState,
     state            : ConnectionState,
     started          : BOOLEAN,
     isStopping       : BOOLEAN,
     isClosed         : BOOLEAN,
     onData           : BOOLEAN,      \* transport.onData is still installed
     remotePort       : BOOLEAN,      \* remotePort !== undefined
     remoteTag        : Tag,
     inboundCount     : Nat,
     outboundCount    : Nat,
     timer1           : BOOLEAN,      \* timer1Handle !== undefined
     timer1Chunk      : Chunk \cup {NoChunk},
     timer1Failures   : Nat,
     heartbeat        : BOOLEAN,      \* timerHeartbeatHandle !== undefined
     threw            : BOOLEAN]      \* timer1Start's assertion has failed

\* Lines 135-240: what the constructor leaves.
NewEndpoint(e) ==
    [associationState |-> "CLOSED", state |-> "new", started |-> FALSE,
     isStopping |-> FALSE, isClosed |-> FALSE, onData |-> TRUE,
     remotePort |-> FALSE, remoteTag |-> "zero",
     inboundCount |-> 0, outboundCount |-> OutboundStreams[e],
     timer1 |-> FALSE, timer1Chunk |-> NoChunk, timer1Failures |-> 0,
     heartbeat |-> FALSE, threw |-> FALSE]

Init ==
    /\ ep = [e \in Endpoint |-> NewEndpoint(e)]
    /\ pending = [e \in Endpoint |-> [k \in Continuation |-> 0]]
    /\ net = {}
    /\ faults = 0

-----------------------------------------------------------------------------
(* What the methods do to an endpoint's fields s.                           *)

IsStopped(s) == s.isStopping \/ s.isClosed

Timer1Cancel(s) ==
    IF s.timer1 THEN [s EXCEPT !.timer1 = FALSE, !.timer1Chunk = NoChunk] ELSE s

\* "if (this.timer1Handle) throw new Error()".
Timer1Start(s, chunk) ==
    [s EXCEPT !.timer1 = TRUE, !.timer1Chunk = chunk, !.timer1Failures = 0]

HeartbeatStart(s) ==
    [s EXCEPT !.heartbeat = @ \/ s.associationState = "ESTABLISHED"]

Established(s) ==
    HeartbeatStart([s EXCEPT !.associationState = "ESTABLISHED", !.isStopping = FALSE,
                             !.isClosed = FALSE, !.state = "connected"])
Closed(s) ==
    [Timer1Cancel(s) EXCEPT !.associationState = "CLOSED", !.isClosed = TRUE,
                            !.heartbeat = FALSE, !.state = "closed"]

SetState(s, state) ==
    IF state = "ESTABLISHED" THEN Established(s)
    ELSE IF state = "CLOSED" THEN Closed(s)
    ELSE [s EXCEPT !.associationState = state]

\* The continuation of a handler that arms T1 and enters the state waiting for
\* its answer; a throw abandons the rest of the handler.
ArmTimer1(s, chunk, state) ==
    IF s.timer1
    THEN [s EXCEPT !.threw = TRUE]
    ELSE SetState(Timer1Start(s, chunk), state)

\* The packets sendChunk hands to the transport for an endpoint e in state s.
SendChunk(e, s, chunk) ==
    IF s.state = "closed" \/ ~s.remotePort
    THEN {}
    ELSE {[to |-> Peer(e), verificationTag |-> s.remoteTag, chunk |-> chunk]}

Min(a, b) == IF a < b THEN a ELSE b

\* Mutant of LearnPeer: the peer's inbound limit does not cap the outbound count.
LearnPeerUncapped(e, s, c) ==
    [s EXCEPT !.remoteTag = c.initiateTag,
              !.inboundCount = Min(c.outboundStreams, InboundStreams[e])]

\* What INIT and INIT-ACK alike make the receiver of chunk c record.
LearnPeer(e, s, c) ==
    [s EXCEPT !.remoteTag = c.initiateTag,
              !.inboundCount = Min(c.outboundStreams, InboundStreams[e]),
              !.outboundCount = Min(@, c.inboundStreams)]

Park(e, k) == pending' = [pending EXCEPT ![e][k] = @ + 1]
Resume(e, k) ==
    /\ pending[e][k] > 0
    /\ pending' = [pending EXCEPT ![e][k] = @ - 1]

-----------------------------------------------------------------------------
(* API calls.                                                               *)

\* setRemotePort, called when the remote description is applied.
SetRemotePort(e) ==
    /\ ~ep[e].remotePort
    /\ ep' = [ep EXCEPT ![e].remotePort = TRUE]
    /\ UNCHANGED <<pending, net, faults>>

\* start(remotePort) and, on the client, init() up to its await.  Nothing asks
\* whether the endpoint was stopped or closed: connect() gets here behind the
\* await of dtlsTransport.start().  When the transport rejects the INIT, init()
\* catches it and arms no timer.  (The other sends catch a rejection and go on
\* as if the packet were lost.)
Start(e, rejected) ==
    /\ ~ep[e].started
    /\ rejected => e = "client" /\ faults < MaxFaults
    /\ faults' = IF rejected THEN faults + 1 ELSE faults
    /\ LET s == [ep[e] EXCEPT !.started = TRUE, !.state = "connecting", !.remotePort = TRUE]
           init == InitChunk("INIT", e, s.outboundCount, InboundStreams[e])
       IN /\ ep' = [ep EXCEPT ![e] = s]
          /\ IF e = "client" /\ ~rejected
             THEN /\ net' = net \cup SendChunk(e, s, init)
                  /\ Park(e, "init")
             ELSE UNCHANGED <<net, pending>>

\* init() after its await.
StartContinue ==
    /\ Resume("client", "init")
    /\ LET init == InitChunk("INIT", "client", OutboundStreams["client"], InboundStreams["client"])
       IN ep' = [ep EXCEPT !["client"] = ArmTimer1(@, init, "COOKIE_WAIT")]
    /\ UNCHANGED <<net, faults>>

\* stop(): a stopped endpoint closes at once; a live one goes deaf, sends ABORT
\* unless its association is CLOSED, and closes after the await.
Stop(e) ==
    /\ LET s == [ep[e] EXCEPT !.isStopping = TRUE, !.onData = FALSE]
       IN IF IsStopped(ep[e])
          THEN /\ ep' = [ep EXCEPT ![e] = SetState(@, "CLOSED")]
               /\ UNCHANGED <<pending, net>>
          ELSE IF s.associationState = "CLOSED"
          THEN /\ ep' = [ep EXCEPT ![e] = SetState(s, "CLOSED")]
               /\ UNCHANGED <<pending, net>>
          ELSE /\ pending[e]["stop"] < MaxPending
               /\ ep' = [ep EXCEPT ![e] = s]
               /\ net' = net \cup SendChunk(e, s, PlainChunk("ABORT"))
               /\ Park(e, "stop")
    /\ UNCHANGED faults

StopContinue(e) ==
    /\ Resume(e, "stop")
    /\ ep' = [ep EXCEPT ![e] = SetState(@, "CLOSED")]
    /\ UNCHANGED <<net, faults>>

\* RTCSctpTransport closes the association when its DTLS transport closes.
TransportClosed(e) ==
    /\ ep[e].state # "closed"
    /\ ep' = [ep EXCEPT ![e] = SetState(@, "CLOSED")]
    /\ UNCHANGED <<pending, net, faults>>

-----------------------------------------------------------------------------
(* Timers.                                                                  *)

\* Mutants of Timer1Expired: the timer is not armed again; failures do not count.
Timer1ExpiredOnce(e) ==
    /\ ep[e].timer1
    /\ ~IsStopped(ep[e])
    /\ pending[e]["timer1"] = 0
    /\ ep' = [ep EXCEPT ![e].timer1 = FALSE]
    /\ Park(e, "timer1")
    /\ UNCHANGED <<net, faults>>
Timer1ExpiredForever(e) ==
    /\ ep[e].timer1
    /\ ~IsStopped(ep[e])
    /\ pending[e]["timer1"] = 0
    /\ Park(e, "timer1")
    /\ UNCHANGED <<ep, net, faults>>

\* timer1Expired.  The retransmission is left to a setImmediate callback, which
\* runs before the re-armed timer can expire again.
Timer1Expired(e) ==
    /\ ep[e].timer1
    /\ ~IsStopped(ep[e])
    /\ pending[e]["timer1"] = 0
    /\ LET s == [ep[e] EXCEPT !.timer1Failures = @ + 1]
       IN IF s.timer1Failures > MaxInitRetrans
          THEN /\ ep' = [ep EXCEPT ![e] = SetState([s EXCEPT !.timer1 = FALSE], "CLOSED")]
               /\ UNCHANGED pending
          ELSE /\ ep' = [ep EXCEPT ![e] = s]
               /\ Park(e, "timer1")
    /\ UNCHANGED <<net, faults>>

\* The setImmediate callback sends whatever timer1Chunk is by then.
Timer1Retransmit(e) ==
    /\ Resume(e, "timer1")
    /\ net' = IF IsStopped(ep[e]) \/ ep[e].timer1Chunk = NoChunk
              THEN net
              ELSE net \cup SendChunk(e, ep[e], ep[e].timer1Chunk)
    /\ UNCHANGED <<ep, faults>>

\* timerHeartbeatExpired up to its await.  HEARTBEAT and its answer change no
\* field of either endpoint and are not put on the network.
HeartbeatExpired(e) ==
    /\ ep[e].heartbeat
    /\ pending[e]["heartbeat"] < MaxPending
    /\ ep' = [ep EXCEPT ![e].heartbeat = FALSE]
    /\ IF ep[e].associationState = "ESTABLISHED"
       THEN Park(e, "heartbeat")
       ELSE UNCHANGED pending
    /\ UNCHANGED <<net, faults>>

\* Mutant of HeartbeatContinue: the timer is not armed again after the send.
HeartbeatContinueOnce(e) ==
    /\ Resume(e, "heartbeat")
    /\ UNCHANGED <<ep, net, faults>>

HeartbeatContinue(e) ==
    /\ Resume(e, "heartbeat")
    /\ ep' = [ep EXCEPT ![e] = HeartbeatStart(@)]
    /\ UNCHANGED <<net, faults>>

-----------------------------------------------------------------------------
(* Packets.  `again` says that the network will deliver p once more.        *)

\* Mutant of Accepted: packets are handled after the association was closed.
AcceptedWhenClosed(p) ==
    /\ ep[p.to].onData
    /\ p.verificationTag = IF p.chunk.type = "INIT" THEN "zero" ELSE p.to

\* handleData's early returns, and transport.onData.
Accepted(p) ==
    /\ ep[p.to].onData
    /\ ~IsStopped(ep[p.to])
    /\ p.verificationTag = IF p.chunk.type = "INIT" THEN "zero" ELSE p.to

Take(p, type, again) ==
    /\ p \in net
    /\ p.chunk.type = type
    /\ Accepted(p)
    /\ again => faults < MaxFaults
    /\ faults' = IF again THEN faults + 1 ELSE faults

Remaining(p, again) == IF again THEN net ELSE net \ {p}

\* No check of the server's own state: an INIT is answered at any time.
ReceiveInit(p, again) ==
    /\ Take(p, "INIT", again)
    /\ p.to = "server"
    /\ LET s == LearnPeer("server", ep["server"], p.chunk)
           ack == InitChunk("INIT-ACK", "server", s.outboundCount, s.inboundCount)
       IN /\ ep' = [ep EXCEPT !["server"] = s]
          /\ net' = Remaining(p, again) \cup SendChunk("server", s, ack)
    /\ UNCHANGED pending

ReceiveInitAck(p, again) ==
    /\ Take(p, "INIT-ACK", again)
    /\ ep[p.to].associationState = "COOKIE_WAIT"
    /\ pending[p.to]["echo"] < MaxPending
    /\ LET s == LearnPeer(p.to, Timer1Cancel(ep[p.to]), p.chunk)
       IN /\ ep' = [ep EXCEPT ![p.to] = s]
          /\ net' = Remaining(p, again) \cup SendChunk(p.to, s, PlainChunk("COOKIE-ECHO"))
    /\ Park(p.to, "echo")

\* The INIT-ACK handler after its await.
EchoContinue(e) ==
    /\ Resume(e, "echo")
    /\ ep' = [ep EXCEPT ![e] = ArmTimer1(@, PlainChunk("COOKIE-ECHO"), "COOKIE_ECHOED")]
    /\ UNCHANGED <<net, faults>>

\* A cookie that is authentic and fresh.
ReceiveCookieEcho(p, again) ==
    /\ Take(p, "COOKIE-ECHO", again)
    /\ p.to = "server"
    /\ pending["server"]["cookieAck"] < MaxPending
    /\ net' = Remaining(p, again) \cup SendChunk("server", ep["server"], PlainChunk("COOKIE-ACK"))
    /\ Park("server", "cookieAck")
    /\ UNCHANGED ep

\* A cookie older than COOKIE_LIFETIME, or from before the clock was set back.
ReceiveStaleCookieEcho(p, again) ==
    /\ Take(p, "COOKIE-ECHO", again)
    /\ p.to = "server"
    /\ net' = Remaining(p, again) \cup SendChunk("server", ep["server"], PlainChunk("ERROR"))
    /\ UNCHANGED <<ep, pending>>

\* Mutant of CookieAckContinue: a server that was not started yet stays CLOSED.
CookieAckContinueStarted ==
    /\ Resume("server", "cookieAck")
    /\ ep' = IF ep["server"].started
             THEN [ep EXCEPT !["server"] = SetState(@, "ESTABLISHED")]
             ELSE ep
    /\ UNCHANGED <<net, faults>>

\* The COOKIE-ECHO handler after its await: no check of what happened meanwhile.
CookieAckContinue ==
    /\ Resume("server", "cookieAck")
    /\ ep' = [ep EXCEPT !["server"] = SetState(@, "ESTABLISHED")]
    /\ UNCHANGED <<net, faults>>

ReceiveCookieAck(p, again) ==
    /\ Take(p, "COOKIE-ACK", again)
    /\ ep[p.to].associationState = "COOKIE_ECHOED"
    /\ ep' = [ep EXCEPT ![p.to] = SetState(Timer1Cancel(@), "ESTABLISHED")]
    /\ net' = Remaining(p, again)
    /\ UNCHANGED pending

ReceiveAbort(p, again) ==
    /\ Take(p, "ABORT", again)
    /\ ep' = [ep EXCEPT ![p.to] = SetState(@, "CLOSED")]
    /\ net' = Remaining(p, again)
    /\ UNCHANGED pending

\* A packet that changes nothing: refused by handleData, an ERROR, or an answer
\* its receiver no longer waits for.
Ignored(p) ==
    \/ ~Accepted(p)
    \/ p.chunk.type = "ERROR"
    \/ p.chunk.type = "INIT-ACK" /\ ep[p.to].associationState # "COOKIE_WAIT"
    \/ p.chunk.type = "COOKIE-ACK" /\ ep[p.to].associationState # "COOKIE_ECHOED"

ReceiveIgnored(p) ==
    /\ p \in net
    /\ Ignored(p)
    /\ net' = net \ {p}
    /\ UNCHANGED <<ep, pending, faults>>

Lose(p) ==
    /\ p \in net
    /\ faults < MaxFaults
    /\ net' = net \ {p}
    /\ faults' = faults + 1
    /\ UNCHANGED <<ep, pending>>

-----------------------------------------------------------------------------
Receive(p, again) ==
    \/ ReceiveInit(p, again)
    \/ ReceiveInitAck(p, again)
    \/ ReceiveCookieEcho(p, again)
    \/ ReceiveStaleCookieEcho(p, again)
    \/ ReceiveCookieAck(p, again)
    \/ ReceiveAbort(p, again)

Continue(e) ==
    \/ StopContinue(e)
    \/ EchoContinue(e)
    \/ HeartbeatContinue(e)
    \/ Timer1Retransmit(e)

User(e) ==
    \/ SetRemotePort(e)
    \/ \E rejected \in BOOLEAN : Start(e, rejected)
    \/ Stop(e)
    \/ TransportClosed(e)

Next ==
    \/ \E e \in Endpoint : User(e)
    \/ \E e \in Endpoint : Timer1Expired(e) \/ HeartbeatExpired(e)
    \/ \E e \in Endpoint : Continue(e)
    \/ StartContinue
    \/ CookieAckContinue
    \/ \E p \in net, again \in BOOLEAN : Receive(p, again)
    \/ \E p \in net : ReceiveIgnored(p)
    \/ \E p \in net : Lose(p)

Spec == Init /\ [][Next]_vars

(***************************************************************************)
(* Node resolves a finished send and runs its continuation, a timer that   *)
(* is armed expires unless it is cancelled, and a packet the network does  *)
(* not lose arrives.  Starting and stopping is up to the application.      *)
(***************************************************************************)
Fairness ==
    /\ \A e \in Endpoint : WF_vars(Timer1Expired(e)) /\ WF_vars(Continue(e))
    /\ WF_vars(StartContinue)
    /\ WF_vars(CookieAckContinue)
    /\ WF_vars(\E p \in net : Receive(p, FALSE) \/ ReceiveIgnored(p))

FairSpec == Spec /\ Fairness

-----------------------------------------------------------------------------
(* Properties.                                                              *)

TypeOK ==
    /\ ep \in [Endpoint -> EndpointState]
    /\ pending \in [Endpoint -> [Continuation -> Nat]]
    /\ net \subseteq Packet
    /\ faults \in Nat

\* Once the client has answered INIT-ACK, the two ends agree on how many streams
\* run each way, whatever was lost, repeated or reordered on the way.
StreamAgreement ==
    ep["client"].associationState \in {"COOKIE_ECHOED", "ESTABLISHED"} =>
        /\ ep["client"].inboundCount = ep["server"].outboundCount
        /\ ep["client"].outboundCount = ep["server"].inboundCount

\* The client is connected only to a server that is connected, is about to be,
\* or has been closed.
NoHalfOpenClient ==
    ep["client"].associationState = "ESTABLISHED" =>
        \/ ep["server"].associationState = "ESTABLISHED"
        \/ pending["server"]["cookieAck"] > 0
        \/ ep["server"].isClosed

\* A client waiting for an answer has T1 armed or a handler about to arm it: a
\* lost packet can never leave the handshake waiting for ever.
HandshakeIsTimed ==
    ep["client"].associationState \in {"COOKIE_WAIT", "COOKIE_ECHOED"} =>
        \/ ep["client"].timer1
        \/ pending["client"]["echo"] > 0
        \/ IsStopped(ep["client"])

\* An established association always has its heartbeat timer armed or a
\* heartbeat being sent, across state changes that arrive during the send.
HeartbeatAlive ==
    \A e \in Endpoint :
        ep[e].associationState = "ESTABLISHED" =>
            ep[e].heartbeat \/ pending[e]["heartbeat"] > 0

\* The inductive strengthening of StreamAgreement and NoHalfOpenClient: what the
\* packets in flight, the armed chunk and the parked handlers may carry.
ToServer == Min(OutboundStreams["client"], InboundStreams["server"])
ToClient == Min(OutboundStreams["server"], InboundStreams["client"])
ServerLearned == ep["server"].inboundCount = ToServer /\ ep["server"].outboundCount = ToClient
ClientLearned == ep["client"].inboundCount = ToClient /\ ep["client"].outboundCount = ToServer
ClientInit == InitChunk("INIT", "client", OutboundStreams["client"], InboundStreams["client"])
ServerReady ==
    \/ ep["server"].associationState = "ESTABLISHED"
    \/ pending["server"]["cookieAck"] > 0
    \/ ep["server"].isClosed

PacketInv(p) ==
    /\ p.chunk.type = "INIT" => p.to = "server" /\ p.chunk = ClientInit
    /\ p.chunk.type = "INIT-ACK" =>
         /\ p.to = "client"
         /\ p.chunk.outboundStreams = ToClient
         /\ p.chunk.inboundStreams = ToServer
         /\ ServerLearned
    /\ p.chunk.type = "COOKIE-ACK" => ServerReady

ClientInv ==
    /\ ep["client"].timer1Chunk \in {NoChunk, ClientInit, PlainChunk("COOKIE-ECHO")}
    /\ ep["client"].outboundCount \in {OutboundStreams["client"], ToServer}
    /\ \/ pending["client"]["echo"] > 0
       \/ ep["client"].associationState \in {"COOKIE_ECHOED", "ESTABLISHED"}
       => ClientLearned /\ ServerLearned
    /\ ep["client"].associationState = "ESTABLISHED" => ServerReady
    /\ ~ep["client"].started =>
         /\ ep["client"].associationState = "CLOSED"
         /\ ep["client"].outboundCount = OutboundStreams["client"]
         /\ pending["client"]["init"] = 0
         /\ pending["client"]["echo"] = 0

ServerInv ==
    /\ ep["server"].timer1Chunk = NoChunk
    /\ ep["server"].associationState \in {"CLOSED", "ESTABLISHED"}
    /\ ep["server"].outboundCount \in {OutboundStreams["server"], ToClient}
    /\ pending["server"]["echo"] = 0

HandshakeInv == ClientInv /\ ServerInv /\ \A p \in net : PacketInv(p)

\* init(): a handshake whose INIT a live client has sent ends: connected, or
\* closed after T1 gave up, an ABORT or a stop.
HandshakeEnds ==
    pending["client"]["init"] > 0 /\ ~IsStopped(ep["client"])
        ~> ep["client"].state \in {"connected", "closed"}

\* What HandshakeEnds would say of every start().  Violated by a start() behind
\* stop(), whose T1 returns early, and by an INIT the transport rejects, behind
\* which no T1 is armed.  No run asks for it.
StartedClientEnds ==
    ep["client"].started ~> ep["client"].state \in {"connected", "closed"}

\* api.test.ts, "stop clears pending handles and blocks timer re-scheduling": a
\* closed endpoint has no timer armed.
StopBlocksTimers ==
    \A e \in Endpoint :
        ep[e].isClosed => ~ep[e].timer1 /\ ~ep[e].heartbeat

\* A client that has closed, for whatever reason, never reports "connected": no
\* late packet, timer or continuation brings it back, nor does a first start().
\* Only that makes it report another state than "closed".
ClosedClientNeverConnects ==
    [][ep["client"].isClosed =>
         /\ ep'["client"].isClosed
         /\ ep'["client"].state # "connected"
         /\ ep["client"].state = "closed" /\ ep["client"].started => ep'["client"].state = "closed"]_vars

\* The same without the exception.  Violated by a start() behind stop(), which
\* sends INIT and reports "connecting".  No run asks for it.
ClosedClientStaysClosed ==
    [][ep["client"].state = "closed" => ep'["client"].state = "closed"]_vars

\* The endpoints keep their type and no interleaving of answers,
\* retransmissions and stop() loses a timer they depend on.
TimersArmed == TypeOK /\ HandshakeIsTimed /\ HeartbeatAlive
=============================================================================
