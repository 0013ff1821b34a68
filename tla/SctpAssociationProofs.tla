------------------------ MODULE SctpAssociationProofs ------------------------
(* Proofs about SctpAssociation for every number of streams, retransmission *)
(* limit and fault bound.                                                   *)
EXTENDS SctpAssociation, TLAPS

-----------------------------------------------------------------------------
(* The methods keep an endpoint's fields in their types.                    *)

LEMMA ChunkTypes ==
    /\ \A e \in Endpoint, a \in Nat, b \in Nat, t \in ChunkType : InitChunk(t, e, a, b) \in Chunk
    /\ \A t \in ChunkType : PlainChunk(t) \in Chunk
BY DEF InitChunk, PlainChunk, Chunk, Tag, Endpoint

LEMMA Timer1Types ==
    ASSUME NEW s \in EndpointState
    PROVE  /\ Timer1Cancel(s) \in EndpointState
           /\ \A c \in Chunk : Timer1Start(s, c) \in EndpointState
BY DEF EndpointState, Timer1Cancel, Timer1Start

LEMMA SetStateType ==
    ASSUME NEW s \in EndpointState, NEW state \in AssociationState
    PROVE  SetState(s, state) \in EndpointState
<1>1. CASE state = "ESTABLISHED"
  BY <1>1 DEF EndpointState, SetState, Established, HeartbeatStart, AssociationState, ConnectionState
<1>2. CASE state = "CLOSED"
  <2>1. Timer1Cancel(s) \in EndpointState
    BY Timer1Types
  <2> QED
    BY <1>2, <2>1 DEF EndpointState, SetState, Closed, AssociationState, ConnectionState
<1>3. CASE state \notin {"ESTABLISHED", "CLOSED"}
  BY <1>3 DEF EndpointState, SetState, AssociationState
<1> QED
  BY <1>1, <1>2, <1>3

LEMMA ArmTimer1Type ==
    ASSUME NEW s \in EndpointState, NEW c \in Chunk, NEW state \in AssociationState
    PROVE  ArmTimer1(s, c, state) \in EndpointState
<1>1. Timer1Start(s, c) \in EndpointState
  BY Timer1Types
<1>2. SetState(Timer1Start(s, c), state) \in EndpointState
  BY <1>1, SetStateType
<1>3. [s EXCEPT !.threw = TRUE] \in EndpointState
  BY DEF EndpointState
<1> QED
  BY <1>2, <1>3 DEF ArmTimer1

LEMMA LearnPeerType ==
    ASSUME NEW e \in Endpoint, NEW s \in EndpointState, NEW c \in Chunk
    PROVE  LearnPeer(e, s, c) \in EndpointState
BY StreamsAssumption DEF LearnPeer, EndpointState, Chunk, Min

LEMMA SendChunkType ==
    ASSUME NEW e \in Endpoint, NEW s \in EndpointState, NEW c \in Chunk
    PROVE  SendChunk(e, s, c) \subseteq Packet
BY DEF SendChunk, EndpointState, Packet, Peer, Endpoint

LEMMA ParkType ==
    ASSUME pending \in [Endpoint -> [Continuation -> Nat]],
           NEW e \in Endpoint, NEW k \in Continuation
    PROVE  /\ Park(e, k) => pending' \in [Endpoint -> [Continuation -> Nat]]
           /\ Resume(e, k) => pending' \in [Endpoint -> [Continuation -> Nat]]
BY DEF Park, Resume

-----------------------------------------------------------------------------
(* Type correctness.                                                        *)

LEMMA UserType ==
    ASSUME TypeOK, NEW e \in Endpoint, User(e)
    PROVE  TypeOK'
<1> USE DEF TypeOK
<1>s. ep[e] \in EndpointState
  OBVIOUS
<1>1. CASE SetRemotePort(e)
  BY <1>1, <1>s DEF SetRemotePort, EndpointState
<1>2. ASSUME NEW rejected \in BOOLEAN, Start(e, rejected) PROVE TypeOK'
  <2> DEFINE s == [ep[e] EXCEPT !.started = TRUE, !.state = "connecting", !.remotePort = TRUE]
             init == InitChunk("INIT", e, s.outboundCount, InboundStreams[e])
  <2>1. s \in EndpointState
    BY <1>s DEF EndpointState, ConnectionState
  <2>2. init \in Chunk
    BY <2>1, ChunkTypes, StreamsAssumption DEF EndpointState, ChunkType
  <2>3. SendChunk(e, s, init) \subseteq Packet
    BY <2>1, <2>2, SendChunkType
  <2>4. "init" \in Continuation
    BY DEF Continuation
  <2>5. ep' = [ep EXCEPT ![e] = s] /\ faults' \in Nat
    BY <1>2 DEF Start
  <2>6. net' = net \cup SendChunk(e, s, init) \/ net' = net
    BY <1>2 DEF Start
  <2>7. Park(e, "init") \/ pending' = pending
    BY <1>2 DEF Start
  <2>8. pending' \in [Endpoint -> [Continuation -> Nat]]
    BY <2>4, <2>7, ParkType
  <2> HIDE DEF s, init
  <2> QED
    BY <2>1, <2>3, <2>5, <2>6, <2>8
<1>3. CASE Stop(e)
  <2> DEFINE s == [ep[e] EXCEPT !.isStopping = TRUE, !.onData = FALSE]
  <2>1. s \in EndpointState
    BY <1>s DEF EndpointState
  <2>2. SetState(s, "CLOSED") \in EndpointState /\ SetState(ep[e], "CLOSED") \in EndpointState
    BY <1>s, <2>1, SetStateType DEF AssociationState
  <2>3. SendChunk(e, s, PlainChunk("ABORT")) \subseteq Packet
    BY <2>1, SendChunkType, ChunkTypes DEF ChunkType
  <2>4. "stop" \in Continuation
    BY DEF Continuation
  <2>5. \/ ep' = [ep EXCEPT ![e] = SetState(@, "CLOSED")]
        \/ ep' = [ep EXCEPT ![e] = SetState(s, "CLOSED")]
        \/ ep' = [ep EXCEPT ![e] = s]
    BY <1>3 DEF Stop
  <2>6. net' = net \cup SendChunk(e, s, PlainChunk("ABORT")) \/ net' = net
    BY <1>3 DEF Stop
  <2>7. Park(e, "stop") \/ pending' = pending
    BY <1>3 DEF Stop
  <2>8. pending' \in [Endpoint -> [Continuation -> Nat]]
    BY <2>4, <2>7, ParkType
  <2>9. faults' = faults
    BY <1>3 DEF Stop
  <2> HIDE DEF s
  <2> QED
    BY <2>1, <2>2, <2>3, <2>5, <2>6, <2>8, <2>9
<1>4. CASE TransportClosed(e)
  BY <1>4, <1>s, SetStateType DEF TransportClosed, AssociationState
<1> QED
  BY <1>1, <1>2, <1>3, <1>4 DEF User
LEMMA TimerType ==
    ASSUME TypeOK, NEW e \in Endpoint, Timer1Expired(e) \/ HeartbeatExpired(e)
    PROVE  TypeOK'
<1> USE DEF TypeOK
<1>s. ep[e] \in EndpointState /\ {"timer1", "heartbeat"} \subseteq Continuation
  BY DEF Continuation
<1>1. CASE Timer1Expired(e)
  <2> DEFINE s == [ep[e] EXCEPT !.timer1Failures = @ + 1]
  <2>0. ep[e].timer1Failures + 1 \in Nat
    BY <1>s DEF EndpointState
  <2>1a. s \in EndpointState
    BY <1>s, <2>0, Zenon DEF EndpointState
  <2>1. s \in EndpointState /\ [s EXCEPT !.timer1 = FALSE] \in EndpointState
    BY <2>1a DEF EndpointState
  <2>2. SetState([s EXCEPT !.timer1 = FALSE], "CLOSED") \in EndpointState
    BY <2>1, SetStateType DEF AssociationState
  <2>3. \/ ep' = [ep EXCEPT ![e] = SetState([s EXCEPT !.timer1 = FALSE], "CLOSED")]
        \/ ep' = [ep EXCEPT ![e] = s]
    BY <1>1 DEF Timer1Expired
  <2>4. (Park(e, "timer1") \/ pending' = pending) /\ net' = net /\ faults' = faults
    BY <1>1 DEF Timer1Expired
  <2>5. pending' \in [Endpoint -> [Continuation -> Nat]]
    BY <1>s, <2>4, ParkType
  <2> HIDE DEF s
  <2> QED
    BY <2>1, <2>2, <2>3, <2>4, <2>5
<1>2. CASE HeartbeatExpired(e)
  <2>1. [ep[e] EXCEPT !.heartbeat = FALSE] \in EndpointState
    BY <1>s DEF EndpointState
  <2>2. Park(e, "heartbeat") \/ pending' = pending
    BY <1>2 DEF HeartbeatExpired
  <2>3. pending' \in [Endpoint -> [Continuation -> Nat]]
    BY <1>s, <2>2, ParkType
  <2>4. ep' = [ep EXCEPT ![e] = [ep[e] EXCEPT !.heartbeat = FALSE]] /\ net' = net /\ faults' = faults
    BY <1>2 DEF HeartbeatExpired
  <2> QED
    BY <2>1, <2>3, <2>4
<1> QED
  BY <1>1, <1>2

LEMMA ContinueType ==
    ASSUME TypeOK, NEW e \in Endpoint, Continue(e) \/ StartContinue \/ CookieAckContinue
    PROVE  TypeOK'
<1> USE DEF TypeOK
<1>s. /\ \A d \in Endpoint : ep[d] \in EndpointState
      /\ {"client", "server"} \subseteq Endpoint
      /\ {"CLOSED", "COOKIE_WAIT", "COOKIE_ECHOED", "ESTABLISHED"} \subseteq AssociationState
      /\ {"init", "echo", "cookieAck", "stop", "timer1", "heartbeat"} \subseteq Continuation
  BY DEF Endpoint, Continuation, AssociationState
<1>p. \A d \in Endpoint, k \in Continuation :
        Resume(d, k) => pending' \in [Endpoint -> [Continuation -> Nat]]
  BY ParkType
<1>1. CASE StopContinue(e)
  BY <1>1, <1>s, <1>p, SetStateType DEF StopContinue
<1>2. CASE EchoContinue(e)
  <2>1. PlainChunk("COOKIE-ECHO") \in Chunk
    BY ChunkTypes DEF ChunkType
  <2>2. ArmTimer1(ep[e], PlainChunk("COOKIE-ECHO"), "COOKIE_ECHOED") \in EndpointState
    BY <1>s, <2>1, ArmTimer1Type
  <2>3. /\ ep' = [ep EXCEPT ![e] = ArmTimer1(@, PlainChunk("COOKIE-ECHO"), "COOKIE_ECHOED")]
        /\ Resume(e, "echo") /\ net' = net /\ faults' = faults
    BY <1>2 DEF EchoContinue
  <2>4. pending' \in [Endpoint -> [Continuation -> Nat]]
    BY <1>s, <1>p, <2>3
  <2> QED
    BY <2>2, <2>3, <2>4
<1>3. CASE HeartbeatContinue(e)
  <2> DEFINE b == ep[e].heartbeat \/ ep[e].associationState = "ESTABLISHED"
  <2>0. ep[e] \in EndpointState /\ b \in BOOLEAN
    BY <1>s DEF EndpointState
  <2>1. HeartbeatStart(ep[e]) \in EndpointState
    <3>1. HeartbeatStart(ep[e]) = [ep[e] EXCEPT !.heartbeat = b]
      BY DEF HeartbeatStart
    <3> HIDE DEF b
    <3> QED
      BY <2>0, <3>1 DEF EndpointState
  <2> HIDE DEF b
  <2> QED
    BY <1>3, <1>s, <1>p, <2>1 DEF HeartbeatContinue
<1>4. CASE Timer1Retransmit(e)
  <2>1. ep[e].timer1Chunk # NoChunk => ep[e].timer1Chunk \in Chunk
    BY <1>s DEF EndpointState
  <2>2. ep[e].timer1Chunk # NoChunk => SendChunk(e, ep[e], ep[e].timer1Chunk) \subseteq Packet
    BY <1>s, <2>1, SendChunkType
  <2>3. net' = net \/ (ep[e].timer1Chunk # NoChunk /\ net' = net \cup SendChunk(e, ep[e], ep[e].timer1Chunk))
    BY <1>4 DEF Timer1Retransmit
  <2> QED
    BY <1>4, <1>s, <1>p, <2>2, <2>3 DEF Timer1Retransmit
<1>5. CASE StartContinue
  <2>1. InitChunk("INIT", "client", OutboundStreams["client"], InboundStreams["client"]) \in Chunk
    BY <1>s, ChunkTypes, StreamsAssumption DEF ChunkType
  <2> QED
    BY <1>5, <1>s, <1>p, <2>1, ArmTimer1Type DEF StartContinue
<1>6. CASE CookieAckContinue
  BY <1>6, <1>s, <1>p, SetStateType DEF CookieAckContinue
<1> QED
  BY <1>1, <1>2, <1>3, <1>4, <1>5, <1>6 DEF Continue

LEMMA ReceiveType ==
    ASSUME TypeOK, NEW p \in net, NEW again \in BOOLEAN,
           Receive(p, again) \/ ReceiveIgnored(p) \/ Lose(p)
    PROVE  TypeOK'
<1> USE DEF TypeOK
<1>s. /\ \A d \in Endpoint : ep[d] \in EndpointState
      /\ p.to \in Endpoint /\ p.chunk \in Chunk
      /\ "server" \in Endpoint
      /\ {"CLOSED", "ESTABLISHED"} \subseteq AssociationState
      /\ {"echo", "cookieAck"} \subseteq Continuation
      /\ Remaining(p, again) \subseteq Packet
  BY DEF Endpoint, Continuation, AssociationState, Packet, Remaining
<1>c. \A t \in {"COOKIE-ECHO", "COOKIE-ACK", "ERROR"} : PlainChunk(t) \in Chunk
  BY ChunkTypes DEF ChunkType
<1>p. \A d \in Endpoint, k \in Continuation :
        Park(d, k) => pending' \in [Endpoint -> [Continuation -> Nat]]
  BY ParkType
<1>f. \A t : Take(p, t, again) => faults' \in Nat
  BY DEF Take
<1>1. CASE ReceiveInit(p, again)
  <2> DEFINE s == LearnPeer("server", ep["server"], p.chunk)
             ack == InitChunk("INIT-ACK", "server", s.outboundCount, s.inboundCount)
  <2>1. s \in EndpointState
    BY <1>s, LearnPeerType
  <2>2. ack \in Chunk
    BY <1>s, <2>1, ChunkTypes DEF EndpointState, ChunkType
  <2>3. SendChunk("server", s, ack) \subseteq Packet
    BY <1>s, <2>1, <2>2, SendChunkType
  <2>4. /\ ep' = [ep EXCEPT !["server"] = s]
        /\ net' = Remaining(p, again) \cup SendChunk("server", s, ack)
        /\ pending' = pending /\ faults' \in Nat
    BY <1>1, <1>f DEF ReceiveInit
  <2> HIDE DEF s, ack
  <2> QED
    BY <1>s, <2>1, <2>3, <2>4
<1>2. CASE ReceiveInitAck(p, again)
  <2> DEFINE s == LearnPeer(p.to, Timer1Cancel(ep[p.to]), p.chunk)
  <2>1. s \in EndpointState
    BY <1>s, LearnPeerType, Timer1Types
  <2>2. SendChunk(p.to, s, PlainChunk("COOKIE-ECHO")) \subseteq Packet
    BY <1>s, <1>c, <2>1, SendChunkType
  <2>3. /\ ep' = [ep EXCEPT ![p.to] = s]
        /\ net' = Remaining(p, again) \cup SendChunk(p.to, s, PlainChunk("COOKIE-ECHO"))
        /\ Park(p.to, "echo") /\ faults' \in Nat
    BY <1>2, <1>f DEF ReceiveInitAck
  <2> HIDE DEF s
  <2> QED
    BY <1>s, <1>p, <2>1, <2>2, <2>3
<1>3. CASE ReceiveCookieEcho(p, again)
  BY <1>3, <1>s, <1>c, <1>p, <1>f, SendChunkType DEF ReceiveCookieEcho
<1>4. CASE ReceiveStaleCookieEcho(p, again)
  BY <1>4, <1>s, <1>c, <1>f, SendChunkType DEF ReceiveStaleCookieEcho
<1>5. CASE ReceiveCookieAck(p, again)
  <2>1. SetState(Timer1Cancel(ep[p.to]), "ESTABLISHED") \in EndpointState
    BY <1>s, SetStateType, Timer1Types
  <2> QED
    BY <1>5, <1>s, <1>f, <2>1 DEF ReceiveCookieAck
<1>6. CASE ReceiveAbort(p, again)
  BY <1>6, <1>s, <1>f, SetStateType DEF ReceiveAbort
<1>7. CASE ReceiveIgnored(p)
  BY <1>7 DEF ReceiveIgnored
<1>8. CASE Lose(p)
  BY <1>8 DEF Lose
<1> QED
  BY <1>1, <1>2, <1>3, <1>4, <1>5, <1>6, <1>7, <1>8 DEF Receive

\* Every field of both endpoints keeps its type, and every packet in flight is
\* one the code can serialise, in every behaviour.
THEOREM TypeCorrect == Spec => []TypeOK
<1>1. Init => TypeOK
  <2> SUFFICES ASSUME Init PROVE TypeOK
    OBVIOUS
  <2>1. \A e \in Endpoint : NewEndpoint(e) \in EndpointState
    BY StreamsAssumption
    DEF NewEndpoint, EndpointState, AssociationState, ConnectionState, Tag
  <2> QED
    BY <2>1 DEF Init, TypeOK
<1>2. TypeOK /\ [Next]_vars => TypeOK'
  <2> SUFFICES ASSUME TypeOK, [Next]_vars PROVE TypeOK'
    OBVIOUS
  <2>1. CASE UNCHANGED vars
    BY <2>1 DEF vars, TypeOK
  <2>2. CASE Next
    BY <2>2, UserType, TimerType, ContinueType, ReceiveType DEF Next, Endpoint
  <2> QED
    BY <2>1, <2>2
<1> QED
  BY <1>1, <1>2, PTL DEF Spec
-----------------------------------------------------------------------------
(* Which fields the methods change.                                         *)

LEMMA EstablishedFields ==
    ASSUME NEW s \in EndpointState
    PROVE  LET t == SetState(s, "ESTABLISHED") IN
           /\ t.associationState = "ESTABLISHED" /\ t.heartbeat /\ ~t.isClosed
           /\ t.timer1Chunk = s.timer1Chunk /\ t.started = s.started
           /\ t.inboundCount = s.inboundCount /\ t.outboundCount = s.outboundCount
BY DEF EndpointState, SetState, Established, HeartbeatStart

LEMMA ClosedFields ==
    ASSUME NEW s \in EndpointState
    PROVE  LET t == SetState(s, "CLOSED") IN
           /\ t.associationState = "CLOSED" /\ t.isClosed /\ t.state = "closed"
           /\ t.timer1Chunk \in {s.timer1Chunk, NoChunk} /\ t.started = s.started
           /\ t.inboundCount = s.inboundCount /\ t.outboundCount = s.outboundCount
<1>1. Timer1Cancel(s) \in EndpointState
  BY Timer1Types
<1>2. LET t == Timer1Cancel(s) IN
      /\ t.timer1Chunk \in {s.timer1Chunk, NoChunk} /\ t.started = s.started
      /\ t.inboundCount = s.inboundCount /\ t.outboundCount = s.outboundCount
  BY DEF EndpointState, Timer1Cancel
<1> QED
  BY <1>1, <1>2 DEF EndpointState, SetState, Closed

LEMMA Timer1CancelFields ==
    ASSUME NEW s \in EndpointState
    PROVE  LET t == Timer1Cancel(s) IN
           /\ t.timer1Chunk \in {s.timer1Chunk, NoChunk}
           /\ \A f \in {"associationState", "state", "started", "isStopping", "isClosed",
                        "heartbeat", "inboundCount", "outboundCount"} : t[f] = s[f]
BY DEF EndpointState, Timer1Cancel

LEMMA LearnPeerFields ==
    ASSUME NEW e \in Endpoint, NEW s \in EndpointState, NEW c \in Chunk
    PROVE  LET t == LearnPeer(e, s, c) IN
           /\ t.inboundCount = Min(c.outboundStreams, InboundStreams[e])
           /\ t.outboundCount = Min(s.outboundCount, c.inboundStreams)
           /\ \A f \in {"associationState", "state", "started", "isStopping", "isClosed",
                        "heartbeat", "timer1", "timer1Chunk"} : t[f] = s[f]
BY Zenon DEF EndpointState, LearnPeer

LEMMA ArmTimer1Fields ==
    ASSUME NEW s \in EndpointState, NEW c \in Chunk,
           NEW state \in {"COOKIE_WAIT", "COOKIE_ECHOED"}
    PROVE  LET t == ArmTimer1(s, c, state) IN
           /\ t.timer1
           /\ t.timer1Chunk \in {s.timer1Chunk, c}
           /\ t.associationState \in {s.associationState, state}
           /\ \A f \in {"state", "started", "isStopping", "isClosed",
                        "heartbeat", "inboundCount", "outboundCount"} : t[f] = s[f]
BY Zenon DEF EndpointState, ArmTimer1, SetState, Timer1Start

LEMMA PendingCounts ==
    ASSUME pending \in [Endpoint -> [Continuation -> Nat]],
           NEW e \in Endpoint, NEW k \in Continuation
    PROVE  /\ Park(e, k) => pending'[e][k] > 0
           /\ Park(e, k) \/ Resume(e, k) =>
                \A d \in Endpoint, j \in Continuation :
                   d # e \/ j # k => pending'[d][j] = pending[d][j]
           /\ Resume(e, k) => pending[e][k] > 0
BY DEF Park, Resume
-----------------------------------------------------------------------------
(* Timers: both invariants are inductive as they stand.                     *)

\* A step that leaves states, timers and the handlers about to arm them alone,
\* except that an endpoint may be stopping.
LEMMA TimersFrame ==
    ASSUME HandshakeIsTimed, HeartbeatAlive,
           \A d \in Endpoint :
              /\ \A f \in {"associationState", "timer1", "heartbeat"} : ep'[d][f] = ep[d][f]
              /\ IsStopped(ep[d]) => IsStopped(ep[d])'
              /\ \A k \in {"echo", "heartbeat"} : pending'[d][k] = pending[d][k]
    PROVE  HandshakeIsTimed' /\ HeartbeatAlive'
BY DEF HandshakeIsTimed, HeartbeatAlive, Endpoint

\* A step that closes one endpoint.
LEMMA TimersClose ==
    ASSUME TypeOK, HandshakeIsTimed, HeartbeatAlive,
           NEW e \in Endpoint, NEW s \in EndpointState,
           ep' = [ep EXCEPT ![e] = SetState(s, "CLOSED")],
           \A d \in Endpoint, k \in {"echo", "heartbeat"} : pending'[d][k] = pending[d][k]
    PROVE  HandshakeIsTimed' /\ HeartbeatAlive'
<1>1. ep'[e].associationState = "CLOSED" /\ \A d \in Endpoint : d # e => ep'[d] = ep[d]
  BY ClosedFields DEF TypeOK
<1> QED
  BY <1>1 DEF HandshakeIsTimed, HeartbeatAlive, Endpoint, IsStopped

LEMMA TimersStep ==
    ASSUME TypeOK, HandshakeIsTimed, HeartbeatAlive, Next
    PROVE  HandshakeIsTimed' /\ HeartbeatAlive'
<1> DEFINE Goal == HandshakeIsTimed' /\ HeartbeatAlive'
<1>t. /\ \A e \in Endpoint : ep[e] \in EndpointState
      /\ ep \in [Endpoint -> EndpointState]
      /\ pending \in [Endpoint -> [Continuation -> Nat]]
      /\ \A p \in net : p.to \in Endpoint /\ p.chunk \in Chunk
  BY DEF TypeOK, Packet
<1>e. "client" \in Endpoint /\ "server" \in Endpoint
  BY DEF Endpoint
<1>k. {"init", "echo", "cookieAck", "stop", "timer1", "heartbeat"} \subseteq Continuation
  BY DEF Continuation
<1>q. \A e \in Endpoint, j \in {"init", "cookieAck", "stop", "timer1"} :
        Park(e, j) \/ Resume(e, j) \/ pending' = pending =>
          \A d \in Endpoint, k \in {"echo", "heartbeat"} : pending'[d][k] = pending[d][k]
  BY <1>t, <1>k, PendingCounts
<1>c. PlainChunk("COOKIE-ECHO") \in Chunk /\ ClientInit \in Chunk
  BY <1>e, ChunkTypes, StreamsAssumption DEF ChunkType, ClientInit
<1>1. ASSUME NEW e \in Endpoint, SetRemotePort(e)
      PROVE  Goal
  <2>1. \A f \in {"associationState", "isStopping", "isClosed", "timer1", "heartbeat"}, d \in Endpoint :
          ep'[d][f] = ep[d][f]
    BY <1>1, <1>t DEF SetRemotePort, EndpointState
  <2> QED
    BY <1>1, <2>1, TimersFrame DEF SetRemotePort, IsStopped
<1>2. ASSUME NEW e \in Endpoint, NEW rejected \in BOOLEAN, Start(e, rejected)
      PROVE  Goal
  <2> DEFINE s == [ep[e] EXCEPT !.started = TRUE, !.state = "connecting", !.remotePort = TRUE]
  <2>e. ep[e] \in EndpointState
    BY <1>t
  <2>s. \A f \in {"associationState", "isStopping", "isClosed", "timer1", "heartbeat"} : s[f] = ep[e][f]
    BY <2>e DEF EndpointState
  <2>0. ep' = [ep EXCEPT ![e] = s]
    BY <1>2 DEF Start
  <2> HIDE DEF s
  <2>1. \A f \in {"associationState", "isStopping", "isClosed", "timer1", "heartbeat"}, d \in Endpoint :
          ep'[d][f] = ep[d][f]
    BY <1>t, <2>0, <2>s
  <2>2. Park(e, "init") \/ pending' = pending
    BY <1>2 DEF Start
  <2> QED
    BY <1>q, <2>1, <2>2, TimersFrame DEF IsStopped
<1>3. ASSUME NEW e \in Endpoint, Stop(e)
      PROVE  Goal
  <2> DEFINE s == [ep[e] EXCEPT !.isStopping = TRUE, !.onData = FALSE]
  <2>e. ep[e] \in EndpointState
    BY <1>t
  <2>0. s \in EndpointState
    BY <2>e DEF EndpointState
  <2>1. /\ s \in EndpointState /\ s.isStopping
        /\ \A f \in {"associationState", "timer1", "heartbeat"} : s[f] = ep[e][f]
    BY <2>e, <2>0 DEF EndpointState
  <2>2. Park(e, "stop") \/ pending' = pending
    BY <1>3 DEF Stop
  <2>3. \/ ep' = [ep EXCEPT ![e] = SetState(ep[e], "CLOSED")]
        \/ ep' = [ep EXCEPT ![e] = SetState(s, "CLOSED")]
        \/ ep' = [ep EXCEPT ![e] = s]
    BY <1>3 DEF Stop
  <2>9. \A d \in Endpoint, k \in {"echo", "heartbeat"} : pending'[d][k] = pending[d][k]
    BY <1>q, <2>2
  <2> HIDE DEF s
  <2>4. CASE ep' = [ep EXCEPT ![e] = SetState(ep[e], "CLOSED")]
    BY <1>q, <1>t, <2>2, <2>4, TimersClose
  <2>5. CASE ep' = [ep EXCEPT ![e] = SetState(s, "CLOSED")]
    BY <1>q, <2>1, <2>2, <2>5, TimersClose
  <2>6. CASE ep' = [ep EXCEPT ![e] = s]
    <3>1. ep'[e] = s /\ \A d \in Endpoint : d # e => ep'[d] = ep[d]
      BY <1>t, <2>6
    <3> QED
      BY <2>1, <2>9, <3>1, TimersFrame DEF IsStopped
  <2> QED
    BY <2>3, <2>4, <2>5, <2>6
<1>4. ASSUME NEW e \in Endpoint, TransportClosed(e) \/ StopContinue(e)
      PROVE  Goal
  <2>1. pending' = pending \/ Resume(e, "stop")
    BY <1>4 DEF TransportClosed, StopContinue
  <2> QED
    BY <1>4, <1>q, <1>t, <2>1, TimersClose DEF TransportClosed, StopContinue
<1>5. ASSUME NEW e \in Endpoint, Timer1Expired(e)
      PROVE  Goal
  <2> DEFINE s == [ep[e] EXCEPT !.timer1Failures = @ + 1]
             u == [s EXCEPT !.timer1 = FALSE]
  <2>0. ep[e].timer1Failures + 1 \in Nat
    BY <1>t DEF EndpointState
  <2>e. ep[e] \in EndpointState
    BY <1>t
  <2>a. s \in EndpointState
    BY <2>e, <2>0, Zenon DEF EndpointState
  <2>1. /\ s \in EndpointState
        /\ \A f \in {"associationState", "isStopping", "isClosed", "timer1", "heartbeat"} : s[f] = ep[e][f]
    BY <2>e, <2>a, Zenon DEF EndpointState
  <2>2. u \in EndpointState
    BY <2>1 DEF EndpointState
  <2>3. ep' = [ep EXCEPT ![e] = SetState(u, "CLOSED")] \/ ep' = [ep EXCEPT ![e] = s]
    BY <1>5 DEF Timer1Expired
  <2>4. Park(e, "timer1") \/ pending' = pending
    BY <1>5 DEF Timer1Expired
  <2> HIDE DEF s, u
  <2>5. CASE ep' = [ep EXCEPT ![e] = SetState(u, "CLOSED")]
    BY <1>q, <2>2, <2>4, <2>5, TimersClose
  <2>6. CASE ep' = [ep EXCEPT ![e] = s]
    <3>1. ep'[e] = s /\ \A d \in Endpoint : d # e => ep'[d] = ep[d]
      BY <1>t, <2>6
    <3>2. \A d \in Endpoint, k \in {"echo", "heartbeat"} : pending'[d][k] = pending[d][k]
      BY <1>q, <2>4
    <3> QED
      BY <2>1, <3>1, <3>2, TimersFrame DEF IsStopped
  <2> QED
    BY <2>3, <2>5, <2>6
<1>6. ASSUME NEW e \in Endpoint, HeartbeatExpired(e)
      PROVE  Goal
  <2>1. \A f \in {"associationState", "isStopping", "isClosed", "timer1"}, d \in Endpoint :
          ep'[d][f] = ep[d][f]
    BY <1>6, <1>t DEF HeartbeatExpired, EndpointState
  <2>2. \A d \in Endpoint : d # e => ep'[d] = ep[d]
    BY <1>6, <1>t DEF HeartbeatExpired
  <2>3. \A d \in Endpoint : pending'[d]["echo"] = pending[d]["echo"]
    BY <1>6, <1>t, <1>k, PendingCounts DEF HeartbeatExpired
  <2>4. \A d \in Endpoint : d # e => pending'[d]["heartbeat"] = pending[d]["heartbeat"]
    BY <1>6, <1>t, <1>k, PendingCounts DEF HeartbeatExpired
  <2>5. ep[e].associationState = "ESTABLISHED" => pending'[e]["heartbeat"] > 0
    BY <1>6, <1>t, <1>k, PendingCounts DEF HeartbeatExpired
  <2>6. HandshakeIsTimed'
    BY <1>e, <2>1, <2>3 DEF HandshakeIsTimed, IsStopped
  <2>7. HeartbeatAlive'
    BY <2>1, <2>2, <2>4, <2>5 DEF HeartbeatAlive
  <2> QED
    BY <2>6, <2>7
<1>7. ASSUME NEW e \in Endpoint, HeartbeatContinue(e)
      PROVE  Goal
  <2>1. \A f \in {"associationState", "isStopping", "isClosed", "timer1"}, d \in Endpoint :
          ep'[d][f] = ep[d][f]
    BY <1>7, <1>t DEF HeartbeatContinue, HeartbeatStart, EndpointState
  <2>2. \A d \in Endpoint : d # e => ep'[d] = ep[d] /\ pending'[d]["heartbeat"] = pending[d]["heartbeat"]
    BY <1>7, <1>t, <1>k, PendingCounts DEF HeartbeatContinue
  <2>3. \A d \in Endpoint : pending'[d]["echo"] = pending[d]["echo"]
    BY <1>7, <1>t, <1>k, PendingCounts DEF HeartbeatContinue
  <2>4. ep[e].associationState = "ESTABLISHED" => ep'[e].heartbeat
    BY <1>7, <1>t DEF HeartbeatContinue, HeartbeatStart, EndpointState
  <2>5. HandshakeIsTimed'
    BY <1>e, <2>1, <2>3 DEF HandshakeIsTimed, IsStopped
  <2>6. HeartbeatAlive'
    BY <2>1, <2>2, <2>4 DEF HeartbeatAlive
  <2> QED
    BY <2>5, <2>6
<1>8. ASSUME NEW e \in Endpoint, Timer1Retransmit(e)
      PROVE  Goal
  BY <1>8, <1>q, TimersFrame DEF Timer1Retransmit
<1>9. ASSUME NEW e \in Endpoint, NEW k \in {"init", "echo"}, NEW c \in Chunk,
             NEW st \in {"COOKIE_WAIT", "COOKIE_ECHOED"},
             Resume(e, k), ep' = [ep EXCEPT ![e] = ArmTimer1(ep[e], c, st)]
      PROVE  Goal
  <2>1. LET t == ep'[e] IN
        /\ t.timer1 /\ t.associationState \in {ep[e].associationState, st}
        /\ t.heartbeat = ep[e].heartbeat
    BY <1>9, <1>t, ArmTimer1Fields
  <2>2. \A d \in Endpoint : d # e => ep'[d] = ep[d] /\ pending'[d]["echo"] = pending[d]["echo"]
    BY <1>9, <1>t, <1>k, PendingCounts
  <2>3. \A d \in Endpoint : pending'[d]["heartbeat"] = pending[d]["heartbeat"]
    BY <1>9, <1>t, <1>k, PendingCounts
  <2>4. HandshakeIsTimed'
    BY <1>e, <2>1, <2>2 DEF HandshakeIsTimed, IsStopped
  <2>5. HeartbeatAlive'
    BY <2>1, <2>2, <2>3 DEF HeartbeatAlive
  <2> QED
    BY <2>4, <2>5
<1>10. ASSUME NEW e \in Endpoint, EchoContinue(e) \/ StartContinue
       PROVE  Goal
  BY <1>10, <1>9, <1>c, <1>e DEF EchoContinue, StartContinue, ClientInit
<1>11. ASSUME NEW e \in Endpoint, NEW s \in EndpointState,
              ep' = [ep EXCEPT ![e] = SetState(s, "ESTABLISHED")],
              \A d \in Endpoint, k \in {"echo", "heartbeat"} : pending'[d][k] = pending[d][k]
       PROVE  Goal
  <2>1. /\ ep'[e].associationState = "ESTABLISHED" /\ ep'[e].heartbeat
        /\ \A d \in Endpoint : d # e => ep'[d] = ep[d]
    BY <1>11, <1>t, EstablishedFields
  <2> QED
    BY <1>e, <1>11, <2>1 DEF HandshakeIsTimed, HeartbeatAlive, IsStopped
<1>12. ASSUME CookieAckContinue
       PROVE  Goal
  BY <1>11, <1>12, <1>e, <1>q, <1>t DEF CookieAckContinue
<1>13. ASSUME NEW p \in net, NEW again \in BOOLEAN, Receive(p, again)
       PROVE  Goal
  <2>1. CASE ReceiveInit(p, again)
    <3>1. \A d \in Endpoint, f \in {"associationState", "isStopping", "isClosed", "timer1", "heartbeat"} :
            ep'[d][f] = ep[d][f]
      BY <2>1, <1>e, <1>t, LearnPeerFields DEF ReceiveInit
    <3> QED
      BY <2>1, <3>1, TimersFrame DEF ReceiveInit, IsStopped
  <2>2. CASE ReceiveInitAck(p, again)
    <3> DEFINE s == Timer1Cancel(ep[p.to])
    <3>1. s \in EndpointState /\ \A f \in {"associationState", "heartbeat"} : s[f] = ep[p.to][f]
      BY <1>t, Timer1CancelFields, Timer1Types
    <3>2. ep' = [ep EXCEPT ![p.to] = LearnPeer(p.to, s, p.chunk)]
      BY <2>2 DEF ReceiveInitAck
    <3> HIDE DEF s
    <3>3. \A f \in {"associationState", "heartbeat"}, d \in Endpoint : ep'[d][f] = ep[d][f]
      BY <1>t, <3>1, <3>2, LearnPeerFields
    <3>4. \A d \in Endpoint : d # p.to => ep'[d] = ep[d]
      BY <1>t, <3>2
    <3>5. Park(p.to, "echo")
      BY <2>2 DEF ReceiveInitAck
    <3>6. /\ pending'[p.to]["echo"] > 0
          /\ \A d \in Endpoint : pending'[d]["heartbeat"] = pending[d]["heartbeat"]
          /\ \A d \in Endpoint : d # p.to => pending'[d]["echo"] = pending[d]["echo"]
      BY <1>t, <1>k, <3>5, PendingCounts
    <3>7. HandshakeIsTimed'
      BY <1>e, <3>3, <3>4, <3>6 DEF HandshakeIsTimed, IsStopped
    <3>8. HeartbeatAlive'
      BY <3>3, <3>6 DEF HeartbeatAlive
    <3> QED
      BY <3>7, <3>8
  <2>3. CASE ReceiveCookieEcho(p, again)
    BY <2>3, <1>e, <1>q, TimersFrame DEF ReceiveCookieEcho
  <2>4. CASE ReceiveStaleCookieEcho(p, again)
    BY <2>4, TimersFrame DEF ReceiveStaleCookieEcho
  <2>5. CASE ReceiveCookieAck(p, again)
    BY <2>5, <1>11, <1>t, Timer1Types DEF ReceiveCookieAck
  <2>6. CASE ReceiveAbort(p, again)
    BY <2>6, <1>t, TimersClose DEF ReceiveAbort
  <2> QED
    BY <1>13, <2>1, <2>2, <2>3, <2>4, <2>5, <2>6 DEF Receive
<1>14. ASSUME NEW p \in net, ReceiveIgnored(p) \/ Lose(p)
       PROVE  Goal
  BY <1>14, TimersFrame DEF ReceiveIgnored, Lose
<1> QED
  BY <1>1, <1>2, <1>3, <1>4, <1>5, <1>6, <1>7, <1>8, <1>10, <1>12, <1>13, <1>14, <1>e
  DEF Next, User, Continue

\* A client waiting for INIT-ACK or COOKIE-ACK has T1 armed, or a handler about to
\* arm it, or is stopped, and an established association has its heartbeat timer
\* armed or a heartbeat being sent: no interleaving of answers, retransmissions
\* and stop() loses a timer (TimersArmed, with the types it rests on).
THEOREM TimersNeverLost == Spec => []TimersArmed
<1>1. Init => HandshakeIsTimed /\ HeartbeatAlive
  BY DEF Init, NewEndpoint, HandshakeIsTimed, HeartbeatAlive, Endpoint
<1>2. TypeOK /\ HandshakeIsTimed /\ HeartbeatAlive /\ [Next]_vars => HandshakeIsTimed' /\ HeartbeatAlive'
  <2>1. CASE UNCHANGED vars
    BY <2>1 DEF vars, HandshakeIsTimed, HeartbeatAlive, IsStopped
  <2> QED
    BY <2>1, TimersStep
<1>3. TypeOK /\ HandshakeIsTimed /\ HeartbeatAlive => TimersArmed
  BY DEF TimersArmed
<1> QED
  BY <1>1, <1>2, <1>3, TypeCorrect, PTL DEF Spec

-----------------------------------------------------------------------------
(* The handshake.                                                           *)

LEMMA SentPackets ==
    ASSUME NEW e, NEW s, NEW c
    PROVE  \A p \in SendChunk(e, s, c) : p.to = Peer(e) /\ p.chunk = c
BY DEF SendChunk

LEMMA Minimum ==
    ASSUME NEW a \in Nat, NEW b \in Nat
    PROVE  Min(a, b) \in Nat /\ Min(Min(a, b), b) = Min(a, b) /\ Min(a, Min(a, b)) = Min(a, b)
           /\ Min(Min(a, b), Min(a, b)) = Min(a, b)
BY DEF Min

\* The fields HandshakeInv reads.
HandshakeFields == {"associationState", "timer1Chunk", "inboundCount", "outboundCount", "started"}

\* A step that adds only packets the invariant says nothing of, and leaves the
\* fields it reads alone.
LEMMA HandshakeFrame ==
    ASSUME HandshakeInv,
           \A d \in Endpoint, f \in HandshakeFields : ep'[d][f] = ep[d][f],
           ep["server"].isClosed => ep'["server"].isClosed,
           \A d \in Endpoint, k \in {"init", "echo", "cookieAck"} : pending'[d][k] = pending[d][k],
           \A p \in net' : p \in net \/ p.chunk.type \notin {"INIT", "INIT-ACK", "COOKIE-ACK"}
    PROVE  HandshakeInv'
<1>1. ServerLearned => ServerLearned'
  BY DEF ServerLearned, Endpoint, HandshakeFields
<1>2. ServerReady => ServerReady'
  BY DEF ServerReady, Endpoint, HandshakeFields
<1>3. ClientLearned => ClientLearned'
  BY DEF ClientLearned, Endpoint, HandshakeFields
<1>4. ClientInv'
  BY <1>1, <1>2, <1>3 DEF HandshakeInv, ClientInv, Endpoint, HandshakeFields
<1>5. ServerInv'
  BY DEF HandshakeInv, ServerInv, Endpoint, HandshakeFields
<1>6. \A p \in net' : PacketInv(p)'
  BY <1>1, <1>2 DEF HandshakeInv, PacketInv
<1> QED
  BY <1>4, <1>5, <1>6 DEF HandshakeInv

\* A step that closes one endpoint.
LEMMA HandshakeClose ==
    ASSUME TypeOK, HandshakeInv,
           NEW e \in Endpoint, NEW s \in EndpointState,
           \A f \in HandshakeFields : s[f] = ep[e][f],
           ep' = [ep EXCEPT ![e] = SetState(s, "CLOSED")],
           \A d \in Endpoint, k \in {"init", "echo", "cookieAck"} : pending'[d][k] = pending[d][k],
           net' \subseteq net
    PROVE  HandshakeInv'
<1>1. \A d \in Endpoint : d # e => ep'[d] = ep[d]
  BY DEF TypeOK
<1>2. ep'[e] = SetState(s, "CLOSED")
  BY DEF TypeOK
<1>3. /\ ep'[e].associationState = "CLOSED" /\ ep'[e].isClosed
      /\ ep'[e].timer1Chunk \in {ep[e].timer1Chunk, NoChunk}
      /\ \A f \in {"inboundCount", "outboundCount", "started"} : ep'[e][f] = ep[e][f]
  BY <1>2, ClosedFields DEF HandshakeFields
<1>4. ServerLearned => ServerLearned'
  BY <1>1, <1>3 DEF ServerLearned, Endpoint
<1>5. ServerReady => ServerReady'
  BY <1>1, <1>3 DEF ServerReady, Endpoint
<1>6. ClientLearned => ClientLearned'
  BY <1>1, <1>3 DEF ClientLearned, Endpoint
<1>7. ClientInv'
  BY <1>1, <1>3, <1>4, <1>5, <1>6 DEF HandshakeInv, ClientInv, Endpoint
<1>8. ServerInv'
  BY <1>1, <1>3 DEF HandshakeInv, ServerInv, Endpoint
<1>9. \A p \in net' : PacketInv(p)'
  BY <1>4, <1>5 DEF HandshakeInv, PacketInv
<1> QED
  BY <1>7, <1>8, <1>9 DEF HandshakeInv
LEMMA HandshakeStep ==
    ASSUME TypeOK, HandshakeInv, Next
    PROVE  HandshakeInv'
<1>t. /\ \A e \in Endpoint : ep[e] \in EndpointState
      /\ ep \in [Endpoint -> EndpointState]
      /\ pending \in [Endpoint -> [Continuation -> Nat]]
      /\ \A p \in net : p.to \in Endpoint /\ p.chunk \in Chunk
  BY DEF TypeOK, Packet
<1>e. Endpoint = {"client", "server"} /\ Peer("client") = "server" /\ Peer("server") = "client"
  BY DEF Endpoint, Peer
<1>k. {"init", "echo", "cookieAck", "stop", "timer1", "heartbeat"} \subseteq Continuation
  BY DEF Continuation
<1>q. \A e \in Endpoint, j \in {"stop", "timer1", "heartbeat"} :
        Park(e, j) \/ Resume(e, j) \/ pending' = pending =>
          \A d \in Endpoint, k \in {"init", "echo", "cookieAck"} : pending'[d][k] = pending[d][k]
  BY <1>t, <1>k, PendingCounts
<1>c. PlainChunk("COOKIE-ECHO") \in Chunk /\ ClientInit \in Chunk
  BY <1>e, ChunkTypes, StreamsAssumption DEF ChunkType, ClientInit
<1>n. \A e, s, t : t \notin {"INIT", "INIT-ACK", "COOKIE-ACK"} =>
        \A p \in SendChunk(e, s, PlainChunk(t)) : p.chunk.type \notin {"INIT", "INIT-ACK", "COOKIE-ACK"}
  BY SentPackets DEF PlainChunk
<1>i. ClientInv /\ ServerInv /\ \A p \in net : PacketInv(p)
  BY DEF HandshakeInv
<1>1. ASSUME NEW e \in Endpoint, SetRemotePort(e)
      PROVE  HandshakeInv'
  <2>1. \A f \in HandshakeFields \cup {"isClosed"}, d \in Endpoint : ep'[d][f] = ep[d][f]
    BY <1>1, <1>t DEF SetRemotePort, EndpointState, HandshakeFields
  <2> QED
    BY <1>1, <1>e, <2>1, HandshakeFrame DEF SetRemotePort
<1>2. ASSUME NEW e \in Endpoint, NEW rejected \in BOOLEAN, Start(e, rejected)
      PROVE  HandshakeInv'
  <2> DEFINE s == [ep[e] EXCEPT !.started = TRUE, !.state = "connecting", !.remotePort = TRUE]
             init == InitChunk("INIT", e, s.outboundCount, InboundStreams[e])
  <2>0. ep[e] \in EndpointState
    BY <1>t
  <2>1. /\ s.started
        /\ \A f \in {"associationState", "timer1Chunk", "inboundCount", "outboundCount", "isClosed"} :
             s[f] = ep[e][f]
    BY <2>0 DEF EndpointState
  <2>2. ep' = [ep EXCEPT ![e] = s] /\ ~ep[e].started
    BY <1>2 DEF Start
  <2>3. \/ e = "client" /\ net' = net \cup SendChunk(e, s, init) /\ Park(e, "init")
        \/ net' = net /\ pending' = pending
    BY <1>2, <1>e DEF Start
  <2>4. e = "client" => init = ClientInit
    BY <1>i, <2>1, <2>2 DEF ClientInv, ClientInit
  <2> HIDE DEF s, init
  <2>5. \A p \in net' : p \in net \/ (p.to = "server" /\ p.chunk = ClientInit)
    BY <1>e, <2>3, <2>4, SentPackets
  <2>6. ep'[e] = s /\ \A d \in Endpoint : d # e => ep'[d] = ep[d]
    BY <1>t, <2>2
  <2>7. \A d \in Endpoint : pending'[d]["echo"] = pending[d]["echo"] /\ pending'[d]["cookieAck"] = pending[d]["cookieAck"]
    BY <1>t, <1>k, <2>3, PendingCounts
  <2>8. e = "server" => pending' = pending
    BY <1>e, <2>3
  <2>9. (ServerLearned => ServerLearned') /\ (ServerReady => ServerReady') /\ (ClientLearned => ClientLearned')
    BY <1>e, <2>1, <2>6, <2>7 DEF ServerLearned, ServerReady, ClientLearned
  <2>10. ClientInv'
    BY <1>e, <1>i, <2>1, <2>6, <2>7, <2>8, <2>9 DEF ClientInv
  <2>11. ServerInv'
    BY <1>e, <1>i, <2>1, <2>6, <2>7 DEF ServerInv
  <2>12. ClientInit.type = "INIT"
    BY DEF ClientInit, InitChunk
  <2>13. \A p \in net' : PacketInv(p)'
    BY <1>i, <2>5, <2>9, <2>12 DEF PacketInv
  <2> QED
    BY <2>10, <2>11, <2>13 DEF HandshakeInv
<1>3. ASSUME NEW e \in Endpoint, Stop(e)
      PROVE  HandshakeInv'
  <2> DEFINE s == [ep[e] EXCEPT !.isStopping = TRUE, !.onData = FALSE]
  <2>0. ep[e] \in EndpointState
    BY <1>t
  <2>1. s \in EndpointState
    BY <2>0 DEF EndpointState
  <2>2. \A f \in HandshakeFields \cup {"isClosed"} : s[f] = ep[e][f]
    BY <2>0, <2>1 DEF EndpointState, HandshakeFields
  <2>3. Park(e, "stop") \/ pending' = pending
    BY <1>3 DEF Stop
  <2>4. \/ ep' = [ep EXCEPT ![e] = SetState(ep[e], "CLOSED")] /\ net' = net
        \/ ep' = [ep EXCEPT ![e] = SetState(s, "CLOSED")] /\ net' = net
        \/ ep' = [ep EXCEPT ![e] = s] /\ net' = net \cup SendChunk(e, s, PlainChunk("ABORT"))
    BY <1>3 DEF Stop
  <2>5. \A d \in Endpoint, k \in {"init", "echo", "cookieAck"} : pending'[d][k] = pending[d][k]
    BY <1>q, <2>3
  <2> HIDE DEF s
  <2>a. \A f \in HandshakeFields : s[f] = ep[e][f]
    BY <2>2
  <2>6. CASE ep' = [ep EXCEPT ![e] = SetState(ep[e], "CLOSED")] /\ net' = net
    <3>1. net' \subseteq net
      BY <2>6
    <3> QED
      BY <2>0, <2>5, <2>6, <3>1, HandshakeClose, ZenonT(60)
  <2>7. CASE ep' = [ep EXCEPT ![e] = SetState(s, "CLOSED")] /\ net' = net
    <3>1. net' \subseteq net
      BY <2>7
    <3> QED
      BY <2>1, <2>a, <2>5, <2>7, <3>1, HandshakeClose, ZenonT(60)
  <2>8. CASE ep' = [ep EXCEPT ![e] = s] /\ net' = net \cup SendChunk(e, s, PlainChunk("ABORT"))
    <3>1. ep'[e] = s /\ \A d \in Endpoint : d # e => ep'[d] = ep[d]
      BY <1>t, <2>8
    <3>2. \A d \in Endpoint, f \in HandshakeFields \cup {"isClosed"} : ep'[d][f] = ep[d][f]
      BY <2>2, <3>1
    <3> QED
      BY <1>e, <1>n, <2>5, <2>8, <3>2, HandshakeFrame
  <2> QED
    BY <2>4, <2>6, <2>7, <2>8
<1>4. ASSUME NEW e \in Endpoint, TransportClosed(e) \/ StopContinue(e)
      PROVE  HandshakeInv'
  <2>1. pending' = pending \/ Resume(e, "stop")
    BY <1>4 DEF TransportClosed, StopContinue
  <2>2. ep' = [ep EXCEPT ![e] = SetState(ep[e], "CLOSED")] /\ net' = net
    BY <1>4 DEF TransportClosed, StopContinue
  <2> QED
    BY <1>q, <1>t, <2>1, <2>2, HandshakeClose
<1>5. ASSUME NEW e \in Endpoint, Timer1Expired(e)
      PROVE  HandshakeInv'
  <2> DEFINE s == [ep[e] EXCEPT !.timer1Failures = @ + 1]
             u == [s EXCEPT !.timer1 = FALSE]
  <2>e. ep[e] \in EndpointState
    BY <1>t
  <2>0. ep[e].timer1Failures + 1 \in Nat
    BY <2>e DEF EndpointState
  <2>1. s \in EndpointState
    BY <2>e, <2>0, Zenon DEF EndpointState
  <2>2. \A f \in HandshakeFields \cup {"isClosed"} : s[f] = ep[e][f]
    BY <2>e, <2>1, Zenon DEF EndpointState, HandshakeFields
  <2>3. u \in EndpointState
    BY <2>1 DEF EndpointState
  <2>4. ep' = [ep EXCEPT ![e] = SetState(u, "CLOSED")] \/ ep' = [ep EXCEPT ![e] = s]
    BY <1>5 DEF Timer1Expired
  <2>5. (Park(e, "timer1") \/ pending' = pending) /\ net' = net
    BY <1>5 DEF Timer1Expired
  <2>6. \A d \in Endpoint, k \in {"init", "echo", "cookieAck"} : pending'[d][k] = pending[d][k]
    BY <1>q, <2>5
  <2> HIDE DEF s
  <2>7. \A f \in HandshakeFields : u[f] = ep[e][f]
    BY <2>1, <2>2, Zenon DEF EndpointState, HandshakeFields
  <2> HIDE DEF u
  <2>8. CASE ep' = [ep EXCEPT ![e] = SetState(u, "CLOSED")]
    BY <2>3, <2>5, <2>6, <2>7, <2>8, HandshakeClose, ZenonT(60)
  <2>9. CASE ep' = [ep EXCEPT ![e] = s]
    <3>1. ep'[e] = s /\ \A d \in Endpoint : d # e => ep'[d] = ep[d]
      BY <1>t, <2>9
    <3>2. \A d \in Endpoint, f \in HandshakeFields \cup {"isClosed"} : ep'[d][f] = ep[d][f]
      BY <2>2, <3>1
    <3> QED
      BY <1>e, <2>5, <2>6, <3>2, HandshakeFrame
  <2> QED
    BY <2>4, <2>8, <2>9
<1>6. ASSUME NEW e \in Endpoint, HeartbeatExpired(e) \/ HeartbeatContinue(e)
      PROVE  HandshakeInv'
  <2>0. ep[e] \in EndpointState
    BY <1>t
  <2>a. /\ \A d \in Endpoint : d # e => ep'[d] = ep[d]
        /\ ep'[e] \in {[ep[e] EXCEPT !.heartbeat = FALSE], HeartbeatStart(ep[e])}
    BY <1>6, <1>t DEF HeartbeatExpired, HeartbeatContinue
  <2>b. \A f \in HandshakeFields \cup {"isClosed"} : ep'[e][f] = ep[e][f]
    BY <2>0, <2>a DEF HeartbeatStart, EndpointState, HandshakeFields
  <2>1. \A d \in Endpoint, f \in HandshakeFields \cup {"isClosed"} : ep'[d][f] = ep[d][f]
    BY <2>a, <2>b
  <2>2. net' = net /\ (Park(e, "heartbeat") \/ Resume(e, "heartbeat") \/ pending' = pending)
    BY <1>6 DEF HeartbeatExpired, HeartbeatContinue
  <2> QED
    BY <1>e, <1>q, <2>1, <2>2, HandshakeFrame
<1>7. ASSUME NEW e \in Endpoint, Timer1Retransmit(e)
      PROVE  HandshakeInv'
  <2>1. \A d \in Endpoint, k \in {"init", "echo", "cookieAck"} : pending'[d][k] = pending[d][k]
    BY <1>7, <1>q DEF Timer1Retransmit
  <2>2. ep' = ep
    BY <1>7 DEF Timer1Retransmit
  <2>3. net' = net \/ (ep[e].timer1Chunk # NoChunk /\ net' = net \cup SendChunk(e, ep[e], ep[e].timer1Chunk))
    BY <1>7 DEF Timer1Retransmit
  <2>4. CASE net' = net
    BY <2>1, <2>2, <2>4, HandshakeFrame
  <2>5. CASE ep[e].timer1Chunk # NoChunk /\ net' = net \cup SendChunk(e, ep[e], ep[e].timer1Chunk)
    <3>1. e = "client" /\ ep[e].timer1Chunk \in {ClientInit, PlainChunk("COOKIE-ECHO")}
      BY <1>e, <1>i, <2>5 DEF ClientInv, ServerInv
    <3>2. \A p \in net' : p \in net \/ (p.to = "server" /\ p.chunk \in {ClientInit, PlainChunk("COOKIE-ECHO")})
      BY <1>e, <2>5, <3>1, SentPackets
    <3>3. ClientInit.type = "INIT" /\ PlainChunk("COOKIE-ECHO").type = "COOKIE-ECHO"
      BY DEF ClientInit, InitChunk, PlainChunk
    <3>4. ServerLearned' = ServerLearned /\ ServerReady' = ServerReady /\ ClientLearned' = ClientLearned
      BY <1>e, <2>1, <2>2 DEF ServerLearned, ServerReady, ClientLearned
    <3>5. ClientInv' /\ ServerInv'
      BY <1>e, <1>i, <2>1, <2>2, <3>4 DEF ClientInv, ServerInv
    <3>6. \A p \in net' : PacketInv(p)'
      BY <1>i, <3>2, <3>3, <3>4 DEF PacketInv
    <3> QED
      BY <3>5, <3>6 DEF HandshakeInv
  <2> QED
    BY <2>3, <2>4, <2>5
<1>8. ASSUME NEW c \in {ClientInit, PlainChunk("COOKIE-ECHO")},
             NEW st \in {"COOKIE_WAIT", "COOKIE_ECHOED"}, NEW k \in {"init", "echo"},
             Resume("client", k), net' = net,
             st = "COOKIE_WAIT" => k = "init",
             st = "COOKIE_ECHOED" => k = "echo",
             ep' = [ep EXCEPT !["client"] = ArmTimer1(ep["client"], c, st)]
      PROVE  HandshakeInv'
  <2>1. /\ ep'["client"].timer1Chunk \in {ep["client"].timer1Chunk, c}
        /\ ep'["client"].associationState \in {ep["client"].associationState, st}
        /\ \A f \in {"inboundCount", "outboundCount", "started"} : ep'["client"][f] = ep["client"][f]
    BY <1>8, <1>c, <1>e, <1>t, ArmTimer1Fields
  <2>2. ep'["server"] = ep["server"]
    BY <1>8, <1>e, <1>t
  <2>3. /\ \A d \in Endpoint : pending'[d]["cookieAck"] = pending[d]["cookieAck"]
        /\ pending["client"][k] > 0
        /\ pending'["server"] = pending["server"]
        /\ \A j \in Continuation : j # k => pending'["client"][j] = pending["client"][j]
    BY <1>8, <1>e, <1>k, <1>t, PendingCounts DEF Resume
  <2>4. pending'["client"]["echo"] > 0 => pending["client"]["echo"] > 0
    BY <1>k, <2>3
  <2>5. ep["client"].started
    <3>1. CASE k = "init"
      BY <1>i, <2>3, <3>1 DEF ClientInv
    <3>2. CASE k = "echo"
      BY <1>i, <2>3, <3>2 DEF ClientInv
    <3> QED
      BY <3>1, <3>2
  <2>6. ServerLearned' = ServerLearned /\ ServerReady' = ServerReady /\ ClientLearned' = ClientLearned
    BY <1>e, <2>1, <2>2, <2>3 DEF ServerLearned, ServerReady, ClientLearned
  <2>7. ClientInv'
    BY <1>i, <1>8, <2>1, <2>3, <2>4, <2>5, <2>6 DEF ClientInv
  <2>8. ServerInv'
    BY <1>i, <2>2, <2>3 DEF ServerInv
  <2>9. \A p \in net' : PacketInv(p)'
    BY <1>i, <1>8, <2>6 DEF PacketInv
  <2> QED
    BY <2>7, <2>8, <2>9 DEF HandshakeInv
<1>9. ASSUME NEW e \in Endpoint, EchoContinue(e) \/ StartContinue
      PROVE  HandshakeInv'
  <2>1. CASE StartContinue
    BY <1>8, <2>1 DEF StartContinue, ClientInit
  <2>2. CASE EchoContinue(e)
    <3>1. e = "client"
      BY <1>e, <1>i, <2>2 DEF EchoContinue, Resume, ServerInv
    <3> QED
      BY <1>8, <2>2, <3>1 DEF EchoContinue
  <2> QED
    BY <1>9, <2>1, <2>2
<1>10. ASSUME CookieAckContinue
       PROVE  HandshakeInv'
  <2>1. /\ ep'["server"] = SetState(ep["server"], "ESTABLISHED")
        /\ ep'["client"] = ep["client"]
        /\ net' = net
    BY <1>10, <1>e, <1>t DEF CookieAckContinue
  <2>2. /\ ep'["server"].associationState = "ESTABLISHED"
        /\ \A f \in {"inboundCount", "outboundCount", "timer1Chunk"} : ep'["server"][f] = ep["server"][f]
    BY <1>e, <1>t, <2>1, EstablishedFields
  <2>3. \A d \in Endpoint, k \in {"init", "echo"} : pending'[d][k] = pending[d][k]
    BY <1>10, <1>e, <1>k, <1>t, PendingCounts DEF CookieAckContinue
  <2>4. ServerLearned' = ServerLearned /\ ServerReady' /\ ClientLearned' = ClientLearned
    BY <2>1, <2>2 DEF ServerLearned, ServerReady, ClientLearned
  <2>5. ClientInv' /\ ServerInv'
    BY <1>e, <1>i, <2>1, <2>2, <2>3, <2>4 DEF ClientInv, ServerInv
  <2>6. \A p \in net' : PacketInv(p)'
    BY <1>i, <2>1, <2>4 DEF PacketInv
  <2> QED
    BY <2>5, <2>6 DEF HandshakeInv
<1>11. ASSUME NEW p \in net, NEW again \in BOOLEAN, ReceiveInit(p, again)
       PROVE  HandshakeInv'
  <2> DEFINE s == LearnPeer("server", ep["server"], p.chunk)
             ack == InitChunk("INIT-ACK", "server", s.outboundCount, s.inboundCount)
  <2>1. p.chunk = ClientInit /\ p.chunk \in Chunk
    BY <1>11, <1>i, <1>t DEF ReceiveInit, Take, PacketInv
  <2>2. p.chunk.outboundStreams = OutboundStreams["client"] /\ p.chunk.inboundStreams = InboundStreams["client"]
    BY <2>1 DEF ClientInit, InitChunk
  <2>3. /\ s.inboundCount = Min(p.chunk.outboundStreams, InboundStreams["server"])
        /\ s.outboundCount = Min(ep["server"].outboundCount, p.chunk.inboundStreams)
        /\ \A f \in {"associationState", "isClosed", "timer1Chunk"} : s[f] = ep["server"][f]
    BY <1>e, <1>t, <2>1, LearnPeerFields
  <2>4. s.inboundCount = ToServer
    BY <2>2, <2>3 DEF ToServer
  <2>a. OutboundStreams["server"] \in Nat /\ InboundStreams["client"] \in Nat
    BY <1>e, StreamsAssumption
  <2>b. Min(ToClient, InboundStreams["client"]) = ToClient
    BY <2>a, Minimum DEF ToClient
  <2>c. s.outboundCount = Min(ep["server"].outboundCount, InboundStreams["client"])
    BY <2>2, <2>3
  <2>5. s.outboundCount = ToClient
    <3>1. CASE ep["server"].outboundCount = OutboundStreams["server"]
      BY <2>c, <3>1 DEF ToClient
    <3>2. CASE ep["server"].outboundCount = ToClient
      BY <2>b, <2>c, <3>2
    <3> QED
      BY <1>i, <3>1, <3>2 DEF ServerInv
  <2>6. /\ ep' = [ep EXCEPT !["server"] = s] /\ pending' = pending
        /\ net' = Remaining(p, again) \cup SendChunk("server", s, ack)
    BY <1>11 DEF ReceiveInit
  <2>7. \A r \in SendChunk("server", s, ack) : r.to = "client" /\ r.chunk = ack
    BY <1>e, SentPackets
  <2>8. ack.type = "INIT-ACK" /\ ack.outboundStreams = ToClient /\ ack.inboundStreams = ToServer
    BY <2>4, <2>5 DEF InitChunk
  <2> HIDE DEF s, ack
  <2>9. ep'["server"] = s /\ ep'["client"] = ep["client"]
    BY <1>e, <1>t, <2>6
  <2>10. ServerLearned' /\ ServerReady' = ServerReady /\ ClientLearned' = ClientLearned
    BY <2>3, <2>4, <2>5, <2>6, <2>9 DEF ServerLearned, ServerReady, ClientLearned
  <2>11. ClientInv'
    BY <1>i, <2>6, <2>9, <2>10 DEF ClientInv
  <2>12. ServerInv'
    BY <1>i, <2>3, <2>5, <2>6, <2>9 DEF ServerInv
  <2>13. \A r \in net' : r \in net \/ (r.to = "client" /\ r.chunk = ack)
    BY <2>6, <2>7 DEF Remaining
  <2>14. \A r \in net' : PacketInv(r)'
    BY <1>i, <2>8, <2>10, <2>13 DEF PacketInv
  <2> QED
    BY <2>11, <2>12, <2>14 DEF HandshakeInv
<1>12. ASSUME NEW p \in net, NEW again \in BOOLEAN, ReceiveInitAck(p, again)
       PROVE  HandshakeInv'
  <2> DEFINE u == Timer1Cancel(ep["client"])
             s == LearnPeer("client", u, p.chunk)
  <2>1. /\ p.to = "client" /\ ServerLearned
        /\ p.chunk.outboundStreams = ToClient /\ p.chunk.inboundStreams = ToServer
    BY <1>12, <1>i DEF ReceiveInitAck, Take, PacketInv
  <2>2. p.chunk \in Chunk /\ ep["client"] \in EndpointState
    BY <1>e, <1>t
  <2>3. /\ u \in EndpointState
        /\ u.timer1Chunk \in {ep["client"].timer1Chunk, NoChunk}
        /\ \A f \in {"associationState", "started", "outboundCount"} : u[f] = ep["client"][f]
    BY <2>2, Timer1Types, Timer1CancelFields
  <2>4. /\ ep' = [ep EXCEPT !["client"] = s] /\ Park("client", "echo")
        /\ net' = Remaining(p, again) \cup SendChunk("client", s, PlainChunk("COOKIE-ECHO"))
    BY <1>12, <2>1 DEF ReceiveInitAck
  <2> HIDE DEF u
  <2>5. /\ s.inboundCount = Min(ToClient, InboundStreams["client"])
        /\ s.outboundCount = Min(ep["client"].outboundCount, ToServer)
        /\ s.timer1Chunk \in {ep["client"].timer1Chunk, NoChunk}
        /\ \A f \in {"associationState", "started"} : s[f] = ep["client"][f]
    BY <1>e, <2>1, <2>2, <2>3, LearnPeerFields
  <2> HIDE DEF s
  <2>c. OutboundStreams["server"] \in Nat /\ InboundStreams["client"] \in Nat
    BY <1>e, StreamsAssumption
  <2>6. s.inboundCount = ToClient
    BY <2>5, <2>c, Minimum DEF ToClient
  <2>a. OutboundStreams["client"] \in Nat /\ InboundStreams["server"] \in Nat
    BY <1>e, StreamsAssumption
  <2>b. Min(OutboundStreams["client"], ToServer) = ToServer /\ Min(ToServer, ToServer) = ToServer
    BY <2>a, Minimum DEF ToServer
  <2>7. s.outboundCount = ToServer
    BY <1>i, <2>5, <2>b DEF ClientInv
  <2>8. ep'["client"] = s /\ ep'["server"] = ep["server"]
    BY <1>e, <1>t, <2>4
  <2>9. /\ pending'["client"]["init"] = pending["client"]["init"]
        /\ \A k \in {"echo", "cookieAck"} : pending'["server"][k] = pending["server"][k]
    BY <1>e, <1>k, <1>t, <2>4, PendingCounts
  <2>10. ServerLearned' /\ ServerReady' = ServerReady /\ ClientLearned'
    BY <2>1, <2>6, <2>7, <2>8, <2>9 DEF ServerLearned, ServerReady, ClientLearned
  <2>11. ep["client"].associationState = "COOKIE_WAIT"
    BY <1>12, <2>1 DEF ReceiveInitAck
  <2>12. ClientInv'
    BY <1>i, <2>5, <2>7, <2>8, <2>9, <2>10, <2>11 DEF ClientInv
  <2>13. ServerInv'
    BY <1>i, <2>8, <2>9 DEF ServerInv
  <2>14. \A r \in net' : r \in net \/ r.chunk.type \notin {"INIT", "INIT-ACK", "COOKIE-ACK"}
    BY <1>n, <2>4 DEF Remaining
  <2>15. \A r \in net' : PacketInv(r)'
    BY <1>i, <2>10, <2>14 DEF PacketInv
  <2> QED
    BY <2>12, <2>13, <2>15 DEF HandshakeInv
<1>13. ASSUME NEW p \in net, NEW again \in BOOLEAN, ReceiveCookieEcho(p, again)
       PROVE  HandshakeInv'
  <2>1. /\ ep' = ep /\ Park("server", "cookieAck")
        /\ net' = Remaining(p, again) \cup SendChunk("server", ep["server"], PlainChunk("COOKIE-ACK"))
    BY <1>13 DEF ReceiveCookieEcho
  <2>2. /\ pending'["server"]["cookieAck"] > 0
        /\ \A d \in Endpoint, k \in {"init", "echo"} : pending'[d][k] = pending[d][k]
    BY <1>e, <1>k, <1>t, <2>1, PendingCounts
  <2>3. ServerLearned' = ServerLearned /\ ServerReady' /\ ClientLearned' = ClientLearned
    BY <2>1, <2>2 DEF ServerLearned, ServerReady, ClientLearned
  <2>4. ClientInv' /\ ServerInv'
    BY <1>e, <1>i, <2>1, <2>2, <2>3 DEF ClientInv, ServerInv
  <2>5. \A r \in net' : r \in net \/ r.chunk.type = "COOKIE-ACK"
    BY <2>1, SentPackets DEF Remaining, PlainChunk
  <2>6. \A r \in net' : PacketInv(r)'
    BY <1>i, <2>3, <2>5 DEF PacketInv
  <2> QED
    BY <2>4, <2>6 DEF HandshakeInv
<1>14. ASSUME NEW p \in net, NEW again \in BOOLEAN, ReceiveStaleCookieEcho(p, again)
       PROVE  HandshakeInv'
  <2>1. \A r \in net' : r \in net \/ r.chunk.type \notin {"INIT", "INIT-ACK", "COOKIE-ACK"}
    BY <1>14, <1>n DEF ReceiveStaleCookieEcho, Remaining
  <2> QED
    BY <1>14, <2>1, HandshakeFrame DEF ReceiveStaleCookieEcho
<1>15. ASSUME NEW p \in net, NEW again \in BOOLEAN, ReceiveCookieAck(p, again)
       PROVE  HandshakeInv'
  <2> DEFINE u == Timer1Cancel(ep["client"])
  <2>1. ServerReady /\ ep[p.to].associationState = "COOKIE_ECHOED"
    BY <1>15, <1>i DEF ReceiveCookieAck, Take, PacketInv
  <2>2. p.to = "client"
    BY <1>e, <1>i, <1>t, <2>1 DEF ServerInv
  <2>3. ClientLearned /\ ServerLearned /\ ep["client"].started
    BY <1>i, <2>1, <2>2 DEF ClientInv
  <2>4. /\ u \in EndpointState
        /\ u.timer1Chunk \in {ep["client"].timer1Chunk, NoChunk}
        /\ \A f \in {"started", "inboundCount", "outboundCount"} : u[f] = ep["client"][f]
    BY <1>e, <1>t, Timer1Types, Timer1CancelFields
  <2>5. /\ ep' = [ep EXCEPT !["client"] = SetState(u, "ESTABLISHED")]
        /\ net' \subseteq net /\ pending' = pending
    BY <1>15, <2>2 DEF ReceiveCookieAck, Remaining
  <2> HIDE DEF u
  <2>6. /\ ep'["client"].timer1Chunk \in {ep["client"].timer1Chunk, NoChunk}
        /\ \A f \in {"started", "inboundCount", "outboundCount"} : ep'["client"][f] = ep["client"][f]
        /\ ep'["server"] = ep["server"]
    BY <1>e, <1>t, <2>4, <2>5, EstablishedFields
  <2>7. ServerLearned' /\ ServerReady' /\ ClientLearned'
    BY <2>1, <2>3, <2>5, <2>6 DEF ServerLearned, ServerReady, ClientLearned
  <2>8. ClientInv'
    BY <1>i, <2>3, <2>5, <2>6, <2>7 DEF ClientInv
  <2>9. ServerInv'
    BY <1>i, <2>5, <2>6 DEF ServerInv
  <2>10. \A r \in net' : PacketInv(r)'
    BY <1>i, <2>5, <2>7 DEF PacketInv
  <2> QED
    BY <2>8, <2>9, <2>10 DEF HandshakeInv
<1>16. ASSUME NEW p \in net, NEW again \in BOOLEAN, ReceiveAbort(p, again)
       PROVE  HandshakeInv'
  <2>1. ep' = [ep EXCEPT ![p.to] = SetState(ep[p.to], "CLOSED")] /\ net' \subseteq net /\ pending' = pending
    BY <1>16 DEF ReceiveAbort, Remaining
  <2> QED
    BY <1>t, <2>1, HandshakeClose
<1>17. ASSUME NEW p \in net, ReceiveIgnored(p) \/ Lose(p)
       PROVE  HandshakeInv'
  BY <1>17, HandshakeFrame DEF ReceiveIgnored, Lose
<1> QED
  BY <1>1, <1>2, <1>3, <1>4, <1>5, <1>6, <1>7, <1>9, <1>10, <1>11, <1>12, <1>13,
     <1>14, <1>15, <1>16, <1>17, <1>e
  DEF Next, User, Continue, Receive

\* HandshakeInv holds in every reachable state.
LEMMA HandshakeInvariant == Spec => []HandshakeInv
<1>1. Init => HandshakeInv
  BY DEF Init, NewEndpoint, HandshakeInv, ClientInv, ServerInv, Endpoint, Continuation
<1>2. TypeOK /\ HandshakeInv /\ [Next]_vars => HandshakeInv'
  <2>1. CASE UNCHANGED vars
    BY <2>1 DEF vars, HandshakeInv, ClientInv, ServerInv, PacketInv, ClientLearned, ServerLearned, ServerReady
  <2> QED
    BY <2>1, HandshakeStep
<1> QED
  BY <1>1, <1>2, TypeCorrect, PTL DEF Spec

\* Whatever the network loses, repeats or reorders, and whatever handlers
\* interleave, a client past INIT-ACK and its server hold the same numbers of
\* streams, each at most what its receiver offered.
THEOREM StreamsAgree == Spec => []StreamAgreement
<1>1. HandshakeInv => StreamAgreement
  BY DEF HandshakeInv, ClientInv, ClientLearned, ServerLearned, StreamAgreement
<1> QED
  BY <1>1, HandshakeInvariant, PTL

\* A client is connected only to a server that is connected, is about to be, or
\* has closed.
THEOREM ClientNeverHalfOpen == Spec => []NoHalfOpenClient
<1>1. HandshakeInv => NoHalfOpenClient
  BY DEF HandshakeInv, ClientInv, ServerReady, NoHalfOpenClient
<1> QED
  BY <1>1, HandshakeInvariant, PTL
-----------------------------------------------------------------------------
(* A closed client never connects.                                          *)

\* A closed client does not report "connected".
ClosedInv == ep["client"].isClosed => ep["client"].state # "connected"

\* Only entering ESTABLISHED takes back that an endpoint has closed.
LEMMA StateAfter ==
    ASSUME NEW s \in EndpointState
    PROVE  /\ ~SetState(s, "ESTABLISHED").isClosed
           /\ SetState(s, "CLOSED").state = "closed" /\ SetState(s, "CLOSED").isClosed
<1>1. ~SetState(s, "ESTABLISHED").isClosed
  BY DEF EndpointState, SetState, Established, HeartbeatStart
<1> QED
  BY <1>1, ClosedFields

\* What a step does to an endpoint: its state and isClosed stay, it closes, it
\* starts for the first time, it was neither stopping nor closed before, or it is
\* the server.
LEMMA StateStep ==
    ASSUME TypeOK, Next, NEW e \in Endpoint
    PROVE  \/ ep'[e].state = ep[e].state /\ ep'[e].isClosed = ep[e].isClosed
           \/ ep'[e].state = "closed" /\ ep'[e].isClosed
           \/ /\ ~ep[e].started
              /\ ep'[e].state = "connecting" /\ ep'[e].isClosed = ep[e].isClosed
           \/ ~ep'[e].isClosed /\ (IsStopped(ep[e]) => e = "server")
<1> DEFINE Goal == \/ ep'[e].state = ep[e].state /\ ep'[e].isClosed = ep[e].isClosed
                   \/ ep'[e].state = "closed" /\ ep'[e].isClosed
                   \/ /\ ~ep[e].started
                      /\ ep'[e].state = "connecting" /\ ep'[e].isClosed = ep[e].isClosed
                   \/ ~ep'[e].isClosed /\ (IsStopped(ep[e]) => e = "server")
<1>t. /\ ep \in [Endpoint -> EndpointState]
      /\ \A d \in Endpoint : ep[d] \in EndpointState
      /\ \A p \in net : p.to \in Endpoint /\ p.chunk \in Chunk
  BY DEF TypeOK, Packet
<1>e. "client" \in Endpoint /\ "server" \in Endpoint
  BY DEF Endpoint
<1>c. ASSUME NEW d \in Endpoint, NEW s \in EndpointState,
             ep' = [ep EXCEPT ![d] = SetState(s, "CLOSED")]
      PROVE  Goal
  BY <1>c, <1>t, StateAfter
<1>k. ASSUME NEW d \in Endpoint, NEW s \in EndpointState, ep' = [ep EXCEPT ![d] = s],
             s.state = ep[d].state, s.isClosed = ep[d].isClosed
      PROVE  Goal
  BY <1>k, <1>t
<1>1. ASSUME NEW d \in Endpoint, SetRemotePort(d) PROVE Goal
  BY <1>1, <1>t DEF SetRemotePort, EndpointState
<1>2. ASSUME NEW d \in Endpoint, NEW rejected \in BOOLEAN, Start(d, rejected) PROVE Goal
  <2>1. /\ ~ep[d].started
        /\ ep' = [ep EXCEPT ![d] = [ep[d] EXCEPT !.started = TRUE, !.state = "connecting",
                                               !.remotePort = TRUE]]
    BY <1>2 DEF Start
  <2> QED
    BY <2>1, <1>t DEF EndpointState
<1>3. ASSUME NEW d \in Endpoint, Stop(d) PROVE Goal
  <2> DEFINE s == [ep[d] EXCEPT !.isStopping = TRUE, !.onData = FALSE]
  <2>0. ep[d] \in EndpointState
    BY <1>t
  <2>1. s \in EndpointState /\ s.state = ep[d].state /\ s.isClosed = ep[d].isClosed
    BY <2>0 DEF EndpointState
  <2>2. \/ ep' = [ep EXCEPT ![d] = SetState(ep[d], "CLOSED")]
        \/ ep' = [ep EXCEPT ![d] = SetState(s, "CLOSED")]
        \/ ep' = [ep EXCEPT ![d] = s]
    BY <1>3 DEF Stop
  <2> HIDE DEF s
  <2> QED
    BY <1>c, <1>k, <1>t, <2>1, <2>2
<1>4. ASSUME NEW d \in Endpoint, StopContinue(d) \/ TransportClosed(d) PROVE Goal
  BY <1>4, <1>c, <1>t DEF StopContinue, TransportClosed
<1>5. ASSUME NEW d \in Endpoint, Timer1Expired(d) PROVE Goal
  <2> DEFINE s == [ep[d] EXCEPT !.timer1Failures = @ + 1]
             u == [s EXCEPT !.timer1 = FALSE]
  <2>0. ep[d] \in EndpointState
    BY <1>t
  <2>1. s \in EndpointState /\ s.state = ep[d].state /\ s.isClosed = ep[d].isClosed
    BY <2>0 DEF EndpointState
  <2>2. u \in EndpointState
    <3> HIDE DEF s
    <3> QED
      BY <2>1 DEF EndpointState
  <2>3. ep' = [ep EXCEPT ![d] = SetState(u, "CLOSED")] \/ ep' = [ep EXCEPT ![d] = s]
    BY <1>5 DEF Timer1Expired
  <2> HIDE DEF s, u
  <2> QED
    BY <1>c, <1>k, <2>1, <2>2, <2>3
<1>6. ASSUME NEW d \in Endpoint, HeartbeatExpired(d) PROVE Goal
  BY <1>6, <1>t DEF HeartbeatExpired, EndpointState
<1>7. ASSUME NEW d \in Endpoint, HeartbeatContinue(d) PROVE Goal
  BY <1>7, <1>t DEF HeartbeatContinue, HeartbeatStart, EndpointState
<1>8. ASSUME NEW d \in Endpoint, NEW c \in Chunk, NEW a \in {"COOKIE_WAIT", "COOKIE_ECHOED"},
             ep' = [ep EXCEPT ![d] = ArmTimer1(ep[d], c, a)]
      PROVE  Goal
  <2>1. ArmTimer1(ep[d], c, a) \in EndpointState
    BY <1>t, ArmTimer1Type DEF AssociationState
  <2>2. /\ ArmTimer1(ep[d], c, a).state = ep[d].state
        /\ ArmTimer1(ep[d], c, a).isClosed = ep[d].isClosed
    BY <1>t, ArmTimer1Fields
  <2> QED
    BY <1>8, <1>k, <2>1, <2>2
<1>9. ASSUME NEW d \in Endpoint, EchoContinue(d) PROVE Goal
  BY <1>8, <1>9, ChunkTypes DEF EchoContinue, ChunkType
<1>10. ASSUME StartContinue PROVE Goal
  BY <1>8, <1>10, <1>e, ChunkTypes, StreamsAssumption DEF StartContinue, ChunkType
<1>11. ASSUME CookieAckContinue PROVE Goal
  BY <1>11, <1>e, <1>t, StateAfter DEF CookieAckContinue
<1>12. ASSUME NEW p \in net, NEW again \in BOOLEAN, ReceiveInit(p, again) PROVE Goal
  <2>1. ep' = [ep EXCEPT !["server"] = LearnPeer("server", ep["server"], p.chunk)]
    BY <1>12 DEF ReceiveInit
  <2>2. ep["server"] \in EndpointState /\ p.chunk \in Chunk
    BY <1>e, <1>t
  <2>3. LearnPeer("server", ep["server"], p.chunk) \in EndpointState
    BY <1>e, <2>2, LearnPeerType
  <2>4. \A f \in {"state", "isClosed"} : LearnPeer("server", ep["server"], p.chunk)[f] = ep["server"][f]
    BY <1>e, <2>2, LearnPeerFields
  <2> QED
    BY <1>e, <1>k, <2>1, <2>3, <2>4
<1>13. ASSUME NEW p \in net, NEW again \in BOOLEAN, ReceiveInitAck(p, again) PROVE Goal
  <2> DEFINE u == Timer1Cancel(ep[p.to])
  <2>1. u \in EndpointState /\ u.state = ep[p.to].state /\ u.isClosed = ep[p.to].isClosed
    BY <1>t, Timer1Types, Timer1CancelFields
  <2>2. ep' = [ep EXCEPT ![p.to] = LearnPeer(p.to, u, p.chunk)]
    BY <1>13 DEF ReceiveInitAck
  <2>3. p.to \in Endpoint /\ p.chunk \in Chunk
    BY <1>t
  <2> HIDE DEF u
  <2>4. LearnPeer(p.to, u, p.chunk) \in EndpointState
    BY <2>1, <2>3, LearnPeerType
  <2>5. \A f \in {"state", "isClosed"} : LearnPeer(p.to, u, p.chunk)[f] = u[f]
    BY <2>1, <2>3, LearnPeerFields
  <2> QED
    BY <1>k, <2>1, <2>2, <2>3, <2>4, <2>5
<1>14. ASSUME NEW p \in net, NEW again \in BOOLEAN, ReceiveCookieAck(p, again) PROVE Goal
  <2>1. /\ ~IsStopped(ep[p.to])
        /\ ep' = [ep EXCEPT ![p.to] = SetState(Timer1Cancel(ep[p.to]), "ESTABLISHED")]
    BY <1>14 DEF ReceiveCookieAck, Take, Accepted
  <2> QED
    BY <1>t, <2>1, StateAfter, Timer1Types
<1>15. ASSUME NEW p \in net, NEW again \in BOOLEAN, ReceiveAbort(p, again) PROVE Goal
  BY <1>15, <1>c, <1>t DEF ReceiveAbort
<1>16. CASE UNCHANGED ep
  BY <1>16
<1> QED
  BY <1>1, <1>2, <1>3, <1>4, <1>5, <1>6, <1>7, <1>9, <1>10, <1>11, <1>12, <1>13, <1>14, <1>15, <1>16
  DEF Next, User, Continue, Receive, ReceiveCookieEcho, ReceiveStaleCookieEcho, Timer1Retransmit,
      ReceiveIgnored, Lose

\* No late packet, timer or parked handler makes a closed client report
\* "connected", nor does a start() behind the close: whatever could asks whether
\* it was stopped or closed.
THEOREM ClosedClientNeverReturns == Spec => ClosedClientNeverConnects
<1> DEFINE Keeps == ep["client"].isClosed =>
                      /\ ep'["client"].isClosed
                      /\ ep'["client"].state # "connected"
                      /\ ep["client"].state = "closed" /\ ep["client"].started
                           => ep'["client"].state = "closed"
<1>1. Init => ClosedInv
  BY DEF Init, NewEndpoint, ClosedInv, Endpoint
<1>2. TypeOK /\ ClosedInv /\ [Next]_vars => ClosedInv' /\ [Keeps]_vars
  <2> SUFFICES ASSUME TypeOK, ClosedInv, Next PROVE ClosedInv' /\ Keeps
    BY DEF ClosedInv, vars
  <2>1. \/ ep'["client"].state = ep["client"].state /\ ep'["client"].isClosed = ep["client"].isClosed
        \/ ep'["client"].state = "closed" /\ ep'["client"].isClosed
        \/ /\ ~ep["client"].started
           /\ ep'["client"].state = "connecting" /\ ep'["client"].isClosed = ep["client"].isClosed
        \/ ~ep'["client"].isClosed /\ ~IsStopped(ep["client"])
    BY StateStep DEF Endpoint
  <2> QED
    BY <2>1 DEF ClosedInv, IsStopped
<1> HIDE DEF Keeps
<1>3. Spec => [][Keeps]_vars
  BY <1>1, <1>2, TypeCorrect, PTL DEF Spec
<1> QED
  BY <1>3 DEF Keeps, ClosedClientNeverConnects
=============================================================================
