--------------------------- MODULE DtlsHandshake ---------------------------
(***************************************************************************)
(* The DTLS 1.2 handshake of packages/dtls between the two transports of   *)
(* packages/webrtc/src/transport/dtls.ts: a client and a server that       *)
(* exchange six flights over datagrams that may be lost, repeated or       *)
(* reordered, with retransmission timers, handlers that wait for an        *)
(* earlier message, and the keys each side derives from its own            *)
(* transcript.                                                             *)
(*                                                                         *)
(* A message is [kind, val]: val tells apart what the properties tell      *)
(* apart (the cookie, which key pair, the key a Finished is sealed with),  *)
(* so a master secret is the tuple of everything that goes into it.        *)
(* Both ends use extended master secrets and the server requests the       *)
(* client's certificate, as RTCDtlsTransport.start asks for.               *)
(***************************************************************************)
EXTENDS Naturals, Sequences, FiniteSets, SequencesExt

CONSTANT
    Scenarios  \* the settings explored, one of them chosen in Init

Kinds == {"ClientHello", "HelloVerifyRequest", "ClientHelloCookie", "ServerHello",
          "ServerCertificate", "ServerKeyExchange", "CertificateRequest",
          "ServerHelloDone", "ClientCertificate", "ClientKeyExchange",
          "CertificateVerify", "ClientFinished", "ServerFinished", "Malformed"}

ASSUME ScenariosAssumption ==
    Scenarios \subseteq
        [RetransmitCount : Nat, prompt : BOOLEAN, lossable : SUBSET Kinds, losses : Nat,
         copies : Nat, overtakes : Nat, wrong : BOOLEAN, stops : BOOLEAN]

VARIABLES
    scenario,  \* [RetransmitCount, prompt, lossable, losses, copies, overtakes, wrong, stops]
    net,       \* net[p]: the datagrams on their way to p
    losses,    \* datagrams lost so far
    copies,    \* datagrams repeated by the network so far
    held,      \* the copies the network still holds, as <<receiver, message>>
    overtakes, \* datagrams that overtook an earlier one so far
    sock       \* the socket and the transport of each end

vars == <<scenario, net, losses, copies, held, overtakes, sock>>

RetransmitCount == scenario.RetransmitCount  \* Flight.RetransmitCount, 10 in the code

Peers == {"client", "server"}
Other(p) == IF p = "client" THEN "server" ELSE "client"

None == <<>>

Msg(kind, val) == [kind |-> kind, val |-> val]

(* A DtlsSocket with its contexts, and the RTCDtlsTransport that owns it.  *)
FreshSocket ==
    [flight |-> 0, connected |-> FALSE, cache |-> {}, cookie |-> None,
     pair |-> 0,            \* generations of the own key pair (and, server, of its random)
     peerPair |-> None,     \* the peer's public key
     peerRandom |-> None,   \* client: which random the server sent
     requested |-> FALSE,   \* client: the server asked for a certificate
     peerCert |-> FALSE, key |-> None, ready |-> FALSE, \* ready: flight5 / flight6 exists
     lastMessage |-> <<>>, waiting |-> <<>>, loops |-> {},
     open |-> TRUE, state |-> "connecting", srtp |-> None, connects |-> 0, failures |-> 0]

Init ==
    /\ scenario \in Scenarios
    /\ net = [p \in Peers |-> <<>>]
    /\ losses = 0 /\ copies = 0 /\ held = {} /\ overtakes = 0
    /\ sock = [p \in Peers |-> [FreshSocket EXCEPT
                  !.state = IF p = "client" THEN "new" ELSE "connecting"]]

-----------------------------------------------------------------------------
(* The transcript keeps one message of each type and flight.               *)
bufferHandshakeCache(cache, m) ==
    IF \E c \in cache : c.kind = m.kind THEN cache ELSE cache \union {m}

(* The same for the messages of a flight, which are of different types.    *)
bufferFlight(cache, messages) ==
    cache \union {m \in messages : \A c \in cache : c.kind # m.kind}

checkHandshakesExist(cache, kinds) == \A k \in kinds : \E c \in cache : c.kind = k

(* Flight.transmit: the first transmission, and the loop that repeats it.  *)
Loop(flight, next, messages) ==
    [flight |-> flight, next |-> next, messages |-> messages, sent |-> 1]

Fail(s) == [s EXCEPT !.state = "failed", !.failures = @ + 1]

(* What a handler leaves behind: its socket and the datagrams it sends.    *)
Send(s, messages) == [socket |-> s, out |-> messages]
Keep(s) == Send(s, <<>>)

(* A step of p that takes the datagrams `rest' off its way to p.           *)
Step(p, rest, result) ==
    /\ sock' = [sock EXCEPT ![p] = result.socket]
    /\ net' = [net EXCEPT ![p] = rest, ![Other(p)] = @ \o result.out]
    /\ UNCHANGED scenario

-----------------------------------------------------------------------------
(* Client.                                                                 *)

(* start() and Flight1.exec.                                               *)
start ==
    /\ sock["client"].state = "new"
    /\ LET hello == <<Msg("ClientHello", None)>>
       IN  Step("client", net["client"], Send([sock["client"] EXCEPT !.state = "connecting", !.flight = 1,
                     !.loops = {Loop(1, 3, hello)}],
                hello))
    /\ UNCHANGED <<losses, copies, held, overtakes>>

(* Flight3.exec: throws on a second HelloVerifyRequest while it waits for  *)
(* flight 4. Later lastFlight no longer is the hello, and what is sent is  *)
(* the own Finished in a record the peer cannot open.                      *)
Flight3(s, m) ==
    IF s.flight = 3 THEN Keep(Fail(s))
    ELSE LET hello == IF s.flight = 1 THEN Msg("ClientHelloCookie", m.val)
                      ELSE Msg("Malformed", None)
         IN  Send([s EXCEPT !.flight = 3, !.cookie = m.val, !.cache = {hello},
                            !.loops = @ \union {Loop(3, 5, <<hello>>)}],
                  <<hello>>)

MasterSecret(clientPair, serverPair, serverRandom, cache) ==
    <<clientPair, serverPair, serverRandom, cache>>

(* Flight5.exec: the keys are derived when ClientKeyExchange is made.      *)
Flight5(s) ==
    IF s.flight = 5 THEN Send(s, s.lastMessage)
    ELSE LET exchange == Msg("ClientKeyExchange", <<s.pair>>)
             cert     == Msg("ClientCertificate", None)
             before   == bufferFlight(s.cache, IF s.requested THEN {cert, exchange} ELSE {exchange})
             key      == MasterSecret(<<s.pair>>, s.peerPair, s.peerRandom, before)
             finished == Msg("ClientFinished", key)
             messages == IF s.requested
                         THEN <<cert, exchange, Msg("CertificateVerify", None), finished>>
                         ELSE <<exchange, finished>>
         IN  Send([s EXCEPT !.flight = 5, !.key = key, !.lastMessage = messages,
                            !.cache = bufferFlight(before, Range(messages)),
                            !.loops = @ \union {Loop(5, 7, messages)}],
                  messages)

(* Flight5.handleHandshake.                                                *)
Flight4Received(s, m) ==
    LET c == [s EXCEPT !.cache = bufferHandshakeCache(@, m)]
    IN  CASE m.kind = "ServerHello"        -> [c EXCEPT !.peerRandom = m.val]
          [] m.kind = "ServerCertificate"  -> [c EXCEPT !.peerCert = TRUE]
          [] m.kind = "ServerKeyExchange"  -> [c EXCEPT !.peerPair = m.val, !.pair = @ + 1]
          [] m.kind = "CertificateRequest" -> [c EXCEPT !.requested = TRUE]
          [] OTHER                         -> c

(* verifyRemoteCertificateFingerprint and startSrtp, behind onConnect.once *)
(* of a start() that has not settled yet.                                  *)
Started(s) ==
    LET c == [s EXCEPT !.connected = TRUE, !.connects = @ + 1]
    IN  IF s.connects > 0 \/ s.failures > 0 THEN c
        ELSE IF ~s.peerCert \/ scenario.wrong THEN Fail([c EXCEPT !.open = FALSE, !.loops = {}])
        ELSE [c EXCEPT !.state = "connected", !.srtp = s.key]

clientHandles(s, m) ==
    CASE m.kind = "HelloVerifyRequest" -> Flight3(s, m)
      [] m.kind = "ServerHello" ->
           IF s.connected THEN Keep(s)
           ELSE Keep(Flight4Received([s EXCEPT !.ready = TRUE], m))
      [] m.kind \in {"ServerCertificate", "ServerKeyExchange", "CertificateRequest"} ->
           IF s.ready THEN Keep(Flight4Received(s, m))
           ELSE Keep([s EXCEPT !.waiting = Append(@, m)])
      [] m.kind = "ServerHelloDone" ->
           LET c == IF s.ready THEN Flight4Received(s, m) ELSE s
           IN  IF s.ready /\ checkHandshakesExist(c.cache, {"ServerCertificate", "ServerKeyExchange"})
               THEN Flight5(c)
               ELSE Keep([c EXCEPT !.waiting = Append(@, m)])
      [] m.kind = "ServerFinished" -> Keep(Started([s EXCEPT !.flight = 7]))
      [] OTHER -> Keep(s)

-----------------------------------------------------------------------------
(* Server.                                                                 *)

(* renegotiation: fresh contexts, the transport and the Flight6 object     *)
(* stay.                                                                   *)
renegotiation(s) ==
    [FreshSocket EXCEPT !.pair = s.pair, !.ready = s.ready, !.waiting = s.waiting,
        !.state = s.state, !.srtp = s.srtp, !.connects = s.connects,
        !.failures = s.failures]

(* flight2: a new random and key pair for every hello without a cookie.    *)
Flight2(s) ==
    LET c == [s EXCEPT !.flight = 2, !.pair = @ + 1,
                       !.cookie = IF @ = None THEN <<s.connects>> ELSE @]
    IN  Send(c, <<Msg("HelloVerifyRequest", c.cookie)>>)

Flight4(s, m) ==
    IF s.flight = 4 THEN Send(s, s.lastMessage)
    ELSE LET messages == <<Msg("ServerHello", <<s.pair>>), Msg("ServerCertificate", None),
                           Msg("ServerKeyExchange", <<s.pair>>),
                           Msg("CertificateRequest", None), Msg("ServerHelloDone", None)>>
         IN  Send([s EXCEPT !.flight = 4, !.lastMessage = messages,
                            !.cache = bufferFlight(@, {m} \union Range(messages)),
                            !.loops = @ \union {Loop(4, 6, messages)}],
                  messages)

(* Flight6.handleHandshake: every ClientKeyExchange derives the keys anew  *)
(* from the transcript as it is when the message arrives.                  *)
Flight5Received(s, m) ==
    LET c == [s EXCEPT !.cache = bufferHandshakeCache(@, m), !.ready = TRUE]
    IN  CASE m.kind = "ClientCertificate" -> [c EXCEPT !.peerCert = TRUE]
          [] m.kind = "ClientKeyExchange" ->
               [c EXCEPT !.peerPair = m.val,
                         !.key = MasterSecret(m.val, <<c.pair>>, <<c.pair>>, c.cache)]
          [] m.kind = "CertificateVerify" -> IF c.peerCert THEN c ELSE Fail(c)
          [] OTHER -> c

(* Mutant: the repeated Finished is not answered.                          *)
Flight6Once(s) ==
    IF s.flight = 6 THEN Keep(s)
    ELSE LET messages == <<Msg("ServerFinished", s.key)>>
         IN  Send(Started([s EXCEPT !.flight = 6, !.lastMessage = messages,
                             !.cache = bufferHandshakeCache(@, messages[1])]),
                  messages)

(* Mutant: the server answers before it takes itself for connected.        *)
Flight6Early(s) ==
    LET messages == <<Msg("ServerFinished", s.key)>>
    IN  IF s.flight = 6 THEN Send(Started(s), <<>>)
        ELSE Send([s EXCEPT !.flight = 6, !.lastMessage = messages], messages)

(* Flight6.exec, then connected: flight 6 is sent once, and again for      *)
(* every repeated Finished.                                                *)
Flight6(s) ==
    LET messages == IF s.flight = 6 THEN s.lastMessage ELSE <<Msg("ServerFinished", s.key)>>
    IN  Send(Started([s EXCEPT !.flight = 6, !.lastMessage = messages,
                        !.cache = IF s.flight = 6 THEN @
                                  ELSE bufferHandshakeCache(@, messages[1])]),
             messages)

(* The certificate of the list is found in the server's own flight 4.      *)
RequiredHandshakes == {"ClientKeyExchange", "ServerCertificate", "CertificateVerify"}

(* Mutant: key exchange messages are handled after the connection too.     *)
serverHandlesAlways(s, m) ==
    LET n == IF s.connected THEN renegotiation(s) ELSE s
    IN  CASE m.kind = "ClientHello" -> Flight2(n)
          [] m.kind = "ClientHelloCookie" ->
               IF n.cookie # None /\ n.cookie = m.val THEN Flight4(n, m) ELSE Keep(n)
          [] m.kind \in {"ClientCertificate", "ClientKeyExchange", "CertificateVerify"} ->
               Keep(Flight5Received(s, m))
          [] m.kind = "ClientFinished" ->
               LET c == Flight5Received(s, m)
               IN  IF checkHandshakesExist(c.cache, RequiredHandshakes) THEN Flight6(c)
                   ELSE Keep([c EXCEPT !.waiting = Append(@, m)])
          [] OTHER -> Keep(s)

serverHandles(s, m) ==
    LET n == IF s.connected THEN renegotiation(s) ELSE s
    IN  CASE m.kind = "ClientHello" -> Flight2(n)
          [] m.kind = "ClientHelloCookie" ->
               IF n.cookie # None /\ n.cookie = m.val THEN Flight4(n, m) ELSE Keep(n)
          [] m.kind \in {"ClientCertificate", "ClientKeyExchange", "CertificateVerify"} ->
               Keep(IF s.connected THEN s ELSE Flight5Received(s, m))
          [] m.kind = "ClientFinished" ->
               LET c == Flight5Received(s, m)
               IN  IF checkHandshakesExist(c.cache, RequiredHandshakes) THEN Flight6(c)
                   ELSE Keep([c EXCEPT !.waiting = Append(@, m)])
          [] OTHER -> Keep(s)

-----------------------------------------------------------------------------
(* The socket.                                                             *)

handleHandshakes(p, s, m) ==
    IF p = "client" THEN clientHandles(s, m) ELSE serverHandles(s, m)

(* Mutant: a sealed record is opened whatever the keys.                    *)
OpensAll(s, m) == m.kind # "Malformed"

(* parsePlainText: a sealed record that the current keys cannot open is    *)
(* dropped.                                                                *)
Opens(s, m) == m.kind # "Malformed" /\ (m.kind \in {"ClientFinished", "ServerFinished"} => s.key = m.val)

Receive(p, rest, m) ==
    LET s == sock[p]
    IN  Step(p, rest,
             IF s.open /\ Opens(s, m) THEN handleHandshakes(p, s, m) ELSE Keep(s))

(* udpOnMessage: one datagram.                                             *)
udpOnMessage(p, i) ==
    /\ i > 1 => overtakes < scenario.overtakes
    /\ overtakes' = IF i > 1 THEN overtakes + 1 ELSE overtakes
    /\ Receive(p, RemoveAt(net[p], i), net[p][i])
    /\ UNCHANGED <<losses, copies, held>>

(* The network repeats a datagram, and delivers the copy at any later time. *)
repeat(p, i) ==
    /\ copies < scenario.copies
    /\ copies' = copies + 1
    /\ held' = held \union {<<p, net[p][i]>>}
    /\ UNCHANGED <<scenario, net, losses, overtakes, sock>>

lateCopy(h) ==
    /\ held' = held \ {h}
    /\ Receive(h[1], net[h[1]], h[2])
    /\ UNCHANGED <<losses, copies, overtakes>>

lose(p, i) ==
    /\ losses < scenario.losses
    /\ net[p][i].kind \in scenario.lossable
    /\ Step(p, RemoveAt(net[p], i), Keep(sock[p]))
    /\ losses' = losses + 1
    /\ UNCHANGED <<copies, held, overtakes>>

(* The handler that waits for message m can go on.                         *)
Resumable(p, m) ==
    \/ p = "client" /\ m.kind # "ServerHelloDone" /\ sock[p].ready
    \/ p = "client" /\ m.kind = "ServerHelloDone" /\ sock[p].ready
       /\ checkHandshakesExist(sock[p].cache, {"ServerCertificate", "ServerKeyExchange"})
    \/ p = "server" /\ checkHandshakesExist(sock[p].cache, RequiredHandshakes)

(* waitForReady, resolved: the handler goes on where it stopped.           *)
waitForReady(p, i) ==
    LET s == [sock[p] EXCEPT !.waiting = RemoveAt(@, i)]
        m == sock[p].waiting[i]
    IN  /\ Resumable(p, m)
        /\ Step(p, net[p], IF p = "server" THEN Flight6(s) ELSE clientHandles(s, m))
        /\ UNCHANGED <<losses, copies, held, overtakes>>

(* Nothing is under way, so what is missing was lost.                      *)
Quiet ==
    /\ \A p \in Peers : net[p] = <<>>
    /\ \A p \in Peers : \A i \in DOMAIN sock[p].waiting : ~Resumable(p, sock[p].waiting[i])

(* waitForReady, rejected after ten polls; with prompt delivery a          *)
(* retransmission comes before.                                            *)
waitForReadyTimeout(p, i) ==
    /\ ~scenario.prompt
    /\ ~Resumable(p, sock[p].waiting[i])
    /\ Step(p, net[p], Keep(Fail([sock[p] EXCEPT !.waiting = RemoveAt(@, i)])))
    /\ UNCHANGED <<losses, copies, held, overtakes>>

(* Flight.transmit, behind its timer.                                      *)
transmit(p, l) ==
    LET s == [sock[p] EXCEPT !.loops = @ \ {l}]
    IN  /\ scenario.prompt => Quiet
        /\ Step(p, net[p],
                IF s.flight >= l.next THEN Keep(s)
                ELSE IF l.sent > RetransmitCount THEN Keep(Fail(s))
                ELSE Send([s EXCEPT !.loops = @ \union {[l EXCEPT !.sent = @ + 1]}], l.messages))
        /\ UNCHANGED <<losses, copies, held, overtakes>>

(* RTCDtlsTransport.stop: ICE delivers nothing any more, the loops abort.  *)
stop(p) ==
    /\ scenario.stops
    /\ sock[p].state \notin {"new", "closed"}
    /\ Step(p, <<>>, Keep([sock[p] EXCEPT !.open = FALSE, !.state = "closed", !.loops = {}]))
    /\ UNCHANGED <<losses, copies, held, overtakes>>

Progress ==
    \/ start
    \/ \E p \in Peers :
          \/ \E i \in DOMAIN net[p] : udpOnMessage(p, i)
          \/ \E i \in DOMAIN sock[p].waiting : waitForReady(p, i)
          \/ \E l \in sock[p].loops : transmit(p, l)

Next ==
    \/ Progress
    \/ \E h \in held : lateCopy(h)
    \/ \E p \in Peers :
          \/ \E i \in DOMAIN net[p] : repeat(p, i) \/ lose(p, i)
          \/ \E i \in DOMAIN sock[p].waiting : waitForReadyTimeout(p, i)
          \/ stop(p)

Spec == Init /\ [][Next]_vars

(* Weak fairness of Progress, with its guard written out: timers fire,     *)
(* sockets are read and promises are resolved.                             *)
Due ==
    \/ sock["client"].state = "new"
    \/ \E p \in Peers :
          \/ net[p] # <<>>
          \/ \E i \in DOMAIN sock[p].waiting : Resumable(p, sock[p].waiting[i])
          \/ sock[p].loops # {} /\ (scenario.prompt => Quiet)

FairSpec == Spec /\ ([]<>~Due \/ []<><<Progress>>_vars)

-----------------------------------------------------------------------------
(* The type invariant.                                                     *)
TypeOK ==
    /\ losses \in 0..scenario.losses /\ copies \in 0..scenario.copies
    /\ overtakes \in 0..scenario.overtakes
    /\ \A p \in Peers :
         /\ sock[p].flight \in (IF p = "client" THEN {0, 1, 3, 5, 7} ELSE {0, 2, 4, 6})
         /\ sock[p].state \in {"new", "connecting", "connected", "failed", "closed"}
         /\ \A l \in sock[p].loops : l.sent \in 1..RetransmitCount + 1
         /\ \A m \in sock[p].cache \union Range(net[p]) \union Range(sock[p].waiting) :
              m.kind \in Kinds

(* The media keys of two connected transports are the same, whatever was   *)
(* lost, repeated, late or out of order: each side exports them from keys  *)
(* it derived alone, from its own transcript.                              *)
SrtpKeysAgree ==
    sock["client"].srtp # None /\ sock["server"].srtp # None
        => sock["client"].srtp = sock["server"].srtp

(* The client reports the connection only after the server accepted its    *)
(* flight 5, with both certificates exchanged (Flight6.exec sends the only *)
(* record that makes the client connect).                                  *)
ClientConnectsLast ==
    sock["client"].connects > 0
        => /\ sock["server"].connects > 0
           /\ sock["client"].peerCert

(* What a lost datagram of may be without harm: the flights are repeated   *)
(* and nothing else waits for it.                                          *)
Recoverable == {"ClientHello", "HelloVerifyRequest", "ClientHelloCookie",
                "ServerHelloDone", "ServerFinished"}

(* A connected transport keeps the keys it connected with. Stated for the  *)
(* losses above: a repeated or overtaken datagram, or a lost one that a    *)
(* handler waits for, makes the client derive keys again behind its        *)
(* connection (client.ts calls Flight5.exec at flight 7), and a late hello *)
(* makes the server drop its session.                                      *)
SessionKept ==
    scenario.copies = 0 /\ scenario.overtakes = 0 /\ scenario.lossable \subseteq Recoverable
        => \A p \in Peers : sock[p].state = "connected" => sock[p].key = sock[p].srtp

Benign ==
    /\ scenario.prompt /\ ~scenario.wrong /\ ~scenario.stops
    /\ scenario.copies = 0 /\ scenario.overtakes = 0 /\ scenario.losses <= RetransmitCount
    /\ scenario.lossable \subseteq Recoverable

(* The handshake completes on both sides although datagrams of flights 1,  *)
(* 2, 3, 6 and the last one of flight 4 are lost, as long as timers fire   *)
(* only when nothing is under way.                                         *)
Completes == <>[](Benign => \A p \in Peers : sock[p].state = "connected")

(* The two transports trust each other with the same secrets.              *)
SecretsAgree == TypeOK /\ SrtpKeysAgree /\ ClientConnectsLast
=============================================================================
