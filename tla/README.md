# A verification project for werift

werift is an implementation of WebRTC in TypeScript. This directory holds TLA+
models of its protocols, TLC configurations that check them on small instances,
and TLAPS proofs about them. Paths below are relative to `packages/` of the
repository.

- `PROJECT.json` lists components, runs, mutants, the map from definitions to
  source lines, findings, hazards and theorems.
- Check a run: `tlc -config <cfg> <module>`; check the proofs of a module with
  `tlapm <module>Proofs.tla` (section 6).

## 1. The system

A peer connection negotiates a session (SDP), finds a path (ICE), secures it
(DTLS) and then carries media (SRTP) and data (SCTP, data channels).

```
RTCPeerConnection ── negotiation (SDP, transaction, transceivers)
        │ activates
        ▼
ICE agent ──► DTLS socket ──► SCTP association ──► data channels
   │              └─ keys ──► SRTP ──► RTP router, sender, receiver, feedback
STUN / TURN client ◄──network──► TURN server (ice-server)
```

Each layer calls the one below to send and is called back through an `Event`
when something arrives. `Event.execute` calls its handlers synchronously and
does not look at the promise of an asynchronous one, so what such a handler
throws is an unhandled rejection. Everything runs on one JavaScript thread:
concurrency exists only at `await`, between timers, packets, API calls and the
continuations of handlers.

| Component | State | Operations | What is hard | What makes it correct |
|---|---|---|---|---|
| SCTP association (`sctp/src/sctp.ts`) | association and connection state, tags, stream counts, T1, heartbeat | `start`, `stop`, INIT / INIT-ACK / COOKIE-ECHO / COOKIE-ACK / ABORT, timers | loss, repetition, handlers parked at an await, `stop()` between | both ends agree on the streams, no handshake waits for ever, no timer is lost, closed stays closed |
| SCTP receiver | cumulative TSN, out-of-order TSNs, reassembly per stream, window | DATA, FORWARD-TSN, SACK | any order of arrival, duplicates, numbers that wrap | whole messages once and in order, truthful SACKs, window accounted for, nothing stuck |
| SCTP sender | outbound and sent queues, cwnd, flight size, T3, transmit loop | `send`, SACK, T3, abandonment | awaits inside the transmit loop, late SACKs, T3 races | nothing dropped before it is received, data outstanding is timed, no stall, FIFO |
| Stream reset, data channels (`webrtc/src/transport/sctp.ts`) | table of channels, queue, `readyState`, reset request, its timer | create, OPEN / ACK, send, `close`, RE-CONFIG | both ends act at once, resets overtake DATA, answers lost | table consistent, no cross-talk, closes complete, opens complete |
| ICE agent, STUN transactions (`ice/src`) | candidates, check list, transactions, nomination, consent session, generation | gather, `connect`, checks in and out, restart, `close` | role conflicts, answers of a generation that is over, trickled candidates | what is selected is known to the peer, roles differ, consent is timed, `connect()` returns |
| TURN client (`ice/src/turn`) | phase, nonce, permissions, channels, two queues, transactions | allocate, refresh, permission, bind, send, `close` | lost answers, expiry, `close()` behind an await | a number means one peer on both sides, the allocation is kept, a closed client is silent |
| TURN server (`ice-server/src`) | allocations, permissions, bindings, nonces, relay sockets | STUN requests, relayed packets, expiry, end of a stream | repeated requests while a socket is being bound, quota | sockets and allocations come and go together |
| DTLS (`dtls/src`, `webrtc/src/transport/dtls.ts`) | flight, handshake cache, transcript, keys, handlers that poll | flights 1–6, retransmission, `stop` | loss, repetition and reordering of flights, polling handlers that run late | both ends hold the same media keys, keys are kept, the handshake completes |
| SRTP (`rtp/src/srtp`) | highest index per SSRC on each side | protect, unprotect | wrap of the 16-bit number with loss and reordering | the guessed index is the true one |
| RTP sender (`webrtc/src/media/rtpSender.ts`) | pending packets, FIFO, packet that waits for budget, numbering, history | send, `replaceTrack`, `stop`, suppress, NACK, change of estimator | sources change while packets wait | numbers unique and in order, nothing of an old source written, queues drain |
| Receiver (`webrtc/src/media/receiver`, `rtp/src/extra/processor`) | counts, lost packets, feedback window, jitter buffer | packet in, timers, end of the stream | wrap, late and repeated packets, full buffers | order, losses asked for, feedback exact |
| Negotiation (`webrtc/src/negotiation*`, `sdpManager.ts`, `peerConnection.ts`) | current and pending descriptions, baseline, transceivers and MIDs, flag and sequence of changes, ICE generations | offer, answer, implicit rollback, `addTransceiver`, `restartIce` | glare, changes made while an offer is pending, awaits in the middle of applying | every change negotiated, both ends agree, transport uses the credentials of the session |
| Transport activation (`webrtc/src/negotiation/transportActivation.ts`, `secureTransportManager.ts`) | calls of `connect()` under way, states of the transports, epoch, aggregate states | `connect`, ICE and DTLS `start` / `stop`, restart, retirement of a first session, `close` | each answer calls `connect()` again while earlier calls wait, a rollback or `close()` meets them | nothing starts twice, the reported states are true, a session is connected in the end |
| Formats, codecs, containers, congestion control, polyfills | – | – | – | section 8 |

The hazards of each component, at their lines, are in `PROJECT.json`.

## 2. Modules

| Module | Models | Uses |
|---|---|---|
| `SctpAssociation`, `SctpAssociationProofs` | two endpoints' association | – |
| `SerialNumbers`, `InboundStream`, `SctpReceiver`, `SctpFragments` | receiver and fragmentation | each the one before |
| `SctpInbound` | a receiver against every network | `SctpFragments` |
| `SctpSender`, `SctpTransfer` | sender, network and receiver together | `SctpFragments` |
| `FifoChannel` | abstract: a reliable ordered stream | instantiated by `SctpTransfer` |
| `DataChannels`, `DataChannelPair` | one `RTCSctpTransport`, two of them | `SerialNumbers` |
| `IceAgents`, `IceAgentsProofs` | two ICE agents with their STUN transactions | – |
| `DtlsHandshake`, `DtlsHandshakeProofs` | a client and a server socket with their transports | – |
| `TurnRelay`, `TurnRelayProofs` | TURN clients, server and clock | – |
| `RtpSender`, `RtpSenderProofs` | one `RTCRtpSender` and its transport | – |
| `SrtpStream`, `SrtpStreamProofs` | one SSRC, both sides, and the network | – |
| `OrderedSets` | the largest member of a set of numbers, and the members in order | – |
| `JitterBuffer`, `NackHandler`, `ReceiverTwcc` | the receiver's algorithms as operators | `SerialNumbers`, `OrderedSets` |
| `MediaStream`, `MediaStreamProofs` | the whole receiving side behind SRTP | `SrtpStream` and the three above |
| `Negotiation` | two peer connections, their applications and signalling | – |
| `TransportActivation`, `TransportActivationProofs` | how one peer connection starts ICE, DTLS and SCTP and reports their state | the outcomes the modules of these protocols leave |

Every `MC…` module names the scenarios TLC starts from: a scenario is a record
of what the applications and the network may do, chosen in the initial state, so
that one run covers several settings.

State of the plan: all of the components above are modelled. What could come
next, in this order: the provisional transports of a renegotiation
(`connectPending`, `activatePendingRemote`); stopped transceivers and recycled m-lines, provisional answers and explicit
rollback in `Negotiation`; SRTCP and the RTP router; proofs about
`PlayedRight`, `ChannelsConsistent` and `SessionSound`.

## 3. How the models correspond to the code

A handler runs without interruption up to its next `await`. The models follow
this exactly: **one action per handler up to its first await, and an action of
its own for what follows it**. Between the two anything else may happen.

**SctpAssociation.** `ep` holds the fields of the two `SCTP` objects that the
handshake reads or writes; `pending` counts the handlers parked at an await, by
kind; `net` is the set of packets in flight. The actions are `SetRemotePort`,
`Start`, `Stop`, `TransportClosed` (the API), one per chunk type (with a flag
`again` when the network repeats the packet, within `MaxFaults`), one per timer
and one per continuation. `start()` asks only whether it was called before, as
`connect()` calls it behind the DTLS handshake without looking: it may come behind
`stop()`, and the transport may reject its INIT, which `init()` catches without
arming T1. `setState` is an operator with all of its side
effects. Verification tags are the names of the endpoints: the random numbers
are taken to be different.

**SerialNumbers, InboundStream, SctpReceiver, SctpInbound.** Serial-number
arithmetic, the order `Array.sort()` uses without a comparator (numbers as
strings), `addChunk`, `popMessages`, `pruneChunks`, and the handlers of DATA and
FORWARD-TSN. A chunk has a TSN, a stream, a sequence number, flags and a size,
but no content. These handlers have no await, so they are operators from state
to state. TSNs live in `TsnMod = 100`, in which numbers of one and of two digits
exist, as 9 and 10 digits do among 32-bit TSNs. `SctpInbound` plays a receiver
against every order of arrival.

**SctpSender, SctpTransfer.** The sender with its transmit loop: `pc` says at
which of the three awaits it is. Round-trip estimation is left out, since it
only moves the instant at which T3 fires; so is expiry by lifetime. `MaxPayload`
stands for `USERDATA_MAX_LENGTH`. `FifoChannel` is what the code promises for
one reliable stream; `ImplementsFifoChannel` is that refinement.

**DataChannels, DataChannelPair.** `RTCSctpTransport` with the DCEP handshake,
allocation of identifiers, `close()`, and the stream reset of class `SCTP` with
its timer and its awaits (`awaiting`). The handle of the reset timer has three
states (off, armed, spent), because the code does not clear the handle when the
timer fires. DATA is taken as `SctpTransfer` leaves it (each chunk arrives once,
in any order); RE-CONFIG packets are lost, delayed and overtaken.

**IceAgents.** Two `Connection`s over paths: path *p* joins socket *p* of both,
so a pair is named by its path. The actions are checks sent and received, their
answers, timeouts, trickled candidates and their end, `connect()` with its
scheduling loop and the queue `connect()` waits on, nomination (aggressive, and
regular for lite peers and TCP), role conflicts, consent requests and their
expiry, `restart()` and `close()` with their awaits. A request carries the role,
the generation and USE-CANDIDATE it was built with, so that it may be stale when
it is answered.

**DtlsHandshake.** Two sockets with their flights, the retransmission loops, the
handlers that wait by polling until messages are complete, the transcript (the
cached messages) and the keys derived from it; then the transport's `start()`,
`stop()` and fingerprint check. A key is the transcript it was derived from, and
a Finished opens only under the key it was sealed with. One datagram carries one
message, as the code sends them; a message is not split into fragments.

**TurnRelay.** Two clients one after the other, and the server with its quota;
requests have four kinds, each with at most one transaction, as the code's two
queues and two loops have it. Time counts hundreds of seconds; within one tick
every transaction settles, since one ends after 6.35 s. Requests and answers may
be lost, a socket may fail to bind, the nonce may expire early, the password may
be wrong, a client's stream may end, `close()` may come at every await.

**RtpSender.** From `sendRtp` to the wire: packets that wait for the transport,
the FIFO of a pacing estimator with the packet that waits for budget, the
continuity of numbers across sources, the history and the answer to NACK, with
`replaceTrack`, `detachTrack`, `replaceRTP`, suppression, a new estimator and
`stop()` at every await.

**SrtpStream, MediaStream.** A packet carries its 16-bit number and, as the
truth only properties look at, the cycle it was sent in; the ROC it was
encrypted under decides whether it authenticates. What passes is counted,
watched by `NackHandler` or `ReceiverTWCC`, and put in order by the jitter
buffer, whose time is the RTP timestamp. A NACK brings packets back from the
sender's history (`Remember`): a slot, number modulo `HistorySize`, holds its
packet until another one is kept there, so gaps and packets of padding only,
which are not kept, leave packets of any age in it. `strayed` records that a
packet was sent again from half a cycle back or more.

**Negotiation.** Two `RTCPeerConnection`s with the application of
`webrtc/tests/integrate/perfectNegotiation.ts` on a reliable ordered signalling
channel. An operation of the chain runs in phases: its start, the certificate
wait, the commit of an answer behind the await that switches the ICE
generation, the gathering that ends it, and for an offer that meets one of our
own the macrotask after the implicit rollback, which in a first session also
closes the transport that had gathered and puts a new one in its place
(`cleanupInitialProvisional`: closing sockets takes no macrotask, the new
transport gathers again). A description is its type, the
MIDs of its m-lines and the ICE generation it names. The transaction keeps the
baseline a rollback restores; `changeSeq`, `negotiatedSeq`, `pendingOfferSeq`
and `recheck` are those of `NegotiationNeeded`.

**TransportActivation.** One peer connection with two transports. A call of
`connect()` is a record with its epoch and, for each transport, the await it is
at; `Behind` is the code behind each await, `Settle` the end of the call.
Continuations that are ready run before the next event (`Micro`), in any order.
A transport carries its generation, the generation whose `start()` runs
(`waitStart`) and `inc`, which tells it from the ones a rollback replaced. ICE,
DTLS and SCTP are reduced to how a start ends: it succeeds, fails, or, on a
transport that was closed or replaced, settles late or never. Answers are
applied by the offerer; the answerer's `setLocalDescription` ends in the same
call.

Definitions whose comment begins "Mutant", or whose names say how they differ
(`ExpendableOneLater`), are plausible mistakes. They are used to see that every
property can fail; no specification refers to them.

## 4. Runs

| Run | Shows | Distinct states |
|---|---|---|
| `sctp_association` | handshake, timers, stop, liveness of the handshake | 302,383 |
| `sctp_inbound` | reassembly, order, window, SACK | 10,511 |
| `sctp_transfer` | reliability, timers, refinement of `FifoChannel`, delivery | 129,794 |
| `datachannel` | table, resets, cross-talk, opening and closing | 321,603 |
| `ice_agents` | selection, roles, consent, connecting | 383,570 |
| `dtls_handshake` | agreement on keys, kept sessions, completion | 282,258 |
| `turn_relay` | channels, allocation, relay sockets, quiet after `close()`, every operation ends | 900,657 |
| `rtp_sender` | numbering, order, retransmission, what may be written, drained queues | 596,078 |
| `media_stream` | rollover counter, playing order, reports and requests | 816,826 |
| `negotiation` | glare, rollback, MIDs, ICE generations, every change negotiated | 156,650 |
| `transport_activation` | one start of everything, true states, connected in the end | 187,375 |
| `turn_stale_nonce` | a disagreement of the code with its comment (section 7) | – |

### Bounds

- `sctp_association`: client offers 3 streams and takes 2, server offers 1 and
  takes 2, so each direction is limited by a different end. One packet is lost
  or repeated or the INIT is rejected, T1 gives up after one retransmission, one
  handler of each kind is parked at a time. The proofs cover every value of these bounds.
- `sctp_inbound`: five messages in seven or eight chunks; every permutation of
  arrival, one chunk twice; two unreliable messages given up at any time; TSNs
  that start at 20 and at 97 (across the end of the space).
- `sctp_transfer`: four scenarios. Four small chunks with two losses are the
  least that reach fast retransmit and lose what it sends. Full chunks with a
  late answer reach T3 with a SACK under way. An unreliable message at the head
  with three losses reaches abandonment. Two small messages with a T3 expiry
  during an await reach the race of timer and loop.
- `datachannel`: two channels; in-band from each side, at once, and negotiated;
  one or two RE-CONFIG packets lost, a reset timer that expires although the
  answer is only late, one user message, one association lost. A third channel
  would add no interaction, as a reset request carries all queued streams.
- `ice_agents`: two paths, at most `MaxRequests` = 6 requests each; nine
  scenarios with equal or swapped roles, a lost request, a timeout, a lite peer,
  TCP, trickled candidates, a consent check that expires, a restart, `close()`.
  Two paths are the least with a choice of pair. A restart and close() are
  checked with one path.
- `dtls_handshake`: one or two datagrams lost, a copy, one that overtakes, timers
  that fire early, a handler that gives up, a wrong certificate, `stop()`.
- `turn_relay`: two peers at one address (a shared permission), a clock of
  `MaxTime` = 6 ticks (one allocation lifetime and its refresh), three sends,
  two clients of which the second meets the first one's allocation.
- `rtp_sender`: two tracks whose numbers start apart, four packets, four changes
  of source, a modulus of 8, a history of 2, so that slots are used again.
- `media_stream`: five packets in a cycle of 12 numbers, the first at 1 or 8 so
  that numbers, timestamps and transport-wide numbers wrap; the source passes over
  a number as often as it likes; one fault, which is a loss, a packet the history
  does not keep, one that arrives twice or damaged; a history of 5 slots, so
  that gaps leave a packet in it until it is half a cycle old; delays up to
  `MaxDelay` = 3, below half a cycle as the 16-bit arithmetic needs (twice the
  delay and the latency, for the jitter buffer); transport-wide numbers count
  modulo 12 from 9, and three packets are reported at once. The proofs lift these
  bounds for every safety property.
- `negotiation`: two or three transceivers and up to two restarts on either
  side, at any moment; every change can meet an offer that glare rolls back.
- `transport_activation`: two transports, up to three answers, so that a call can
  start, join and find everything done; one restart, one rollback, one failure,
  one `close()`, a transport and an association that join a running session.
- Deadlock is checked in `negotiation` and `transport_activation`, where the
  system rests only when no operation is under way (`Rest`). Elsewhere it is not: an association that is closed, a
  transfer that is complete and a stream that ended are final.

### Fairness

A promise of the transport settles, so every continuation runs; a timer that is
armed expires unless it is cancelled; a packet the network does not lose
arrives. In `sctp_transfer` the application sends its messages; elsewhere
nothing is assumed of it: it may never start, stop, close or change anything.
T3, the reset timer and the timers of DTLS (where a scenario is `prompt`) are
only assumed to expire when nothing is under way, which is when the code depends
on them. In `Negotiation` the two event loops and the signalling channel make
progress. Weak fairness is written with the action's guard in place of ENABLED
(`[]<>~Due \/ []<><<Progress>>_vars`), except in `SctpAssociation`.

## 5. Properties

Every run checks few formulas; each is a conjunction of named parts.

- *Association.* `StreamAgreement`, `NoHalfOpenClient`, `TimersArmed`
  (`HandshakeIsTimed`, `HeartbeatAlive`), `ClosedClientNeverConnects`,
  `HandshakeEnds`.
- *Receiver.* `DeliveryCorrect` (whole messages, once, in order), `AccountsTrue`
  (window, SACK), `NothingLeftBehind`: the cases in which the general statements
  `AllArrivedAllDelivered` and `AllArrivedAllAcknowledged`, which fail
  (section 7), hold.
- *Transfer.* `TransferSafe` (nothing dropped before it is received, limits kept,
  order kept), `NeverStuck` (outstanding data is timed, no stall),
  `ImplementsFifoChannel`, `EverythingDelivered`.
- *Data channels.* `ChannelsConsistent` (table, acknowledgements, timed resets),
  `ChannelsSeparate` (no cross-talk, closed on purpose), `ReadyStateAdvances`,
  `ChannelsSettle`.
- *ICE.* `AgentsAgree` (`PairsAgree`, `OneController`), `DataNeedsConsent`,
  `AgentsConnect`.
- *DTLS.* `SecretsAgree` (equal media keys, the client connects last),
  `SessionKept`, `Completes`.
- *TURN.* `ChannelsUsable`, `RelayKept`, `ClosedQuiet`, `OperationsEnd`.
- *RTP sender.* `StreamRight` (numbers unique and in order, retransmissions the
  packet that was sent), `WritesAllowed`, `QueuesDrain`.
- *Media.* `EncryptedAtIndex`, `InStep`, `PlayedRight`, `ReceptionReported`
  (packets expected, losses asked for, feedback exact), `RequestsEnd`.
- *Negotiation.* `SessionSound` (state and descriptions belong together, MIDs
  unique, every description fits the state it meets), `PeersAgree`
  (`LiveIsCurrent`, `Agreement`), `ChangesNegotiated`.
- *Activation.* `ActivationSound` (one start per generation, handshake and
  association; `iceConnectionState` is that of the transports), `ReportTrue`
  ("connecting" has a call under way, a retired session says "new"),
  `ReportsConnected`.

Some hold only under a condition their comment states, because the code breaks
the general statement: `HandshakeEnds` for an INIT that a client sent which is
not stopped, `ClosedClientNeverConnects` but for "connecting" in a first `start()`
behind `stop()`, the properties of media until a packet is sent again from half a
cycle back, `SessionKept` and `Completes` for the losses a repeated
flight repairs, `AllocationKept` without a timeout and before the first nonce
expires, `LossesAsked` before the numbers come round, `Connects` without a
timeout, `ReportsConnected` without a restart while checks run,
`SelectedKnownToPeer` of a lite agent in the first generation, `TcpAgentsAgree` there
and while nothing times out. The conditions are part of the result, and section 7 says what happens
outside them.

## 6. Proofs

`SctpAssociationProofs` proves, for all numbers of streams and all bounds:

| Theorem | Statement |
|---|---|
| `TypeCorrect` | `Spec => []TypeOK` |
| `TimersNeverLost` | `Spec => []TimersArmed` |
| `StreamsAgree` | `Spec => []StreamAgreement` |
| `ClientNeverHalfOpen` | `Spec => []NoHalfOpenClient` |
| `ClosedClientNeverReturns` | `Spec => ClosedClientNeverConnects` |

They rest on `StreamsAssumption` and `BoundsAssumption` only (the constants are
natural numbers, and at least one handler may be parked). `TypeOK` is inductive.
The timer properties are inductive together with it. `StreamAgreement` and
`NoHalfOpenClient` are not: whether the client learns the right numbers depends
on what is in flight. `HandshakeInv` adds, for every packet, what it may carry
(`PacketInv`: an INIT-ACK names the numbers both will use and the server already
has them; a COOKIE-ACK exists only when the server is, or is about to be,
established or closed), what T1 may retransmit, and that a handler parked after
INIT-ACK has already learned the streams. Its preservation is proved action by
action (`HandshakeStep`).

`SrtpStreamProofs` proves, for every length of the number cycle, every highest
rollover counter, every start, gap, history and network:

| Theorem | Statement |
|---|---|
| `StreamTypeCorrect` | `Spec => []StreamTypeOK` |
| `KeystreamsDiffer` | `Spec => []EncryptedAtIndex` |
| `ReceiverInStep` | `Spec => []InStep` |

They rest on the named assumptions of `SrtpStream` about its constants. Both properties are
stated as long as the stream is not `Astray`: until the counter is exhausted, and
until a packet is sent again from half a cycle back, which the history does not
exclude and the 16-bit number cannot tell (section 7). The inductive
invariant `IInv` says that, unless `Astray`, the highest index
each side keeps is the true index of a packet that was sent (`SenderTrue`,
`ReceiverTrue`) and every packet in flight carries the ROC of its cycle. The core
is the lemma `GuessRight`: for two true positions less than half a cycle apart
`guessRolloverCounter` returns the true cycle; `Neighbours` does the arithmetic.
That a packet is accepted only if its guess is right keeps `ReceiverTrue`: this
is where authentication is needed.

`DtlsHandshakeProofs` proves, for every scenario (numbers of retransmissions,
losses, copies and overtaking datagrams, which messages may be lost, a wrong
certificate, `stop()`):

| Theorem | Statement |
|---|---|
| `HandshakeInvariant` | `Spec => []SecretInv` |
| `SecretsAlwaysAgree` | `Spec => []SecretsAgree` |
| `SessionsAreKept` | `Spec => []SessionKept` |

They rest on `ScenariosAssumption`, which only types the scenarios. That two
connected transports hold one secret is not inductive. `SecretInv` says what may
be on its way, wait or be sent again: a Finished of the server carries its media
secret, and the client answers one cookie only, that of the first connection.
Hence a server that connected and then dropped its session (a late hello does
that) never reaches flight 6 again, and what the client took from its Finished
stays what the server has. `SessionKept` is about runs without copies and
overtaking and with losses a retransmission repairs.
`KeptInv` says that the datagrams then lie in the channels in the order of their
flights (`InStages`), and that before each message everything its handler waits
for has come or is ahead of it (`Complete`). Therefore no handler of the client
waits, no hello reaches a connected server, and nobody derives keys again.

`TurnRelayProofs` proves, for every set of clients and peers, every quota and all
lifetimes:

| Theorem | Statement |
|---|---|
| `RelayInvariant` | `Spec => []RelayInv` |
| `ChannelsAreUsable` | `Spec => []ChannelsUsable` |
| `RelayIsKept` | `Spec => []RelayKept` |
| `ClosedClientQuiet` | `Spec => []ClosedQuiet` |

`ConstantsAssumption` requires finite sets of peers and clients and
`channelRefreshTime <= channelLifetime`, as the code's constants have it
(500 and 600 seconds); the other lifetimes, the quota and the clock are free.
The invariant couples three things. *Queues:* the operation on the wire is the
head of its queue, a queue has one entry per key, and the numbers handed out are
not more than the calls that came (`HeadInv`, `QueueInv`); this keeps one peer's
bind from being answered as another's. *Channels* (`ChannelInv`): what the
server has bound, also by a request whose answer was lost, agrees with the
client's table, and a binding outlives the moment at which the client asks again.
*Allocation* (`KeptInv`): the server's expiry is behind the client's next
refresh, and no transaction ends unheard, as long as the nonce holds and nothing
is lost.

`RtpSenderProofs` proves, for every set of tracks, first numbers, caps of the
queues and sizes of the history:

| Theorem | Statement |
|---|---|
| `SenderInvariant` | `Spec => []RtpInv` |
| `StreamIsRight` | `Spec => []StreamRight` |
| `OnlyAllowedWrites` | `Spec => WritesAllowed` |

`ConstantsAssumption` keeps the packets within one cycle of numbers
(`MaxPackets <= Numbers`): what comes after a full cycle uses the numbers again.
`StreamRight` speaks of the wire; whether the next step keeps it depends on what
waits. `RtpInv` says that the packet that waits for budget, the FIFO and the held
packets are one line in the order in which the packets came (`LineInv`), that
each of them is of the present source or will be refused (`WaitingInv`), and
which number the track's next packet would get (`StreamInv`). The arithmetic is
modulo `Numbers` (`Same`), and the core is that numbers rise with the packets
and by no more than the packets do (`Numbered`): over less than a cycle that
makes them unique. The draining loops are walked by induction over the length of
the line, which is a well-founded order and needs no operator as a parameter.

`TransportActivationProofs` proves, for every finite set of transports and every
number of answers, restarts, rollbacks and failures:

| Theorem | Statement |
|---|---|
| `ActivationInvariant` | `Spec => []ActivationInv` |
| `ActivationIsSound` | `Spec => []ActivationSound` |
| `ReportIsTrue` | `Spec => []ReportTrue` |

They rest on `TransportsAssumption` and `ScenariosAssumption` (the transports are
a finite set, the scenarios are typed). Each transport: the checks of a generation
have not started while `checksStarted` is false, they start only with parameters,
and a DTLS transport that is new has made no handshake. Each call: as long as it
waits on a transport that is still the current one, that transport was started,
and while no rollback or `close()` is under way the call's epoch is the present
one. This relation between calls and transports is what the states alone do not
show: an answer's call goes on behind an await with what it knew before, and it
is harmless because a transport is replaced (`inc`) whenever the epoch moves.
`ReportSound` is the rest: "connecting" has an unfinished call of this epoch that
started or joined something, hence will report.

`IceAgentsProofs` proves, for every number of paths, every bound on requests and
every set of scenarios:

| Theorem | Statement |
|---|---|
| `IceInvariant` | `Spec => []BaseInv` |
| `DataNeedsAConsent` | `Spec => []DataNeedsConsent` |
| `SelectionIsKnown` | `Spec => [](TypeOK /\ SelectedKnownToPeer)` |
| `RolesAreRepaired` | `Spec => []OneController` |
| `TcpNominationsAgree` | `Spec => []TcpAgentsAgree` |
| `TheAgentsAgree` | `Spec => []AgentsAgree` |

They rest on `IceAssumption`, which types the scenarios and asks for at least one
path and one request. `BaseInv` has a part for each agent alone (`Local`: a
request on its way is of the present generation and on a pair of the check
list; whoever selected has a timer or a result that starts one) and a part for
the two (`RequestsOK`: the sender of a request of the present generation has the
pair, wherever the request is; `AnswersKnown`, `SuccessKnown`: a path on which a
check was answered or succeeded is in the peer's check list, or among its early
checks; `Follows`: no agent holds credentials of a generation its peer has not
begun). The handlers are long compositions (a check may pair, trigger, succeed,
nominate, select), so what they do to the record of one agent is proved once as a
transitive relation (`Handles`), and every action is shown to be one of two kinds
of step: within a generation (`Step`) or into the next (`Restarts`).
`StepKeeps` and `RestartKeeps` do the rest. The replay of the early checks is
walked by induction over their number, which needs no operator as a parameter.
`RolesInv` is about the first generation: while the agents believe in the same
role nothing was answered with success and nobody selected (`BothAlike`); once
they differ, what is under way carries roles that can only confirm it
(`AControls`, `BControls`), and a refusal that is late cannot switch an agent back.
`TcpInv` is about nomination over TCP. The controlling agent nominates one pair
at a time and keeps to it until it has selected it (`Claim`), so a nomination on
the wire, among the early checks or noted by the peer is a claim of the other
agent, and is never refused. Whoever is controlled selects only what was
nominated, hence what its peer selects. A role conflict does not disturb this:
while the roles are alike nothing succeeded, so nothing is nominated (`AlikeTcp`).
The proof has the shape of the one of `BaseInv`: `TcpHandles` is transitive, and
each part of handling a check is shown to be in it.

`MediaStreamProofs` proves, for every length of the number cycles, every network
delay below the limits of the 16-bit arithmetic, and every size of the buffers:

| Theorem | Statement |
|---|---|
| `MediaIsStream` | `MediaSpec => Spec` (of `SrtpStream`) |
| `MediaStreamSecured` | `MediaSpec => [](EncryptedAtIndex /\ InStep)` |
| `MediaInvariant` | `MediaSpec => []MediaInv` |
| `ReceptionIsReported` | `MediaSpec => [](~Astray /\ (Heard # {} => log.heard[1] # 0) => ReceptionReported)` |
| `PlayedInOrder` | `MediaSpec => [](~Astray => PlayedRight)` |

They rest on `SrtpAssumption` and `MediaAssumption`, which bound how far packets
fall behind (`MaxDelay`): the packets one feedback waits for have different
transport-wide numbers, and twice the delay and the latency together are below
half a cycle of sequence numbers, since the jitter buffer compares a number with
the last one played, which is up to delay and latency behind the newest. Both
are far from reached with numbers of 16 bits and buffers of some hundred
packets. Two hypotheses are in the theorems. Until the stream is `Astray` (2^48
packets were sent, or one was sent again from half a cycle back) is where
`SrtpStream` keeps its index at all. That the
first packet to arrive does not have the number 0 is a condition of the code:
`NackHandler` keeps 0 for "no packet yet" and forgets such a packet (section 7).

`MediaInv` is a stack. `NetTrue`: every packet on its way, and the highest one
accepted, is less than half a cycle behind the last one sent. `HeardTrue`: the
receiver's `top` is the highest index heard. `StatsTrue`: `cycles + max - base`
counts from the first packet to `top`, because the serial comparison is right
for two indices that near (`CountsNext`). `NackTrue`: before the numbers come
round, each number between the first and the highest one has arrived, is asked
for or was given up, through `pruneLost` and `updateRetryCount` too. `WideTrue`:
a packet is no further behind in transport-wide numbers than in its index, hence
`unwrapTsn` returns the true number plus a whole number of cycles
(`UnwrapsNear`). `TwccTrue`: every number that arrived is held, reported, or
late, every entry is true, and nothing reported is at or beyond the cursor. A
feedback then reports no number twice (`SendsTrue`). `sendTWCC` sorts and folds:
what the fold does is proved by induction over the set of positions at which it
is right (`UpTo`, `FoldExists`, `ExtendNext`), which needs no operator as a
parameter; the windows ascend, begin at the cursor, and cover every pending
number (`SendTwcc`).

The rest is for the jitter buffer. `PlayTrue`: there is a packet `P` such that
what was played is one line from the first packet to `P`, each entry with the
number of packets it passes over, and the buffer holds exactly what arrived
beyond `P` (`Plays`). Alone that is not inductive. The serial comparison tells old
from new only if `P` is near the newest packet, and `P` is near only because
everything within the latency of the newest is played or held, and because two
neighbours among the packets that arrived are less than `MaxDelay` apart
(`GapsTrue`, `Dense`, from `TopNear`: the source is never further than that ahead
of what arrived). `EndTrue`: after the end of the stream no packet comes.
`LostTrue` bounds the rest of what is held, the NACK handler's list and the
requests the sender has yet to answer. The buffer is a set of records with
numbers of 16 bits; `TrueDistance` replaces them by true distances from `P`, and
`Releases`, `Inputs` and `Ends` say what a release, a packet and the end do to the
line. A step is then `PlaysFirst`, `PlaysKnown`, `PlaysNew` or `PlaysEnd`.

`ClosedClientNeverReturns` of `SctpAssociationProofs` is an action property: a client
that has `isClosed` is not connected (`ClosedInv`), and no packet, continuation or
timer makes it report anything but "closed". What a first `start()` behind
`stop()` does is in the statement: it reports "connecting", no more.

Each inductive invariant was an invariant of the component's run before it was
proved. What the bounds of `sctp_association`, `dtls_handshake`, `turn_relay`,
`rtp_sender`, `transport_activation`, `ice_agents` and `media_stream` leave open
for these properties the theorems close; the runs still show that the
interesting states are reached.

Only model-checked:

- Liveness (`HandshakeEnds`, `EverythingDelivered`, `ChannelsSettle`,
  `AgentsConnect`, `Completes`, `OperationsEnd`, `QueuesDrain`, `RequestsEnd`,
  `ChangesNegotiated`, `ReportsConnected`): fairness and ENABLED are beyond this
  prover.
- The receiver and the transfer (`DeliveryCorrect`, `AccountsTrue`,
  `NothingLeftBehind`, `TransferSafe`, `NeverStuck`, `ImplementsFifoChannel`):
  reassembly, the window and the flight size are recursive functions, folds and
  sums over sequences of chunks. What they compute on every input needs induction
  over an operator, which no backend has.
- `DataChannelPair` and `Negotiation`. Parts of `ChannelsConsistent` and
  `ChannelsSeparate` fail outside the scenarios of the run (section 7), so the
  scenarios would have to become part of the invariant; `SessionSound` needs an
  invariant about two peers with an operation each in any of its phases and the
  descriptions between them.

## 7. Findings

A run that ends in a violation:

| Run | Source | What happens |
|---|---|---|
| `turn_stale_nonce` | `ice/src/turn/protocol.ts:456` | The server's 438 is not signed and the client, which has a key by then, drops it: the allocation is lost when the nonce expires. |

Counterexamples anyone can reproduce by giving `Scenarios` the definition named
here in the module's cfg and checking the formula named beside it:

| Module, scenario | Formula | Source | What happens |
|---|---|---|---|
| `MCSctpAssociation` (no scenario) | `StopBlocksTimers` | `sctp/src/sctp.ts:1416` | `stop()` between a handler's send and its continuation: the continuation arms a timer of a closed endpoint, or establishes it (`sctp/tests/api.test.ts:32`: "stop clears pending handles and blocks timer re-scheduling"). |
| `MCSctpAssociation` (no scenario) | `ClosedClientStaysClosed` | `:1387` | `connect()` calls `start()` behind an await, and `start()` does not ask for `isClosed`: behind `stop()` the client goes from "closed" to "connecting" and sends INIT, with `onData` removed. |
| `MCSctpAssociation` (no scenario) | `StartedClientEnds` | `:1418` | The transport rejects the INIT, `init()` catches that without arming T1, or `start()` came behind `stop()` and T1 returns early: the association reports "connecting" for ever. |
| `MCSctpInbound`, `TurnsScenario` | `AllArrivedAllDelivered` | `sctp/src/sctp.ts:1592` | `popMessages` does not reset `startPos`: with two streams taking turns a complete message stays in the buffer. |
| `MCSctpInbound`, `UnreliableScenario` | `NothingLost` | `:825` | FORWARD-TSN pops before it prunes: a complete, acknowledged message behind an abandoned fragment is removed undelivered. |
| `MCSctpInbound`, `DigitScenario` | `AllArrivedAllAcknowledged` | `:864` | `sort()` without comparator orders TSNs as strings: where the number of digits grows, the cumulative TSN stops. |
| `MCSctpTransfer`, `StallScenario` (`MaxPayload = 4`) | `NoStall` | `:1202` | T3 marks chunks acknowledged in gaps; their bytes stay in the flight size and the sender stops with data queued. |
| `MCSctpTransfer`, `TimerRaceScenario` | `OutstandingIsTimed` | `:1022` | T3 during the transmit loop's await: the loop goes on with a later chunk and nothing arms T3 again. |
| `MCSctpTransfer`, `ReliableScenario` | `DroppedOnlyWhenReceived` | `:1357` | `maybeAbandon` starts at the head of the queue: a reliable message is abandoned. |
| `MCDataChannelPair`, `EagerScenario` | `AckFindsChannel` | `webrtc/src/transport/sctp.ts:215` | A reset overtakes DATA_CHANNEL_ACK; the handler throws and nothing catches it. |
| `MCDataChannelPair`, `ReuseScenario` | `ClosedOnPurpose` | `:348` | A reused identifier meets the old channel's reset. |
| `MCIceAgents`, `RestartScenario` | `ResultNotLost` | `ice/src/ice.ts:1530` | After `restart()` the loop of the first `connect()` takes the result the second one waits for. |
| `MCMediaStream` (no scenario) | `RotatingLossesAsked` | `webrtc/src/media/receiver/nack.ts:78` | The comparison of numbers is not modular: a loss at the wrap is not asked for (the test "16bit rotate" has a case that works). |
| `MCMediaStream` (no scenario), `FirstNumbers = {0}` | `LossesAsked` | `:65` | `newEstSeqNum` 0 means "no packet yet": after a first packet with the number 0 and then 2, the number 1 is not asked for. |
| `MCMediaStream` (no scenario) | `AlwaysEncryptedAtIndex` | `webrtc/src/media/rtpSender.ts:1126` | A slot of the history holds its packet until it is overwritten. With the numbers 5000, 25000, 45000, a NACK for 5000 (1267) is answered under ROC 1 instead of 0, and both sides commit it. |
| `MCMediaStream` (no scenario) | `AlwaysInStep` | `:1267` | Behind such an answer the receiver does not authenticate a delayed packet of the true cycle, although it is less than half a cycle behind the highest one. |
| `MCTransportActivation` (its own) | `ClosedFinal` | `webrtc/src/negotiation/transportActivation.ts:299` | `close()` releases a call of `connect()` that joined running checks; the call rejects, and `connectionState` goes from "closed" to "failed". |
| `MCTransportActivation` (its own) | `FailureStands` | `:303` | A transport failed; the `connect()` of the next answer has nothing to await there, joins another transport's handshake, and reports "connected". (`negotiationTransactionRegression.test.ts:536` tests the case of one transport, which is right.) |

Found while modelling:

- *SCTP:* a second INIT-ACK makes `timer1Start` throw (412); an INIT after data
  resets the receiver (370); `maxRetransmits` 0 means unlimited (1353); a lost
  FORWARD-TSN is not sent again (992); a message larger than the window stalls
  (665); a lifetime is counted in two units (`webrtc/src/transport/sctp.ts:366`);
  closing a channel before the association is up drops the announcements of
  others (486); channels without identifier stay connecting when the association
  closes early (109).
- *ICE:* `close()` within the 20 ms of the scheduling loop is followed by
  "connected"; `connect()` does not settle when checks fail (1539); a request of
  the generation before a restart may switch the role, and a nomination of it may
  make a lite agent select; towards a lite peer two
  pairs may be nominated (2336); `1 << 32` is 1 in `candidatePairPriority`.
- *DTLS:* a handler of ServerHelloDone that waited runs flight 5 again behind an
  established connection (`client.ts:78`); every ClientKeyExchange derives keys
  again, so one datagram of flight 5 lost breaks the handshake
  (`flight6.ts:104`); a second HelloVerifyRequest makes `Flight3.exec` throw; a
  late ClientHello makes the server drop its session; the list of required
  messages is satisfied by the server's own certificate.
- *TURN:* a permission is cached for ever by the client and expires after 300 s
  on the server; a lost answer to a first ChannelBind leaves that peer without
  channel until the binding expires; a failed refresh waits for another 5/6 of
  the lifetime; a wrong password shows as a timeout.
- *Media:* past 2^48 packets `encryptRtp` throws for half a cycle and then uses
  the last ROC again; a receiver that misses everything before the first wrap,
  or more than half a cycle, never recovers; the jitter buffer drops packets
  earlier than the first one to arrive.
- *Activation:* after a restart while checks run, the loop of the earlier
  `start()` may take the result; the call that restarted never settles, and the
  connection may stay "connecting". `createDataChannel()` that makes a transport
  of its own does not recompute `iceConnectionState`, `addTransceiver()` does.
- *Negotiation:* an explicit rollback leaves the flag of `negotiationneeded`
  set; an application that calls `createOffer()` itself can lose a change made
  before a remote offer arrives; an answer with fewer m-lines is accepted.

## 8. Not modelled

- SCTP: the SHUTDOWN sequence with T2 and the add-streams request (no werift
  endpoint starts them), round-trip estimation, expiry by lifetime, handshake
  and data together.
- Data channels: `bufferedAmount`, statistics, message size limits, reuse of the
  transport after a rollback.
- ICE: mDNS candidates, gathering from several servers, renomination,
  TCP framing. TURN: redirects to another server, framing of streams.
- DTLS: messages in several fragments, negotiation of parameters, alerts,
  encryption itself; the anti-replay window, which nothing but its test uses.
- SRTCP (its index is in the packet), RTX, RED, padding and probes, receiver
  reports, routing by SSRC, MID and RID, lip sync.
- Negotiation: stopped transceivers and recycled m-lines, provisional answers,
  explicit rollback, several transports and the SCTP m-line.
- Transport activation: `connectPending` and `activatePendingRemote` (the
  provisional transports of a renegotiation), gathering states, a DTLS alert
  that closes a connected transport.
- Cryptography, wire formats, SDP as text, codecs, containers: pure functions of
  bytes.
- Congestion control: floating-point estimators over time, out of TLC's reach.
- Adapters to sockets, files, programs and polyfills: input and output.
