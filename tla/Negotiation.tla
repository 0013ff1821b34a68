----------------------------- MODULE Negotiation -----------------------------
(***************************************************************************)
(* Two RTCPeerConnections that negotiate with each other, driven by the    *)
(* application of tests/integrate/perfectNegotiation.ts over a reliable    *)
(* ordered signalling channel.                                             *)
(*                                                                         *)
(* A peer has one media kind and bundles everything on one transport.      *)
(* The application adds transceivers and calls restartIce().  Description  *)
(* operations run one after the other (the operations chain); an           *)
(* operation runs to its next macrotask in one step, and a step that is    *)
(* only a microtask away comes before anything else of its peer.  A        *)
(* description is its type, the MIDs of its m-lines and the ICE generation *)
(* of its sender; generations are numbered in the order a peer makes them. *)
(***************************************************************************)
EXTENDS Integers, Sequences, FiniteSets, SequencesExt, FiniteSetsExt

CONSTANTS Polite, Impolite,  \* the two peers
          Scenarios          \* what the applications do: [peer -> [adds, restarts]]

Peers == {Polite, Impolite}

ASSUME PeersDiffer == Polite # Impolite
ASSUME ScenariosAssumption == \A s \in Scenarios : s \in [Peers -> [adds : Nat, restarts : Nat]]

VARIABLES peer,   \* the state of each peer connection and its application
          wire,   \* descriptions on their way to each peer
          plan    \* what each application has still to do

vars == <<peer, wire, plan>>

NoMid == -1
NoGeneration == 0
NoDescription == [type |-> "none", mids |-> <<>>, ufrag |-> NoGeneration]

Other(x) == IF x = Polite THEN Impolite ELSE Polite

-----------------------------------------------------------------------------
(* RTCPeerConnection, its managers and the application's variables. *)

NewPeer ==
    [sig         |-> "stable",
     tr          |-> <<>>,          \* transceivers, [id, mid]
     seen        |-> {},            \* MIDs in use or used before
     curL        |-> NoDescription, curR |-> NoDescription,
     penL        |-> NoDescription, penR |-> NoDescription,
     open        |-> FALSE,         \* a transaction is open ...
     baseline    |-> <<>>,          \* ... and goes back to these transceivers
     created     |-> {},            \* transceivers the pending remote offer created
     flag        |-> FALSE, recheck |-> FALSE, scheduled |-> FALSE,
     changeSeq   |-> 0, negotiatedSeq |-> 0, pendingOfferSeq |-> -1,
     requested   |-> FALSE, toReplace |-> {},
     live        |-> 1, staged |-> NoGeneration, applied |-> NoGeneration,
     fresh       |-> 2, remote |-> NoGeneration, gathered |-> FALSE,
     ops         |-> <<>>, phase |-> "start", certs |-> FALSE,
     makingOffer |-> FALSE, srdAnswerPending |-> FALSE]

Init ==
    /\ peer = [x \in Peers |-> NewPeer]
    /\ wire = [x \in Peers |-> <<>>]
    /\ plan \in Scenarios

\* The operation at the head of the chain has only microtasks to wait for.
Busy(p) == p.ops # <<>> /\ p.phase = "start"

-----------------------------------------------------------------------------
(* NegotiationNeeded *)

schedule(p) ==
    IF p.flag \/ p.scheduled \/ p.sig # "stable"
    THEN [p EXCEPT !.recheck = TRUE]
    ELSE [p EXCEPT !.recheck = FALSE, !.scheduled = TRUE]

change(p) == schedule([p EXCEPT !.changeSeq = @ + 1])

commitPendingOffer(p) ==
    IF p.pendingOfferSeq = -1 THEN p
    ELSE [p EXCEPT !.negotiatedSeq = Max({@, p.pendingOfferSeq}), !.pendingOfferSeq = -1]

\* The application's handler calls setLocalDescription() at once.
fire(x) ==
    LET p == peer[x] IN
    /\ p.scheduled /\ ~Busy(p)
    /\ peer' = [peer EXCEPT ![x] =
          LET q == [p EXCEPT !.scheduled = FALSE] IN
          IF p.negotiatedSeq >= p.changeSeq THEN q
          ELSE IF p.sig # "stable" THEN [q EXCEPT !.recheck = TRUE]
          ELSE [q EXCEPT !.flag = TRUE, !.makingOffer = TRUE,
                         !.ops = Append(@, [do |-> "setLocal", by |-> "needed",
                                            desc |-> NoDescription])]]
    /\ UNCHANGED <<wire, plan>>

-----------------------------------------------------------------------------
(* What the application changes. *)

NextId(p) == 1 + Max({0} \union {p.tr[i].id : i \in DOMAIN p.tr})

addTransceiver(x) ==
    /\ plan[x].adds > 0 /\ ~Busy(peer[x])
    /\ plan' = [plan EXCEPT ![x].adds = @ - 1]
    /\ peer' = [peer EXCEPT ![x] =
          change([@ EXCEPT !.tr = Append(@, [id |-> NextId(peer[x]), mid |-> NoMid])])]
    /\ UNCHANGED wire

Ufrags(p) == {d.ufrag : d \in {p.curL, p.penL} \ {NoDescription}}

\* Bound: a restart is asked for once there is a session.
restartIce(x) ==
    /\ plan[x].restarts > 0 /\ ~Busy(peer[x])
    /\ peer[x].curL # NoDescription
    /\ plan' = [plan EXCEPT ![x].restarts = @ - 1]
    /\ peer' = [peer EXCEPT ![x] =
          change([@ EXCEPT !.requested = TRUE, !.toReplace = Ufrags(peer[x])])]
    /\ UNCHANGED wire

settleRestart(p) ==
    IF p.requested /\ p.curL.ufrag \notin p.toReplace
    THEN [p EXCEPT !.requested = FALSE, !.toReplace = {}] ELSE p

-----------------------------------------------------------------------------
(* Generations of the ICE transport. *)

stageLocalRestart(p) ==
    [p EXCEPT !.staged = p.fresh, !.fresh = @ + 1]

rollbackLocalRestart(p) ==
    [p EXCEPT !.staged = NoGeneration, !.applied = NoGeneration]

discardUnappliedLocalRestart(p) ==
    IF p.staged = NoGeneration THEN p ELSE [p EXCEPT !.staged = p.applied]

\* An offer restarts ICE while a request stands; it repeats the generation
\* of the offer it replaces unless that one is to be replaced too.
stageForOffer(p) ==
    IF ~p.requested THEN discardUnappliedLocalRestart(p)
    ELSE IF ~p.gathered \/ p.remote = NoGeneration THEN rollbackLocalRestart(p)
    ELSE IF p.applied # NoGeneration /\ p.applied \notin p.toReplace
    THEN [p EXCEPT !.staged = p.applied]
    ELSE stageLocalRestart(p)

\* Mutant: an answer never stages a generation of its own.
stageForAnswerNever(p) == rollbackLocalRestart(p)

\* An answer restarts ICE when the offer comes with a new generation.
stageForAnswer(p) ==
    IF p.curR = NoDescription THEN p
    ELSE IF p.gathered /\ p.remote # NoGeneration /\ p.penR.ufrag # p.remote
    THEN stageLocalRestart(p) ELSE rollbackLocalRestart(p)

Described(p) == IF p.staged # NoGeneration THEN p.staged ELSE p.live

\* An answer switches to the staged generation and waits for its gathering
\* before it goes on.
commitRestart(p) ==
    [rollbackLocalRestart(p) EXCEPT !.live = p.staged, !.remote = NoGeneration,
                                    !.phase = "commit"]

\* Remote credentials that change outside a staged restart restart the
\* checks, with new local credentials unless a local offer fixed them.
setRemoteParams(p, ufrag, keepLocalCredentials) ==
    IF p.remote \in {NoGeneration, ufrag} \/ keepLocalCredentials
    THEN [p EXCEPT !.remote = ufrag]
    ELSE change([p EXCEPT !.remote = ufrag, !.live = p.fresh, !.fresh = @ + 1,
                          !.gathered = FALSE])

-----------------------------------------------------------------------------
(* NegotiationTransaction *)

Ids(trs) == {trs[i].id : i \in DOMAIN trs}
Baseline(p, id) == CHOOSE t \in ToSet(p.baseline) : t.id = id

begin(p) == IF p.open THEN p ELSE [p EXCEPT !.open = TRUE, !.baseline = p.tr]

\* Back to the baseline.  Transceivers the proposal created go, but for
\* those the replacing offer describes again; those the application added
\* lose the MID the proposal gave them.
restoreState(p, next) ==
    LET carried(t) == t.id \notin p.created \/ t.mid \in ToSet(next)
        restored(t) == IF t.id \in Ids(p.baseline) THEN Baseline(p, t.id)
                       ELSE IF t.id \in p.created THEN t
                       ELSE [t EXCEPT !.mid = NoMid]
        kept == SelectSeq(p.tr, carried)
    IN [p EXCEPT !.tr = [i \in DOMAIN kept |-> restored(kept[i])],
                 !.created = @ \cap Ids(kept)]

cleanup(p) == [p EXCEPT !.open = FALSE, !.baseline = <<>>, !.created = {}]

-----------------------------------------------------------------------------
(* SDPManager *)

allocateMid(used) == Min((0 .. Cardinality(used)) \ used)

\* MIDs for the transceivers that have none, in their order.
AssignMids(p) ==
    FoldLeft(LAMBDA q, i :
                IF q.tr[i].mid # NoMid THEN q
                ELSE LET mid == allocateMid(q.seen)
                     IN [q EXCEPT !.tr[i].mid = mid, !.seen = @ \union {mid}],
             p, [i \in DOMAIN p.tr |-> i])

\* Mutant: new m-lines come first.
buildOfferSdpNewFirst(p) ==
    LET new == SelectSeq(p.tr, LAMBDA t : t.mid \notin ToSet(p.curL.mids))
    IN [type |-> "offer", ufrag |-> Described(p),
        mids |-> [i \in DOMAIN new |-> new[i].mid] \o p.curL.mids]

\* The m-lines of the session keep their places, the others follow.
buildOfferSdp(p) ==
    LET new == SelectSeq(p.tr, LAMBDA t : t.mid \notin ToSet(p.curL.mids))
    IN [type |-> "offer", ufrag |-> Described(p),
        mids |-> p.curL.mids \o [i \in DOMAIN new |-> new[i].mid]]

buildAnswerSdp(p) == [type |-> "answer", ufrag |-> Described(p), mids |-> p.penR.mids]

\* parseSdp of a remote description: the transition, the m-lines of the
\* session and, for an answer, the m-lines of the offer.
Valid(p, d) ==
    /\ IF d.type = "offer" THEN p.sig \in {"stable", "have-remote-offer", "have-local-offer"}
       ELSE p.sig = "have-local-offer" /\ IsPrefix(d.mids, p.penL.mids)
    /\ IsPrefix(p.curR.mids, d.mids)

-----------------------------------------------------------------------------
(* RemoteMediaApplication: each m-line of an offer takes the transceiver   *)
(* of its MID, else one without MID, else a new one.                       *)

Associate(p, mid) ==
    LET free == SelectInSeq(p.tr, LAMBDA t : t.mid = NoMid)
        id == NextId(p)
    IN IF mid \in {p.tr[i].mid : i \in DOMAIN p.tr} THEN p
       ELSE IF free > 0 THEN [p EXCEPT !.tr[free].mid = mid]
       ELSE [p EXCEPT !.tr = Append(@, [id |-> id, mid |-> mid]),
                      !.created = @ \union {id}]

associate(p, d) == FoldLeft(Associate, p, d.mids)

-----------------------------------------------------------------------------
(* The operations. *)

\* An operation that ends is followed by the application's continuation,
\* then by the next operation.
Ends(p) == [p EXCEPT !.ops = Tail(@), !.phase = "start"]

Rescheduled(p) == IF p.recheck THEN schedule(p) ELSE p

\* Mutant: the current description hides the pending one.
LocalDescriptionCurrent(p) == IF p.curL # NoDescription THEN p.curL ELSE p.penL

LocalDescription(p) == IF p.penL # NoDescription THEN p.penL ELSE p.curL

\* The rest of setLocalDescription behind the gathering, and the handler
\* that called it: what is sent is the local description of that moment.
FinishLocal(p) ==
    LET q == IF LocalDescription(p).type = "answer" /\ p.sig = "stable" THEN settleRestart(p) ELSE p
        r == Ends(Rescheduled(q))
    IN IF p.ops[1].by = "needed" THEN [r EXCEPT !.makingOffer = FALSE] ELSE r

\* Gathering waits for the sockets of a transport that has none yet.
Gather(p) == IF p.gathered THEN FinishLocal(p) ELSE [p EXCEPT !.phase = "gather"]

setLocalOffer(p) ==
    LET o == AssignMids(stageForOffer(p))
        d == buildOfferSdp(o)
        b == IF p.sig = "have-local-offer" THEN p ELSE begin(p)
    IN [o EXCEPT !.open = TRUE, !.baseline = b.baseline, !.penL = d,
                 !.applied = o.staged, !.pendingOfferSeq = p.changeSeq,
                 !.sig = "have-local-offer"]

\* Mutant: the MIDs of the session are not kept as used.
commitAnswerForgetsMids(p) ==
    LET d == buildAnswerSdp(p)
        a == IF p.curR # NoDescription THEN setRemoteParams(p, p.penR.ufrag, FALSE) ELSE p
    IN cleanup([a EXCEPT !.curL = d, !.curR = p.penR, !.penL = NoDescription,
                         !.penR = NoDescription, !.sig = "stable"])

commitAnswer(p) ==
    LET d == buildAnswerSdp(p)
        a == IF p.curR # NoDescription THEN setRemoteParams(p, p.penR.ufrag, FALSE) ELSE p
    IN cleanup([a EXCEPT !.curL = d, !.curR = p.penR, !.penL = NoDescription,
                         !.penR = NoDescription, !.sig = "stable",
                         !.seen = @ \union ToSet(d.mids)])

Sends(x, p) == [wire EXCEPT ![Other(x)] = Append(@, LocalDescription(p))]

\* The first description waits for the certificate.
setLocalDescription(x) ==
    LET p == peer[x]
        ready == p.phase = "certs" \/ (p.phase = "start" /\ p.certs)
        Becomes(q) == /\ peer' = [peer EXCEPT ![x] = Gather(q)]
                      /\ wire' = IF q.gathered THEN Sends(x, q) ELSE wire
    IN /\ p.ops # <<>> /\ p.ops[1].do = "setLocal"
       /\ \/ /\ p.phase = "start" /\ ~p.certs
             /\ peer' = [peer EXCEPT ![x] = [p EXCEPT !.certs = TRUE, !.phase = "certs"]]
             /\ UNCHANGED wire
          \/ ready /\ p.sig \in {"stable", "have-local-offer"} /\ Becomes(setLocalOffer(p))
          \/ /\ ready /\ p.sig = "have-remote-offer"
             /\ LET a == stageForAnswer(p) IN
                IF a.staged = NoGeneration THEN Becomes(commitAnswer(a))
                ELSE peer' = [peer EXCEPT ![x] = commitRestart(a)] /\ UNCHANGED wire
          \/ p.phase = "commit" /\ Becomes(commitAnswer(p))
          \/ p.phase = "gather"
             /\ LET q == FinishLocal([p EXCEPT !.gathered = TRUE]) IN
                peer' = [peer EXCEPT ![x] = q] /\ wire' = Sends(x, q)
       /\ UNCHANGED plan

\* The application's handler goes on with an answer.
Answers(p) ==
    [p EXCEPT !.srdAnswerPending = FALSE,
              !.ops = Append(@, [do |-> "setLocal", by |-> "answer", desc |-> NoDescription])]

\* The rest of setRemoteDescription, and the handler that called it, which
\* answers an offer.
FinishRemote(p, answer) ==
    LET c == IF answer THEN settleRestart(commitPendingOffer([p EXCEPT !.flag = FALSE]))
             ELSE [p EXCEPT !.flag = FALSE]
        r == Ends(Rescheduled(c))
    IN IF answer THEN [r EXCEPT !.srdAnswerPending = FALSE] ELSE Answers(r)

setRemoteOffer(p, d) ==
    LET replaced == IF p.sig = "have-remote-offer"
                    THEN rollbackLocalRestart(restoreState(p, d.mids)) ELSE begin(p)
        placed == associate(replaced, d)
        reached == IF p.curR = NoDescription
                   THEN setRemoteParams(placed, d.ufrag, FALSE) ELSE placed
    IN [reached EXCEPT !.penR = d, !.sig = "have-remote-offer"]

setRemoteAnswer(p, d) ==
    LET c == setRemoteParams(p, d.ufrag, TRUE)
    IN cleanup([c EXCEPT !.curL = p.penL, !.curR = d, !.penL = NoDescription,
                         !.penR = NoDescription, !.sig = "stable"])

\* Without a session, a transport that has gathered or was given remote
\* credentials is closed, and a new one takes its place.
cleanupInitialProvisional(p) ==
    IF p.curL = NoDescription /\ p.curR = NoDescription /\ (p.gathered \/ p.remote # NoGeneration)
    THEN [p EXCEPT !.live = p.fresh, !.fresh = @ + 1, !.remote = NoGeneration, !.gathered = FALSE]
    ELSE p

\* The transaction's baseline, and the transport of a session.
undoOffer(p) ==
    cleanupInitialProvisional(cleanup(rollbackLocalRestart(restoreState(p, <<>>))))

\* Mutant: the rolled back offer stays the pending local description.
implicitRollbackKeepsOffer(p) ==
    [undoOffer(p) EXCEPT !.pendingOfferSeq = -1, !.recheck = TRUE,
                         !.sig = "stable", !.phase = "rolled"]

\* Mutant: what the rolled back offer carried is not looked at again.
implicitRollbackForgets(p) ==
    [undoOffer(p) EXCEPT !.penL = NoDescription, !.pendingOfferSeq = -1,
                         !.sig = "stable", !.phase = "rolled"]

\* A remote offer rolls a local one back and yields before it applies.
implicitRollback(p) ==
    [undoOffer(p) EXCEPT !.penL = NoDescription, !.pendingOfferSeq = -1, !.recheck = TRUE,
                         !.sig = "stable", !.phase = "rolled"]

\* A pending remote offer that comes again is done; what parseSdp refuses
\* leaves everything as it is.
takeRemote(p, d) ==
    LET c == discardUnappliedLocalRestart(p) IN
    CASE d.type = "offer" /\ d = p.penR -> Answers(Ends(p))
      [] d # p.penR /\ ~Valid(p, d) -> Ends(p)
      [] d # p.penR /\ Valid(p, d) /\ d.type = "offer" ->
            IF p.sig = "have-local-offer" THEN implicitRollback(p)
            ELSE FinishRemote(setRemoteOffer(p, d), FALSE)
      [] Valid(p, d) /\ d.type = "answer" ->
            IF c.staged = NoGeneration THEN FinishRemote(setRemoteAnswer(c, d), TRUE)
            ELSE commitRestart(c)

setRemoteDescription(x) ==
    LET p == peer[x]
        d == p.ops[1].desc
        Is(q) == peer' = [peer EXCEPT ![x] = q]
    IN /\ p.ops # <<>> /\ p.ops[1].do = "setRemote"
       /\ \/ p.phase = "start"  /\ Is(takeRemote(p, d))
          \/ p.phase = "rolled" /\ Is(FinishRemote(setRemoteOffer(p, d), FALSE))
          \/ p.phase = "commit" /\ Is(FinishRemote(setRemoteAnswer(p, d), TRUE))
       /\ UNCHANGED <<wire, plan>>

-----------------------------------------------------------------------------
(* The application's handler of signalling messages. *)

handleSignalingMessage(x) ==
    LET p == peer[x]
        d == Head(wire[x])
        isStable == p.sig = "stable" \/ (p.sig = "have-local-offer" /\ p.srdAnswerPending)
        ignoreOffer == d.type = "offer" /\ x # Polite /\ (p.makingOffer \/ ~isStable)
    IN /\ wire[x] # <<>> /\ ~Busy(p)
       /\ wire' = [wire EXCEPT ![x] = Tail(@)]
       /\ peer' = IF ignoreOffer THEN peer
                  ELSE [peer EXCEPT ![x] =
                          [p EXCEPT !.srdAnswerPending = d.type = "answer",
                                    !.ops = Append(@, [do |-> "setRemote", by |-> "message",
                                                       desc |-> d])]]
       /\ UNCHANGED plan

-----------------------------------------------------------------------------
\* What the event loop of a peer and the signalling channel do by
\* themselves, and whether there is something of it to do.
Progress(x) ==
    fire(x) \/ handleSignalingMessage(x) \/ setLocalDescription(x) \/ setRemoteDescription(x)

Due(x) == peer[x].ops # <<>> \/ peer[x].scheduled \/ wire[x] # <<>>

\* The applications may leave it at that.
Rest == (\A x \in Peers : ~Due(x)) /\ UNCHANGED vars

Next ==
    \/ \E x \in Peers : addTransceiver(x) \/ restartIce(x) \/ Progress(x)
    \/ Rest

Spec == Init /\ [][Next]_vars

\* WF_vars(Progress(x)) with its enabling condition written out.  The
\* application need never change anything.
FairSpec ==
    /\ Spec
    /\ \A x \in Peers : []<>~Due(x) \/ []<><<Progress(x)>>_vars

-----------------------------------------------------------------------------
Quiet == \A x \in Peers : ~Due(x)

Descriptions == [type : {"none", "offer", "answer"}, mids : Seq(Nat), ufrag : Nat]

PeerTypeOK(p) ==
    /\ p.sig \in {"stable", "have-local-offer", "have-remote-offer"}
    /\ p.tr \in Seq([id : Nat, mid : Nat \union {NoMid}])
    /\ {p.curL, p.curR, p.penL, p.penR} \subseteq Descriptions
    /\ {p.live, p.staged, p.applied} \subseteq 0 .. p.fresh - 1 /\ p.remote \in Nat
    /\ p.negotiatedSeq <= p.changeSeq /\ p.pendingOfferSeq \in -1 .. p.changeSeq
    /\ p.phase \in {"start", "certs", "commit", "gather", "rolled"}
    /\ (p.sig = "stable") = (p.penL = NoDescription /\ p.penR = NoDescription)
    /\ p.open = (p.sig # "stable")

\* The signalling state, the pending descriptions and the open transaction
\* of a connection belong together, in every macrotask.
TypeOK == \A x \in Peers : PeerTypeOK(peer[x])

\* A MID names one m-line: no two transceivers of a connection hold the
\* same one and no description repeats one, whatever MIDs offers that were
\* rolled back have taken (allocateMid, restoreNegotiationState, associate).
MidsUnique ==
    \A x \in Peers :
        /\ \A i, j \in DOMAIN peer[x].tr :
              i # j /\ peer[x].tr[i].mid = peer[x].tr[j].mid => peer[x].tr[i].mid = NoMid
        /\ \A d \in {peer[x].penL, peer[x].penR, peer[x].curL, peer[x].curR} : IsInjective(d.mids)

\* Every description the application takes in is one parseSdp and the
\* validator accept in the state the connection has by then, and an answer
\* describes the very m-lines of the offer that is pending: neither glare
\* nor the implicit rollback lets one meet another offer.
DescriptionsFit ==
    \A x \in Peers :
        LET p == peer[x] IN
        p.ops # <<>> /\ p.ops[1].do = "setRemote" /\ p.phase = "start" =>
            LET d == p.ops[1].desc IN
            Valid(p, d) /\ (d.type = "answer" => d.mids = p.penL.mids)

\* The ICE transport uses the credentials of the session: outside the
\* switch an answer waits for, the live local generation is the one the
\* current local description carries and the remote one that of the current
\* remote description, so a restart that was staged, rolled back and staged
\* again never reaches the wire without its description.
LiveIsCurrent ==
    \A x \in Peers :
        LET p == peer[x] IN
        p.curL # NoDescription /\ p.phase # "commit"
            => p.live = p.curL.ufrag /\ p.remote = p.curR.ufrag

\* When nothing is left to do, both connections are stable and hold the
\* same session, each one's local description being the other's remote one.
Agreement ==
    Quiet => \A x \in Peers : peer[x].sig = "stable" /\ peer[x].curL = peer[Other(x)].curR

\* Every change is negotiated in the end, and then the connections are at
\* rest: every transceiver of either application gets an m-line of the
\* session and no restartIce() stands open, also those made while an offer
\* was pending or carried by an offer that glare rolled back (recheck,
\* changeSeq, settle); offers do not go back and forth for ever.
ChangesNegotiated ==
    <>[](Quiet /\ \A x \in Peers :
            /\ {t.mid : t \in ToSet(peer[x].tr)} = ToSet(peer[x].curL.mids)
            /\ ~peer[x].requested)

\* The session stays sound in every macrotask.
SessionSound == TypeOK /\ MidsUnique /\ DescriptionsFit

\* The peers fit each other, and each transport the session it belongs to.
PeersAgree == LiveIsCurrent /\ Agreement
=============================================================================
