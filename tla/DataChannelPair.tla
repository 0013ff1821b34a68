--------------------------- MODULE DataChannelPair ---------------------------
(***************************************************************************)
(* Two endpoints whose applications open, use and close data channels over *)
(* one association.  DATA arrives once, in any order; RE-CONFIG packets    *)
(* are lost, delayed and overtaken; either end may lose the association.   *)
(***************************************************************************)
EXTENDS DataChannels

CONSTANT Scenarios  \* what the applications and the network do

Peers == {"offerer", "answerer"}  \* the offerer controls ICE: SCTP client
Other(p) == IF p = "offerer" THEN "answerer" ELSE "offerer"

(***************************************************************************)
(* A scenario: for each channel who creates it, with which identifier and  *)
(* whether negotiated; the bounds on RE-CONFIG packets lost, on expiries   *)
(* of the reset timer with an answer under way, on user messages, calls of *)
(* close() and associations lost; and three habits: eager applications     *)
(* also close channels that are not open at both ends yet, reusing ones    *)
(* open channels when others have been closed, and slowSends lets packets  *)
(* overtake the settling of a send.                                        *)
(***************************************************************************)
Plan == [by : SUBSET Peers, negotiated : BOOLEAN, id : Ids \cup {NoId}]
Budget == [losses : Nat, lateTimers : Nat, sends : Nat, closes : Nat, drops : Nat]
ASSUME ScenarioAssumption ==
    \A sc \in Scenarios :
        /\ sc.plan \in [Channels -> Plan]
        /\ \A c \in Channels : sc.plan[c].negotiated => sc.plan[c].id # NoId
        /\ sc.budget \in Budget
        /\ {sc.eager, sc.reuse, sc.slowSends} \subseteq BOOLEAN

VARIABLES
    scenario,   \* the one of Scenarios that is played
    ep,         \* the endpoints
    data,       \* DATA on its way to each endpoint
    reconfigs,  \* RE-CONFIG on its way to each endpoint
    closed,     \* the channels close() was called on, by endpoint
    budget      \* what is left of the scenario's bounds

vars == <<scenario, ep, data, reconfigs, closed, budget>>

Init ==
    /\ scenario \in Scenarios
    /\ ep = [p \in Peers |-> NewEndpoint(p = "answerer")]
    /\ data = [p \in Peers |-> {}]
    /\ reconfigs = [p \in Peers |-> {}]
    /\ closed = [p \in Peers |-> {}]
    /\ budget = scenario.budget

\* The endpoint p goes to e; what it sends enters the network.  DATA in in and
\* RE-CONFIG in re have reached it.
Step(p, e, in, re) ==
    /\ ep' = [ep EXCEPT ![p] = [e EXCEPT !.sent = {}, !.reconfigs = {}]]
    /\ data' = [data EXCEPT ![p] = @ \ in, ![Other(p)] = @ \cup e.sent]
    /\ reconfigs' = [reconfigs EXCEPT ![p] = @ \ re, ![Other(p)] = @ \cup e.reconfigs]
    /\ UNCHANGED scenario
LocalStep(p, e) == Step(p, e, {}, {})

Spend(what) == budget[what] > 0 /\ budget' = [budget EXCEPT ![what] = @ - 1]

Establish(p) ==
    /\ ep[p].associationState = "new"
    /\ p = "offerer" => ep["answerer"].associationState # "new"
    /\ LocalStep(p, Connected(ep[p]))
    /\ UNCHANGED <<closed, budget>>

Create(p, c) ==
    LET plan == scenario.plan[c] IN
    /\ p \in plan.by
    /\ ep[p].readyState[c] = "none"
    /\ ep[p].associationState # "closed"
    /\ scenario.reuse \/ \A q \in Peers : closed[q] = {}
    /\ IdIsFree(ep[p], plan.id)
    /\ LocalStep(p, IF plan.negotiated THEN DataChannelAddNegotiated(ep[p], c, plan.id)
                    ELSE DataChannelOpen(ep[p], c, plan.id))
    /\ UNCHANGED <<closed, budget>>

SendMessage(p, c) ==
    /\ ep[p].readyState[c] \in {"connecting", "open"}
    /\ LocalStep(p, Post(ep[p], c, "data"))
    /\ Spend("sends")
    /\ UNCHANGED closed

Close(p, c) ==
    /\ ep[p].readyState[c] \in {"connecting", "open"}
    /\ \/ scenario.eager
       \/ /\ ep[p].associationState = "established"
          /\ \A q \in Peers : ep[q].readyState[c] \notin {"none", "connecting"}
    /\ LocalStep(p, DataChannelClose(ep[p], c))
    /\ closed' = [closed EXCEPT ![p] = @ \cup {c}]
    /\ Spend("closes")

\* ABORT received, the DTLS transport closed, or the association given up.
LoseAssociation(p) ==
    /\ ep[p].associationState = "established"
    /\ LocalStep(p, AssociationClosed(ep[p]))
    /\ Spend("drops")
    /\ UNCHANGED closed

Settled(p) == scenario.slowSends \/ ep[p].awaiting = <<>>

ArriveData(p, chunk) ==
    /\ Settled(p)
    /\ Step(p, ReceiveDataChunk(ep[p], chunk), {chunk}, {})
    /\ UNCHANGED <<closed, budget>>

ArriveReconfig(p, packet) ==
    /\ Settled(p)
    /\ Step(p, ReceiveReconfig(ep[p], packet), {}, {packet})
    /\ UNCHANGED <<closed, budget>>

LoseReconfig(p, packet) ==
    /\ reconfigs' = [reconfigs EXCEPT ![p] = @ \ {packet}]
    /\ Spend("losses")
    /\ UNCHANGED <<scenario, ep, data, closed>>

SendSettles(p) ==
    /\ \E k \in DOMAIN ep[p].awaiting : LocalStep(p, Continue(ep[p], k))
    /\ UNCHANGED <<closed, budget>>

\* The timer runs out when the answer was lost or, within the bound, when it
\* is only late.
Quiet == \A p \in Peers : reconfigs[p] = {} /\ ep[p].awaiting = <<>>
TimerIsLate == IF Quiet THEN UNCHANGED budget ELSE Spend("lateTimers")
ReconfigTimer(p) ==
    /\ ep[p].timerReconfig = "armed"
    /\ LocalStep(p, ReconfigExpired([ep[p] EXCEPT !.timerReconfig = "spent"]))
    /\ TimerIsLate
    /\ UNCHANGED closed
OrphanTimer(p) ==
    /\ ep[p].orphanTimers > 0
    /\ ep[p].associationState # "closed"
    /\ LocalStep(p, ReconfigExpired([ep[p] EXCEPT !.orphanTimers = @ - 1]))
    /\ TimerIsLate
    /\ UNCHANGED closed

Arrival(p) ==
    \/ \E chunk \in data[p] : ArriveData(p, chunk)
    \/ \E packet \in reconfigs[p] : ArriveReconfig(p, packet)
Next ==
    \E p \in Peers :
        \/ Establish(p) \/ LoseAssociation(p)
        \/ \E c \in Channels : Create(p, c)
        \/ \E c \in Channels : SendMessage(p, c)
        \/ \E c \in Channels : Close(p, c)
        \/ Arrival(p) \/ SendSettles(p)
        \/ ReconfigTimer(p) \/ OrphanTimer(p)
        \/ \E packet \in reconfigs[p] : LoseReconfig(p, packet)

Spec == Init /\ [][Next]_vars

(***************************************************************************)
(* The handshake completes, what is not lost arrives, sends settle and an  *)
(* armed timer runs out.  Each conjunct is the weak fairness of an action, *)
(* with its guard for ENABLED.                                             *)
(***************************************************************************)
FairSpec ==
    /\ Spec
    /\ \A p \in Peers :
        /\ []<>(ep[p].associationState # "new") \/ []<><<Establish(p)>>_vars
        /\ []<>(data[p] \cup reconfigs[p] = {} \/ ~Settled(p)) \/ []<><<Arrival(p)>>_vars
        /\ []<>(ep[p].awaiting = <<>>) \/ []<><<SendSettles(p)>>_vars
        /\ []<>~(Quiet /\ ep[p].timerReconfig = "armed") \/ []<><<ReconfigTimer(p)>>_vars

-----------------------------------------------------------------------------

\* The endpoints' state has its type.
TypeOK ==
    \A p \in Peers :
        /\ ep[p].associationState \in {"new", "established", "closed"}
        /\ ep[p].readyState \in [Channels -> ReadyStates]
        /\ ep[p].id \in [Channels -> Ids \cup {NoId}]
        /\ ep[p].dataChannels \in [Ids -> Channels \cup {NoChannel}]
        /\ \A i \in DOMAIN ep[p].reconfigQueue : ep[p].reconfigQueue[i] \in Ids
        /\ ep[p].reconfigRequest.streams \subseteq Ids
        /\ ep[p].timerReconfig \in {"off", "armed", "spent"}
        /\ ep[p].timerReconfigFailures \in 0 .. MaxReconfigRetrans

\* The table of channels and the channels agree: an entry is a channel that
\* is not closed and has this identifier, no two channels share a stream, and
\* an open or closing channel is in the table, so that messages reach it.
TableAgrees ==
    \A p \in Peers :
        /\ \A i \in Registered(ep[p]) :
             /\ ep[p].id[ep[p].dataChannels[i]] = i
             /\ ep[p].readyState[ep[p].dataChannels[i]] \in {"connecting", "open", "closing"}
        /\ \A c \in Channels : ep[p].readyState[c] \in {"open", "closing"}
             => ep[p].id[c] \in Registered(ep[p]) /\ ep[p].dataChannels[ep[p].id[c]] = c

\* A DATA_CHANNEL_ACK finds its channel; otherwise datachannelReceive throws
\* and nothing catches it.
AckFindsChannel == \A p \in Peers : ~ep[p].threw

\* A message is received on the channel it was sent on.
NoCrossTalk == \A p \in Peers : \A m \in ep[p].messages : m.from = m.on

\* A channel is closed only when one of the applications closed it or the
\* association was lost: no reset of another channel hits it.
ClosedOnPurpose ==
    \A p \in Peers : \A c \in Channels :
        ep[p].readyState[c] = "closed"
          => c \in closed[p] \cup closed[Other(p)] \/ ep[p].associationState = "closed"

\* An unanswered reset request is timed, so that losing it is noticed.
ResetIsTimed ==
    \A p \in Peers :
        /\ ep[p].reconfigRequest # NoRequest
        /\ ep[p].awaiting = <<>>
        /\ ep[p].associationState = "established"
        => ep[p].timerReconfig = "armed" \/ ep[p].orphanTimers > 0

\* readyState only advances: a channel is not open again once it is closing.
Rank == [none |-> 0, connecting |-> 1, open |-> 2, closing |-> 3, closed |-> 4]
ReadyStateAdvances ==
    [][\A p \in Peers : \A c \in Channels :
         Rank[ep[p].readyState[c]] <= Rank[ep[p]'.readyState[c]]]_vars

Up == \A p \in Peers : ep[p].associationState = "established"

\* close() is carried out at both ends: in the end the channel is closed
\* here, and at the other end if the association lasts.
CloseCompleted ==
    \A p \in Peers : \A c \in closed[p] :
        /\ ep[p].readyState[c] = "closed"
        /\ Up => ep[Other(p)].readyState[c] = "closed"

\* No channel is left connecting: it opens, unless it is closed or the
\* association is lost.
Opened ==
    Up => \A p \in Peers : \A c \in Channels :
              ep[p].readyState[c] # "connecting" \/ c \in closed[p] \cup closed[Other(p)]

\* Every open and every close comes to its end.
ChannelsSettle == <>[](CloseCompleted /\ Opened)

\* The endpoints agree with themselves: table, handlers and timers.
ChannelsConsistent == TypeOK /\ TableAgrees /\ AckFindsChannel /\ ResetIsTimed

\* What is done on one channel never reaches another one.
ChannelsSeparate == NoCrossTalk /\ ClosedOnPurpose
=============================================================================
