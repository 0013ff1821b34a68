----------------------------- MODULE IceAgents -----------------------------
(***************************************************************************)
(* Two ICE agents (packages/ice/src/ice.ts, class Connection) that run     *)
(* connectivity checks against each other over an unreliable network.      *)
(* Each agent has one socket per path; path p joins socket p of one agent  *)
(* with socket p of the other, so a candidate pair is named by its path.   *)
(* Path 1 has the highest pair priority, for either role.                  *)
(*                                                                         *)
(* A pair is created WAITING by every caller of its constructor, so FROZEN *)
(* pairs, and the code that unfreezes them, never occur.  Left out: mDNS   *)
(* candidates, renomination and provisional generations, TCP connection    *)
(* pruning, and 401 answers (this code never sends one).                   *)
(*                                                                         *)
(* connect() of an earlier generation that was still scheduling checks     *)
(* when the agent restarted goes on doing so; its state is the field old.  *)
(***************************************************************************)
EXTENDS Naturals, FiniteSets, Sequences, SequencesExt

CONSTANTS
    NPaths,       \* number of sockets of each agent
    Scenarios,    \* the settings a behaviour may start with (see Init)
    MaxRequests   \* bound on the requests an agent sends on one path

Paths  == 1 .. NPaths
Agents == {"A", "B"}          \* A has the larger tie breaker

ASSUME IceAssumption ==
    /\ NPaths \in Nat \ {0} /\ MaxRequests \in Nat \ {0}
    /\ Scenarios \subseteq
          [lite : SUBSET Agents, tcp : BOOLEAN, timeouts : Nat, losses : Nat,
           restarters : SUBSET Agents, closers : SUBSET Agents, consents : Nat,
           trickle : BOOLEAN, begun : BOOLEAN, paths : SUBSET Paths, controlling : SUBSET Agents]

VARIABLES
    agent,    \* the two Connection objects
    net,      \* STUN requests in flight
    answers,  \* STUN responses in flight
    env       \* scenario: lite, tcp, and what may still go wrong

vars == <<agent, net, answers, env>>

Peer(a) == IF a = "A" THEN "B" ELSE "A"
None   == 0
NoRequest == [n |-> 0]

PairStates == {"none", "WAITING", "IN_PROGRESS", "SUCCEEDED", "FAILED"}
NewPair == [st |-> "none", nom |-> FALSE, rnom |-> FALSE]
COMPLETED == "ICE_COMPLETED"
FAILED    == "ICE_FAILED"

----------------------------------------------------------------------------
(* Helpers on the record of one agent                                      *)

InList(s, p) == s.pair[p].st # "none"
CheckList(s) == {p \in Paths : InList(s, p)}
SetPair(s, p, st) == [s EXCEPT !.pair[p].st = st]
Put(s, res) == [s EXCEPT !.queue = Append(@, res)]

\* An agent's request on path p; USE-CANDIDATE goes only with ICE-CONTROLLING.
buildRequest(s, a, p, kind, nominate) ==
    [n |-> s.sent + 1, from |-> a, path |-> p, kind |-> kind, ctl |-> s.ctl,
     uc |-> nominate /\ s.ctl, gen |-> s.gen]

SendOn(s, a, p, kind, nominate) ==
    [s EXCEPT !.tx[p] = buildRequest(s, a, p, kind, nominate), !.sent = @ + 1]

\* Mutant: aggressive nomination over TCP too.
checkStartAggressive(s, a, p) ==
    SendOn(SetPair(s, p, "IN_PROGRESS"), a, p, "check",
           s.ctl /\ Peer(a) \notin env.lite)

\* Aggressive nomination, except towards an ICE-lite agent and over TCP.
checkStart(s, a, p) ==
    SendOn(SetPair(s, p, "IN_PROGRESS"), a, p, "check",
           s.ctl /\ Peer(a) \notin env.lite /\ ~env.tcp)

stopConsentLifecycle(s) ==
    [s EXCEPT !.fresh = FALSE, !.timer = FALSE, !.con = NoRequest]

queryConsent(s, a) ==
    IF a \in env.lite THEN s
    ELSE [stopConsentLifecycle(s) EXCEPT !.fresh = TRUE, !.timer = TRUE]

nominateTcpPairIfReady(s, a) ==
    LET open  == {p \in CheckList(s) : s.pair[p].st # "FAILED"}
        first == CHOOSE p \in open : \A q \in open : p <= q
    IN  IF /\ env.tcp /\ s.ctl /\ Peer(a) \notin env.lite
           /\ s.sel = None /\ ~s.nominating
           /\ open # {} /\ s.pair[first].st = "SUCCEEDED"
        THEN SendOn([s EXCEPT !.nominating = TRUE], a, first, "tcpnom", TRUE)
        ELSE s

\* The first nominated pair that succeeded is selected; the others end.
Select(s, a, p) ==
    LET t == [s EXCEPT !.sel = p, !.nominating = FALSE, !.fresh = TRUE]
        u == IF t.state \in {"connected", "completed"}
             THEN queryConsent(t, a) ELSE t
    IN  [u EXCEPT !.pair = [q \in Paths |->
            IF @[q].st = "WAITING" THEN [@[q] EXCEPT !.st = "FAILED"] ELSE @[q]]]

checkComplete(s, a, p) ==
    LET won == s.pair[p].st = "SUCCEEDED"
        t   == IF won /\ s.pair[p].nom /\ s.sel = None THEN Select(s, a, p) ELSE s
        u   == nominateTcpPairIfReady(t, a)
        settled(q) == u.pair[q].st \in {"SUCCEEDED", "FAILED"}
    IN  IF won /\ t.sel # None
        THEN IF t.done THEN t ELSE [Put(t, COMPLETED) EXCEPT !.done = TRUE]
        ELSE IF /\ ~u.nominating
                /\ \A q \in CheckList(u) : settled(q)
                /\ u.ctl \/ \A q \in Paths : u.pair[q].st # "SUCCEEDED"
                /\ ~u.done /\ u.lend /\ u.rend
             THEN Put(u, FAILED)
             ELSE u

CheckFailed(s, a, p) == checkComplete(SetPair(s, p, "FAILED"), a, p)
CheckWon(s, a, p)    == checkComplete(SetPair(s, p, "SUCCEEDED"), a, p)

\* Mutant: a nomination counts only while the pair is still being checked.
checkIncomingLate(s, a, r) ==
    LET p == r.path
        t == [s EXCEPT !.cands = @ \cup {p},
                       !.pair[p].st = IF @ = "none" THEN "WAITING" ELSE @]
        noted == r.uc /\ ~s.ctl
        u == IF t.pair[p].st \in {"WAITING", "FAILED"} THEN checkStart(t, a, p) ELSE t
    IN  IF a \in env.lite THEN t ELSE [u EXCEPT !.pair[p].rnom = @ \/ noted]

\* 7.2.1.3-5: learn the candidate, make the pair, check it back, note the
\* nomination.
checkIncoming(s, a, r) ==
    LET p == r.path
        t == [s EXCEPT !.cands = @ \cup {p},
                       !.pair[p].st = IF @ = "none" THEN "WAITING" ELSE @]
        noted == r.uc /\ ~s.ctl
        u == IF t.pair[p].st \in {"WAITING", "FAILED"} THEN checkStart(t, a, p) ELSE t
        v == [u EXCEPT !.pair[p].rnom = @ \/ noted]
    IN  IF a \in env.lite
        THEN IF noted
             THEN CheckWon([t EXCEPT !.pair[p].rnom = TRUE, !.pair[p].nom = TRUE], a, p)
             ELSE t
        ELSE IF noted /\ v.pair[p].st = "SUCCEEDED"
             THEN checkComplete([v EXCEPT !.pair[p].nom = TRUE], a, p)
             ELSE v

\* Mutant: only a controlling agent changes its role.
switchRoleDown(s, a, ctl) == [s EXCEPT !.ctl = @ /\ ctl]

switchRole(s, a, ctl) == [s EXCEPT !.ctl = ctl /\ a \notin env.lite]

\* Mutant: both agents give way.
RoleConflictYield(s, a, r) ==
    CASE s.ctl /\ r.ctl   -> "yield"
      [] ~s.ctl /\ ~r.ctl -> IF a \in env.lite \/ a = "B" THEN "refuse" ELSE "claim"
      [] OTHER            -> "none"

\* 7.2.1.1: what the agent that receives r makes of the two roles.
RoleConflict(s, a, r) ==
    CASE s.ctl /\ r.ctl   -> IF a = "A" THEN "refuse" ELSE "yield"
      [] ~s.ctl /\ ~r.ctl -> IF a \in env.lite \/ a = "B" THEN "refuse" ELSE "claim"
      [] OTHER            -> "none"

\* New requests of the step from s to t.
Emitted(s, t) ==
    {t.tx[p] : p \in {q \in Paths : t.tx[q] # s.tx[q] /\ t.tx[q] # NoRequest}}

\* Agent a moves to record t: its new requests enter the network.
Becomes(a, t) ==
    /\ agent' = [agent EXCEPT ![a] = t]
    /\ net' = net \cup Emitted(agent[a], t)

CanSend(s) == s.sent < MaxRequests

----------------------------------------------------------------------------
(* Scenario and initial state: gathering is over, descriptions exchanged.  *)

FreshAgent(c) ==
    [gen |-> 0, ctl |-> c, params |-> TRUE, cands |-> {}, rend |-> FALSE,
     lend |-> TRUE, phase |-> "idle", state |-> "completed",
     pair |-> [p \in Paths |-> NewPair], tx |-> [p \in Paths |-> NoRequest],
     con |-> NoRequest, sel |-> None, nominating |-> FALSE, done |-> FALSE,
     queue |-> <<>>, early |-> <<>>, earlyDone |-> FALSE, fresh |-> FALSE,
     timer |-> FALSE, open |-> Paths, sent |-> 0, old |-> "none",
     closing |-> FALSE]

\* All remote candidates are known, with the end-of-candidates mark.
WithCandidates(s, paths) ==
    [s EXCEPT !.cands = paths, !.rend = TRUE, !.pair = [p \in Paths |->
        IF p \in paths THEN [NewPair EXCEPT !.st = "WAITING"] ELSE @[p]]]

Init == \E c \in Scenarios :
    /\ env = [lite |-> c.lite, tcp |-> c.tcp, timeouts |-> c.timeouts,
              losses |-> c.losses, restarters |-> c.restarters,
              closers |-> c.closers, consents |-> c.consents,
              trickle |-> c.trickle, used |-> c.paths, timely |-> c.timeouts = 0]
    /\ agent = [a \in Agents |->
            LET s == FreshAgent(a \in c.controlling)
                t == IF c.trickle THEN s ELSE WithCandidates(s, c.paths)
            IN  IF c.begun
                THEN [t EXCEPT !.phase = IF a \in c.lite THEN "waiting" ELSE "scheduling",
                               !.earlyDone = TRUE]
                ELSE t]
    /\ net = {} /\ answers = {}

----------------------------------------------------------------------------
(* Signalling                                                              *)

\* A candidate of the peer arrives and is paired with the local socket.
addRemoteCandidate(a, p) ==
    LET s == agent[a] IN
    /\ s.state # "closed" /\ s.params /\ ~s.rend
    /\ p \in env.used /\ p \notin s.cands
    /\ agent' = [agent EXCEPT ![a].cands = @ \cup {p},
                              ![a].pair[p].st = IF @ = "none" THEN "WAITING" ELSE @]
    /\ UNCHANGED <<net, answers, env>>

endOfCandidates(a) ==
    /\ agent[a].state # "closed" /\ agent[a].params /\ ~agent[a].rend
    /\ env.used \subseteq agent[a].cands
    /\ agent' = [agent EXCEPT ![a].rend = TRUE]
    /\ UNCHANGED <<net, answers, env>>

\* Mutant: a restart leaves the checks in flight.
NextGenerationKeepsChecks(s) ==
    [FreshAgent(s.ctl) EXCEPT !.gen = s.gen, !.lend = FALSE, !.state = "new",
        !.sent = s.sent, !.open = s.open, !.tx = s.tx]

\* A new generation: everything but the sockets and the role starts over.
NextGeneration(s) ==
    [FreshAgent(s.ctl) EXCEPT !.gen = s.gen, !.lend = FALSE, !.state = "new",
        !.sent = s.sent, !.open = s.open,
        !.old = IF "scheduling" \in {s.phase, s.old} THEN "scheduling" ELSE "none"]

\* New credentials: the generation starts over; a restarting agent offers.
restart(a) ==
    LET s == agent[a] IN
    /\ a \in env.restarters /\ s.state # "closed"
    /\ s.gen <= agent[Peer(a)].gen
    /\ agent' = [agent EXCEPT ![a] =
         [NextGeneration(s) EXCEPT !.gen = s.gen + 1, !.params = FALSE,
            !.ctl = a \notin env.lite]]
    /\ env' = [env EXCEPT !.restarters = @ \ {a}]
    /\ UNCHANGED <<net, answers>>

\* Gathering of the new generation ends (its sockets are the kept ones).
gatherCandidates(a) ==
    LET s == agent[a] IN
    /\ ~s.lend /\ s.state # "closed"
    /\ agent' = [agent EXCEPT ![a].lend = TRUE,
            ![a].state = IF @ = "new" /\ s.phase = "idle" THEN "completed" ELSE @]
    /\ UNCHANGED <<net, answers, env>>

\* The peer's description of a generation this agent has not entered, or has
\* no remote credentials for: the first is an offer, which restarts this agent
\* too and makes it the controlled one; the second is the answer.
setRemoteParams(a) ==
    LET s == agent[a]
        t == agent[Peer(a)]
        u == IF s.gen < t.gen
             THEN [NextGeneration(s) EXCEPT !.gen = t.gen, !.ctl = FALSE]
             ELSE [s EXCEPT !.params = TRUE]
    IN
    /\ s.state # "closed" /\ t.state # "closed"
    /\ s.gen < t.gen \/ (s.gen = t.gen /\ ~s.params)
    /\ agent' = [agent EXCEPT ![a] =
            IF env.trickle THEN u ELSE WithCandidates([u EXCEPT !.lend = TRUE], env.used)]
    /\ UNCHANGED <<net, answers, env>>

----------------------------------------------------------------------------
(* connect()                                                               *)

\* The early checks are handled one after the other.
replay(s, a) ==
    LET replayed[i \in 0 .. Len(s.early)] ==
            IF i = 0 THEN s ELSE checkIncoming(replayed[i - 1], a, s.early[i])
    IN  replayed[Len(s.early)]

\* Pairs are formed, early checks replayed, then checks are scheduled.
connect(a) ==
    LET s == agent[a]
        paired == [s EXCEPT !.pair = [p \in Paths |->
            IF p \in s.cands /\ @[p].st = "none"
            THEN [@[p] EXCEPT !.st = "WAITING"] ELSE @[p]]]
    IN
    /\ s.phase = "idle" /\ s.params /\ s.state # "closed"
    /\ Becomes(a, [replay(paired, a) EXCEPT !.early = <<>>, !.earlyDone = TRUE,
            !.phase = IF a \in env.lite THEN "waiting" ELSE "scheduling"])
    /\ UNCHANGED <<answers, env>>

\* The connect() calls of agent s that are at stage st.
Loops(s, st) == {f \in {"phase", "old"} : s[f] = st}
MoveLoops(s, from, to) ==
    [s EXCEPT !.phase = IF @ = from THEN to ELSE @,
              !.old   = IF @ = from THEN to ELSE @]

\* schedulingChecks: the waiting pair of the highest priority.
schedulingChecks(a) ==
    LET s == agent[a]
        waiting == {p \in Paths : s.pair[p].st = "WAITING"}
    IN
    /\ Loops(s, "scheduling") # {} /\ s.state # "closed" /\ waiting # {}
    /\ CanSend(s)
    /\ Becomes(a, checkStart(s, a, CHOOSE p \in waiting : \A q \in waiting : p <= q))
    /\ UNCHANGED <<answers, env>>

\* A scheduling loop ends: closed, or nothing waits and no candidate can come.
\* With an empty check list connect() fails at once.
scheduled(a) == \E f \in Loops(agent[a], "scheduling") :
    LET s == agent[a] IN
    /\ \/ s.state = "closed"
       \/ /\ \A p \in Paths : s.pair[p].st # "WAITING"
          /\ (s.rend /\ s.lend) \/ s.done
    /\ agent' = [agent EXCEPT ![a][f] = IF CheckList(s) = {} THEN "threw" ELSE "waiting"]
    /\ UNCHANGED <<net, answers, env>>

\* Mutant: connect() does not start the consent lifecycle.
connectResumesUnwatched(a) ==
    LET s == agent[a]
        rest == [s EXCEPT !.queue = Tail(@)]
    IN
    /\ Loops(s, "waiting") # {} /\ a \notin env.lite /\ s.queue # <<>>
    /\ agent' = [agent EXCEPT ![a] =
            IF Head(s.queue) = FAILED THEN rest
            ELSE [MoveLoops(rest, "waiting", "returned") EXCEPT !.state = "connected"]]
    /\ UNCHANGED <<net, answers, env>>

\* The wait loop takes a result; ICE_FAILED is only waited on again.  A
\* result reaches every connect() that waits when it is put.
connectResumes(a) ==
    LET s == agent[a]
        rest == [s EXCEPT !.queue = Tail(@)]
        \* the handles of the remaining checks are resolved
        ended == [q \in Paths |-> IF s.tx[q].n > 0 /\ s.tx[q].kind # "tcpnom"
                                  THEN NoRequest ELSE s.tx[q]]
    IN
    /\ Loops(s, "waiting") # {} /\ a \notin env.lite /\ s.queue # <<>>
    /\ agent' = [agent EXCEPT ![a] =
            IF Head(s.queue) = FAILED THEN rest
            ELSE [queryConsent(MoveLoops([rest EXCEPT !.tx = ended], "waiting", "returned"), a)
                    EXCEPT !.state = "connected"]]
    /\ UNCHANGED <<net, answers, env>>

\* connect() of an ICE-lite agent: it only answers checks.
liteResumes(a) ==
    LET s == agent[a] IN
    /\ s.phase = "waiting" /\ a \in env.lite
    /\ \/ /\ s.sel # None \/ COMPLETED \in Range(s.queue)
          /\ agent' = [agent EXCEPT ![a].phase = "returned", ![a].state = "connected"]
       \/ /\ s.sel = None /\ COMPLETED \notin Range(s.queue) /\ s.state = "closed"
          /\ agent' = [agent EXCEPT ![a].phase = "threw"]
    /\ UNCHANGED <<net, answers, env>>

----------------------------------------------------------------------------
(* STUN requests and answers                                               *)

\* onRequestReceived of the socket of agent a.
requestReceived(a, r) ==
    LET s == agent[a]
        clash == RoleConflict(s, a, r)
        t == IF clash \in {"yield", "claim"}
             THEN switchRole(s, a, clash = "claim") ELSE s
        isEarly == CheckList(t) = {} /\ ~t.earlyDone
        known == r \in Range(t.early)
        u == IF clash \in {"refuse", "claim"} THEN t
             ELSE IF isEarly THEN [t EXCEPT !.early = IF known THEN @ ELSE Append(@, r)]
             ELSE checkIncoming(t, a, r)
    IN
    /\ r.from = Peer(a) /\ r.path \in s.open /\ CanSend(s)
    /\ agent' = [agent EXCEPT ![a] = u]
    /\ net' = (net \ {r}) \cup Emitted(s, u)
    /\ answers' = IF clash = "claim" THEN answers
                  ELSE answers \cup {[req |-> r, ok |-> clash # "refuse"]}
    /\ UNCHANGED env

\* What the awaiting check makes of a success.
Answered(s, a, r) ==
    LET p == r.path
        t == [s EXCEPT !.tx[p] = NoRequest]
        nom(x) == [x EXCEPT !.pair[p].nom = TRUE]
        nominatesLater == s.ctl /\ Peer(a) \notin env.lite /\ env.tcp
    IN  CASE r.kind = "check" /\ (r.uc \/ s.pair[p].rnom) -> CheckWon(nom(t), a, p)
          [] r.kind = "check" /\ ~(r.uc \/ s.pair[p].rnom) ->
               IF ~nominatesLater /\ s.ctl /\ ~s.nominating
               THEN SendOn([t EXCEPT !.nominating = TRUE], a, p, "nominate", TRUE)
               ELSE CheckWon(t, a, p)
          [] r.kind = "nominate" -> CheckWon(nom(t), a, p)
          [] r.kind = "tcpnom" ->
               checkComplete([nom(t) EXCEPT !.nominating = FALSE], a, p)

\* ... and of a failure: a timeout, or a refused nomination.
Failed(s, a, r) ==
    CheckFailed([s EXCEPT !.tx[r.path] = NoRequest,
                          !.nominating = @ /\ r.kind = "check"], a, r.path)

\* The answer to a check; answers nobody waits for are dropped.
responseReceived(a, ans) ==
    LET s == agent[a]
        r == ans.req
        waits == s.tx[r.path] = r /\ r.path \in s.open
        t == IF ans.ok THEN Answered(s, a, r)
             ELSE IF r.kind = "check"
                  THEN checkStart(switchRole(s, a, ~r.ctl), a, r.path)
                  ELSE Failed(s, a, r)
    IN
    /\ r.from = a /\ r.kind # "consent" /\ CanSend(s)
    /\ Becomes(a, IF waits THEN t ELSE s)
    /\ answers' = answers \ {ans}
    /\ UNCHANGED env

\* All tries of a transaction went unanswered.
timeout(a, p) ==
    LET s == agent[a] IN
    /\ env.timeouts > 0 /\ s.tx[p] # NoRequest /\ p \in s.open /\ CanSend(s)
    /\ Becomes(a, Failed(s, a, s.tx[p]))
    /\ env' = [env EXCEPT !.timeouts = @ - 1]
    /\ UNCHANGED answers

\* The transaction sends its request once more.
retransmit(a, p) ==
    LET r == agent[a].tx[p] IN
    /\ r # NoRequest /\ r \notin net /\ ~\E x \in answers : x.req = r
    /\ p \in agent[a].open
    /\ net' = net \cup {r}
    /\ UNCHANGED <<agent, answers, env>>

\* The network loses a request; it may also deliver it again later.
lose(r) ==
    /\ env.losses > 0
    /\ net' = net \ {r}
    /\ env' = [env EXCEPT !.losses = @ - 1]
    /\ UNCHANGED <<agent, answers>>

----------------------------------------------------------------------------
(* Consent freshness (RFC 7675) and close()                                *)

Terminal(s) == s.state \in {"closed", "failed"}

\* The consent loop sends a request on the selected pair and does not await it.
consentRequest(a) ==
    LET s == agent[a]
        r == buildRequest(s, a, s.sel, "consent", Peer(a) \in env.lite)
    IN
    /\ s.timer /\ ~Terminal(s) /\ s.sel # None /\ CanSend(s) /\ env.consents > 0
    /\ agent' = [agent EXCEPT ![a].con = r, ![a].sent = @ + 1]
    /\ net' = net \cup {r}
    /\ env' = [env EXCEPT !.consents = @ - 1]
    /\ UNCHANGED answers

\* Its answer renews consent only for the session that sent it.
consentAnswered(a, ans) ==
    LET s == agent[a]
        counts == ans.ok /\ s.con = ans.req /\ ~Terminal(s)
                  /\ s.sel = ans.req.path /\ s.gen = ans.req.gen
    IN
    /\ ans.req.from = a /\ ans.req.kind = "consent"
    /\ agent' = [agent EXCEPT
            ![a].con = IF @ = ans.req THEN NoRequest ELSE @,
            ![a].fresh = @ \/ counts, ![a].timer = @ \/ counts]
    /\ answers' = answers \ {ans}
    /\ UNCHANGED <<net, env>>

\* Thirty seconds without an answer: sending stops.
consentExpires(a) ==
    LET s == agent[a] IN
    /\ s.timer /\ ~Terminal(s) /\ env.timeouts > 0
    /\ agent' = [agent EXCEPT ![a] = [stopConsentLifecycle(s) EXCEPT !.state = "failed"]]
    /\ env' = [env EXCEPT !.timeouts = @ - 1]
    /\ UNCHANGED <<net, answers>>

\* close() up to its first await.
close(a) ==
    LET s == agent[a]
        t == [stopConsentLifecycle(s) EXCEPT !.state = "closed", !.closing = TRUE, !.sel = None,
                !.tx = [p \in Paths |-> NoRequest]]
    IN
    /\ a \in env.closers /\ s.state # "closed"
    /\ agent' = [agent EXCEPT ![a] = IF s.done THEN t ELSE Put(t, FAILED)]
    /\ env' = [env EXCEPT !.closers = @ \ {a}]
    /\ UNCHANGED <<net, answers>>

\* ... and one step per socket it then closes, which cancels its transactions.
closeSocket(a) ==
    LET s == agent[a] IN
    /\ s.closing /\ s.open # {}
    /\ LET p == CHOOSE p \in s.open : \A q \in s.open : p <= q IN
         agent' = [agent EXCEPT ![a].open = @ \ {p}, ![a].tx[p] = NoRequest]
    /\ UNCHANGED <<net, answers, env>>

CanSendApplicationData(s, a) ==
    s.sel # None /\ ~Terminal(s) /\ (a \in env.lite \/ s.fresh)

----------------------------------------------------------------------------
\* Steps the event loop takes by itself once they are due.
Progress(a) ==
    \/ endOfCandidates(a) \/ gatherCandidates(a) \/ setRemoteParams(a)
    \/ connect(a) \/ schedulingChecks(a) \/ scheduled(a) \/ connectResumes(a)
    \/ liteResumes(a) \/ closeSocket(a)
    \/ \E p \in Paths : addRemoteCandidate(a, p) \/ retransmit(a, p)
    \/ \E r \in net : requestReceived(a, r)
    \/ \E x \in answers : responseReceived(a, x) \/ consentAnswered(a, x)

\* Steps that an application, a timer or the network may or may not take.
Fault ==
    \/ \E a \in Agents : restart(a) \/ close(a) \/ consentRequest(a) \/ consentExpires(a)
    \/ \E a \in Agents, p \in Paths : timeout(a, p)
    \/ \E r \in net : lose(r)

Next == (\E a \in Agents : Progress(a)) \/ Fault

Spec == Init /\ [][Next]_vars

\* Some step of Progress is due: the disjunction of its guards.
Due == \E a \in Agents :
    LET s == agent[a]
        t == agent[Peer(a)]
        hears == s.state # "closed" /\ s.params /\ ~s.rend
        resting == \A p \in Paths : s.pair[p].st # "WAITING"
    IN
    \/ hears
    \/ ~s.lend /\ s.state # "closed"
    \/ {s.state, t.state} \cap {"closed"} = {} /\ (s.gen < t.gen \/ (s.gen = t.gen /\ ~s.params))
    \/ s.phase = "idle" /\ s.params /\ s.state # "closed"
    \/ Loops(s, "scheduling") # {}
        /\ (s.state = "closed" \/ ~resting \/ (s.rend /\ s.lend) \/ s.done)
    \/ Loops(s, "waiting") # {} /\ a \notin env.lite /\ s.queue # <<>>
    \/ s.phase = "waiting" /\ a \in env.lite
        /\ (s.sel # None \/ s.state = "closed" \/ COMPLETED \in Range(s.queue))
    \/ s.closing /\ s.open # {}
    \/ \E p \in s.open : s.tx[p] # NoRequest /\ s.tx[p] \notin net
    \/ \E r \in net : r.from = Peer(a) /\ r.path \in s.open
    \/ \E x \in answers : x.req.from = a

\* Nothing that is due waits forever: weak fairness of Progress, with its
\* guard spelled out.
FairSpec ==
    Spec /\ ([]<>~Due \/ []<><<\E a \in Agents : Progress(a)>>_vars)

----------------------------------------------------------------------------
Requests ==
    [n : Nat, from : Agents, path : Paths, gen : Nat, ctl : BOOLEAN, uc : BOOLEAN,
     kind : {"check", "nominate", "tcpnom", "consent"}]

(* The type invariant.                                                     *)
TypeOK ==
    /\ agent \in [Agents -> [gen : Nat, ctl : BOOLEAN, params : BOOLEAN,
          cands : SUBSET Paths, rend : BOOLEAN, lend : BOOLEAN,
          phase : {"idle", "scheduling", "waiting", "returned", "threw"},
          state : {"new", "completed", "connected", "failed", "closed"},
          pair : [Paths -> [st : PairStates, nom : BOOLEAN, rnom : BOOLEAN]],
          tx : [Paths -> Requests \cup {NoRequest}], con : Requests \cup {NoRequest},
          sel : Paths \cup {None}, nominating : BOOLEAN, done : BOOLEAN,
          queue : Seq({COMPLETED, FAILED}), early : Seq(Requests),
          earlyDone : BOOLEAN, fresh : BOOLEAN, timer : BOOLEAN,
          open : SUBSET Paths, sent : Nat, closing : BOOLEAN,
          old : {"none", "scheduling", "waiting", "returned", "threw"}]]
    /\ net \subseteq Requests
    /\ answers \subseteq [req : Requests, ok : BOOLEAN]

Live(a) == ~agent[a].closing
SameGeneration == agent["A"].gen = agent["B"].gen
BothSelected == \A a \in Agents : agent[a].sel # None

\* A selected pair is one that the peer, in the same generation, has been
\* checked on: an answer to a check of a generation that ended never selects
\* (cancelChecks, ice.ts 329, and checkComplete, ice.ts 2089).  A lite agent
\* selects by what it receives, and a nomination of the ended generation may
\* reach it behind a restart: for it this is said of the first generation.
SelectedKnownToPeer == \A a \in Agents :
    LET s == agent[a]
        t == agent[Peer(a)]
    IN  s.sel # None /\ Live(a) /\ SameGeneration /\ (a \in env.lite => s.gen = 0) =>
          \/ InList(t, s.sel)
          \/ \E r \in Range(t.early) : r.path = s.sel

\* Role conflict repair (ice.ts 983-1017, 2293-2302): whatever both agents
\* believed at first and however their checks cross, two agents that selected
\* a pair in the first generation have different roles.
OneController ==
    BothSelected /\ SameGeneration /\ agent["A"].gen = 0 =>
      agent["A"].ctl # agent["B"].ctl

\* Over TCP both agents select the same pair, whichever connection answers
\* first (ice.ts 2395-2403, 2427-2493): in the first generation, and unless a
\* nomination the peer took times out.
TcpAgentsAgree ==
    BothSelected /\ SameGeneration /\ agent["A"].gen = 0 /\ (\A a \in Agents : Live(a))
      /\ env.tcp /\ env.timely /\ env.lite = {} => agent["A"].sel = agent["B"].sel

\* Consent never lasts by itself: an agent that may send application data has
\* its 30 s expiry timer running, or connect() is about to start it
\* (ice.ts 1653-1666, 1686-1745, 2116-2134).
DataNeedsConsent == \A a \in Agents \ env.lite :
    LET s == agent[a] IN
    CanSendApplicationData(s, a) =>
      s.timer \/ (s.state # "connected" /\ COMPLETED \in Range(s.queue))

\* connect() "returns if a candidate pair was successfully nominated"
\* (ice.ts 1474-1479): while it has not returned, the result is still there
\* for it.  RestartScenario of MCIceAgents violates it, so no run asks for it.
ResultNotLost == \A a \in Agents :
    LET s == agent[a] IN
    s.sel # None /\ s.phase \in {"idle", "scheduling", "waiting"} /\ Live(a) =>
       COMPLETED \in Range(s.queue)

Undisturbed == env.timeouts = 0 /\ env.restarters = {} /\ env.closers = {}

\* With no timeout, restart or close, both connect() calls return, whatever
\* requests were lost, whichever side controls, is lite, or trickles.
Connects ==
    Undisturbed => <>[](\A a \in Agents : agent[a].phase = "returned"
                                         /\ agent[a].state = "connected")

\* A role conflict is settled for good, even when checks time out.
RolesSettle ==
    env.closers = {} /\ env.restarters = {} => <>[](agent["A"].ctl # agent["B"].ctl)

\* Both: what the agents start comes to an end.
AgentsConnect == Connects /\ RolesSettle

\* What the two agents selected fits together.
PairsAgree == TypeOK /\ SelectedKnownToPeer /\ TcpAgentsAgree

\* The agents fit each other: selected pairs, and who controls.
AgentsAgree == PairsAgree /\ OneController
=============================================================================
