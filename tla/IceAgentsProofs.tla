--------------------------- MODULE IceAgentsProofs ---------------------------
(* Proofs about IceAgents for every number of paths, every set of scenarios  *)
(* and every bound on the requests.                                          *)
EXTENDS IceAgents, SequenceTheorems, WellFoundedInduction, TLAPS

-----------------------------------------------------------------------------
(* One agent.                                                                *)

\* The fields that handling a check changes, and the others.
CheckFields == {"cands", "pair", "tx", "con", "sel", "nominating", "done", "queue",
                "fresh", "timer", "sent"}
OtherFields == {"gen", "ctl", "params", "rend", "lend", "phase", "state", "early",
                "earlyDone", "open", "old", "closing"}
Fields == CheckFields \union OtherFields

Phases == {"idle", "scheduling", "waiting", "returned", "threw"}
States == {"new", "completed", "connected", "failed", "closed"}
Pair == [st : PairStates, nom : BOOLEAN, rnom : BOOLEAN]
MaybeRequest == Requests \union {NoRequest}
Results == {COMPLETED, FAILED}

CheckTypes(s) ==
    /\ s.cands \subseteq Paths /\ s.pair \in [Paths -> Pair]
    /\ s.tx \in [Paths -> MaybeRequest] /\ s.con \in MaybeRequest
    /\ s.sel \in Paths \union {None} /\ s.nominating \in BOOLEAN /\ s.done \in BOOLEAN
    /\ s.queue \in Seq(Results) /\ s.fresh \in BOOLEAN /\ s.timer \in BOOLEAN
    /\ s.sent \in Nat

OtherTypes(s) ==
    /\ s.gen \in Nat /\ s.ctl \in BOOLEAN /\ s.params \in BOOLEAN
    /\ s.rend \in BOOLEAN /\ s.lend \in BOOLEAN /\ s.phase \in Phases
    /\ s.state \in States /\ s.early \in Seq(Requests) /\ s.earlyDone \in BOOLEAN
    /\ s.open \subseteq Paths /\ s.old \in (Phases \ {"idle"}) \union {"none"}
    /\ s.closing \in BOOLEAN

IsRecord(s) == s = [f \in Fields |-> s[f]]
Shape(s) == IsRecord(s) /\ CheckTypes(s) /\ OtherTypes(s)

\* The fields in F change only.
Changed(s, t, F) == IsRecord(t) /\ \A f \in Fields \ F : t[f] = s[f]

AgentRecord ==
    [gen : Nat, ctl : BOOLEAN, params : BOOLEAN,
     cands : SUBSET Paths, rend : BOOLEAN, lend : BOOLEAN,
     phase : {"idle", "scheduling", "waiting", "returned", "threw"},
     state : {"new", "completed", "connected", "failed", "closed"},
     pair : [Paths -> [st : PairStates, nom : BOOLEAN, rnom : BOOLEAN]],
     tx : [Paths -> Requests \cup {NoRequest}], con : Requests \cup {NoRequest},
     sel : Paths \cup {None}, nominating : BOOLEAN, done : BOOLEAN,
     queue : Seq({COMPLETED, FAILED}), early : Seq(Requests),
     earlyDone : BOOLEAN, fresh : BOOLEAN, timer : BOOLEAN,
     open : SUBSET Paths, sent : Nat, closing : BOOLEAN,
     old : {"none", "scheduling", "waiting", "returned", "threw"}]

LEMMA ShapeIsType ==
    ASSUME NEW s, Shape(s)
    PROVE  s \in AgentRecord
<1> DEFINE r == [f \in Fields |-> s[f]]
<1>1. r \in AgentRecord
  BY DEF Shape, CheckTypes, OtherTypes, AgentRecord, Fields, CheckFields, OtherFields, Pair,
         MaybeRequest, Results, Phases, States
<1> QED
  BY <1>1 DEF Shape, IsRecord

LEMMA PathFacts == /\ Paths \subseteq Nat /\ None \notin Paths
                   /\ NoRequest \notin Requests
<1>1. Paths \subseteq Nat /\ None \notin Paths
  BY IceAssumption DEF Paths, None
<1>2. \A r \in Requests : DOMAIN r # DOMAIN NoRequest
  BY DEF Requests, NoRequest
<1> QED
  BY <1>1, <1>2

-----------------------------------------------------------------------------
(* What handling checks does to an agent.                                    *)

\* Consent: whoever selected a pair has the timer, or a result that starts it.
Consent(s) ==
    /\ s.sel # None /\ s.fresh /\ ~Terminal(s) =>
          s.timer \/ (s.state # "connected" /\ COMPLETED \in Range(s.queue))
    /\ s.done /\ s.sel = None => s.state \notin {"new", "completed"}

\* A request that agent a, in state s, sends on path p.
NewRequest(r, s, a, p) ==
    /\ r \in Requests /\ r.from = a /\ r.path = p /\ r.gen = s.gen /\ r.ctl = s.ctl
    /\ r.kind # "consent" /\ a \notin env.lite /\ InList(s, p)

Listed(s) == \A p \in Paths : InList(s, p) \/ s.pair[p] = NewPair

\* Agent a handles checks, and moves from s to t; checks of paths in W succeed.
Handles(s, t, a, W) ==
    /\ Changed(s, t, CheckFields) /\ CheckTypes(t)
    /\ \A p \in Paths : InList(s, p) => InList(t, p)
    /\ \A p \in Paths : t.tx[p] \in {s.tx[p], NoRequest} \/ NewRequest(t.tx[p], t, a, p)
    /\ \A p \in Paths : t.pair[p].st = "SUCCEEDED" => s.pair[p].st = "SUCCEEDED" \/ p \in W
    /\ t.sel = s.sel \/ (t.sel \in Paths /\ InList(t, t.sel)
                            /\ (s.pair[t.sel].st = "SUCCEEDED" \/ t.sel \in W))
    /\ Listed(s) => Listed(t)
    /\ a \notin env.lite /\ Consent(s) => Consent(t)
    /\ s.tx = t.tx \/ a \notin env.lite
    /\ a \in env.lite => s.timer = t.timer /\ s.con = t.con

LEMMA HandlesShape ==
    ASSUME NEW s, NEW t, NEW a, NEW W, Shape(s), Handles(s, t, a, W)
    PROVE  Shape(t) /\ \A f \in OtherFields : t[f] = s[f]
BY DEF Shape, Handles, Changed, OtherTypes, CheckFields, OtherFields, Fields

LEMMA HandlesSame ==
    ASSUME NEW s, NEW a, NEW W, Shape(s)
    PROVE  Handles(s, s, a, W)
BY DEF Shape, Handles, Changed

LEMMA HandlesTrans ==
    ASSUME NEW s, NEW t, NEW u, NEW a, NEW W, NEW V, Shape(s), Handles(s, t, a, W),
           Handles(t, u, a, V)
    PROVE  Handles(s, u, a, W \union V)
<1>1. Changed(s, u, CheckFields) /\ CheckTypes(u)
  BY DEF Handles, Changed
<1>2. /\ \A p \in Paths : InList(s, p) => InList(t, p)
      /\ \A p \in Paths : InList(t, p) => InList(u, p)
  BY DEF Handles
<1>3. t.gen = u.gen /\ t.ctl = u.ctl
  BY HandlesShape DEF OtherFields
<1>4. ASSUME NEW p \in Paths
      PROVE  u.tx[p] \in {s.tx[p], NoRequest} \/ NewRequest(u.tx[p], u, a, p)
  <2>1. t.tx[p] \in {s.tx[p], NoRequest} \/ NewRequest(t.tx[p], t, a, p)
    BY DEF Handles
  <2>2. u.tx[p] \in {t.tx[p], NoRequest} \/ NewRequest(u.tx[p], u, a, p)
    BY DEF Handles
  <2> QED
    BY <1>2, <1>3, <2>1, <2>2 DEF NewRequest
<1>5. ASSUME NEW p \in Paths, u.pair[p].st = "SUCCEEDED"
      PROVE  s.pair[p].st = "SUCCEEDED" \/ p \in W \union V
  BY <1>5 DEF Handles
<1>6. u.sel = s.sel \/ (u.sel \in Paths /\ InList(u, u.sel)
                            /\ (s.pair[u.sel].st = "SUCCEEDED" \/ u.sel \in W \union V))
  <2>1. t.sel = s.sel \/ (t.sel \in Paths /\ InList(t, t.sel)
                            /\ (s.pair[t.sel].st = "SUCCEEDED" \/ t.sel \in W))
    BY DEF Handles
  <2>2. u.sel = t.sel \/ (u.sel \in Paths /\ InList(u, u.sel)
                            /\ (t.pair[u.sel].st = "SUCCEEDED" \/ u.sel \in V))
    BY DEF Handles
  <2>3. \A p \in Paths : t.pair[p].st = "SUCCEEDED" => s.pair[p].st = "SUCCEEDED" \/ p \in W
    BY DEF Handles
  <2> QED
    BY <1>2, <2>1, <2>2, <2>3
<1>7. /\ Listed(s) => Listed(u)
      /\ a \notin env.lite /\ Consent(s) => Consent(u)
      /\ s.tx = u.tx \/ a \notin env.lite
      /\ a \in env.lite => s.timer = u.timer /\ s.con = u.con
  BY DEF Handles
<1> QED
  BY <1>1, <1>2, <1>4, <1>5, <1>6, <1>7 DEF Handles

ConsentFields == {"sel", "fresh", "timer", "state", "queue", "done"}

LEMMA ConsentSame ==
    ASSUME NEW s, NEW t, \A f \in ConsentFields : t[f] = s[f], Consent(s)
    PROVE  Consent(t)
BY DEF ConsentFields, Consent, Terminal

\* A change of the pairs, the requests and the candidates that fits Handles.
LEMMA PairsHandle ==
    ASSUME NEW s, NEW t, NEW a, NEW W, Shape(s),
           Changed(s, t, {"cands", "pair", "tx", "nominating", "sent"}), CheckTypes(t),
           \A p \in Paths : InList(s, p) => InList(t, p),
           \A p \in Paths : t.tx[p] \in {s.tx[p], NoRequest} \/ NewRequest(t.tx[p], t, a, p),
           \A p \in Paths : t.pair[p].st = "SUCCEEDED" => s.pair[p].st = "SUCCEEDED" \/ p \in W,
           Listed(s) => Listed(t), s.tx = t.tx \/ a \notin env.lite
    PROVE  Handles(s, t, a, W)
<1>1. /\ Changed(s, t, CheckFields) /\ t.sel = s.sel
      /\ s.timer = t.timer /\ s.con = t.con
      /\ \A f \in ConsentFields : t[f] = s[f]
  BY DEF Changed, Fields, CheckFields, OtherFields, ConsentFields
<1> QED
  BY <1>1, ConsentSame DEF Handles

LEMMA SetPairHandles ==
    ASSUME NEW s, NEW p \in Paths, NEW st \in PairStates \ {"none"}, NEW a, NEW W, Shape(s),
           st = "SUCCEEDED" => p \in W
    PROVE  LET t == SetPair(s, p, st)
           IN  /\ Handles(s, t, a, W) /\ InList(t, p)
               /\ Changed(s, t, {"pair"})
               /\ t.pair = [s.pair EXCEPT ![p].st = st]
<1> DEFINE t == SetPair(s, p, st)
           pair == [s.pair EXCEPT ![p].st = st]
<1>1. /\ pair \in [Paths -> Pair] /\ pair[p].st = st
      /\ \A q \in Paths : q # p => pair[q] = s.pair[q]
  BY DEF Shape, CheckTypes, Pair
<1>2. t = [s EXCEPT !.pair = pair]
  BY DEF SetPair
<1> HIDE DEF pair
<1>3. Changed(s, t, {"pair"}) /\ t.pair = pair
  BY <1>2 DEF Changed, Shape, IsRecord, Fields, CheckFields, OtherFields
<1> HIDE DEF t
<1>4. Changed(s, t, {"cands", "pair", "tx", "nominating", "sent"}) /\ t.tx = s.tx
  BY <1>3 DEF Changed, Fields, CheckFields, OtherFields
<1>5. CheckTypes(t)
  BY <1>1, <1>3 DEF Changed, Fields, CheckFields, OtherFields, CheckTypes, Shape
<1>6. /\ InList(t, p) /\ \A q \in Paths : InList(s, q) => InList(t, q)
      /\ Listed(s) => Listed(t)
  BY <1>1, <1>3 DEF InList, Listed
<1>7. \A q \in Paths : t.pair[q].st = "SUCCEEDED" => s.pair[q].st = "SUCCEEDED" \/ q \in W
  BY <1>1, <1>3
<1>8. Handles(s, t, a, W)
  BY <1>4, <1>5, <1>6, <1>7, PairsHandle
<1> QED
  BY <1>3, <1>6, <1>8 DEF t, pair

LEMMA RequestType ==
    ASSUME NEW s, NEW a \in Agents, NEW p \in Paths,
           NEW kind \in {"check", "nominate", "tcpnom", "consent"},
           NEW nominate \in BOOLEAN, Shape(s)
    PROVE  LET r == buildRequest(s, a, p, kind, nominate)
           IN  /\ r \in Requests /\ r # NoRequest /\ r.from = a /\ r.path = p /\ r.gen = s.gen /\ r.ctl = s.ctl
               /\ r.kind = kind /\ r.uc = (nominate /\ s.ctl)
<1> DEFINE r == buildRequest(s, a, p, kind, nominate)
<1>1. s.sent + 1 \in Nat /\ s.ctl \in BOOLEAN /\ s.gen \in Nat /\ (nominate /\ s.ctl) \in BOOLEAN
  BY DEF Shape, CheckTypes, OtherTypes
<1>2. r \in Requests
  BY <1>1 DEF Requests, buildRequest
<1> QED
  BY <1>2, PathFacts DEF buildRequest

LEMMA SendHandles ==
    ASSUME NEW s, NEW a \in Agents, NEW p \in Paths,
           NEW kind \in {"check", "nominate", "tcpnom"},
           NEW nominate \in BOOLEAN, NEW W, Shape(s), a \notin env.lite, InList(s, p)
    PROVE  LET t == SendOn(s, a, p, kind, nominate)
           IN  /\ Handles(s, t, a, W)
               /\ Changed(s, t, {"tx", "sent"})
               /\ t.tx = [s.tx EXCEPT ![p] = buildRequest(s, a, p, kind, nominate)]
<1> DEFINE t == SendOn(s, a, p, kind, nominate)
           r == buildRequest(s, a, p, kind, nominate)
           tx == [s.tx EXCEPT ![p] = r]
<1>1. /\ r \in Requests /\ r.from = a /\ r.path = p /\ r.gen = s.gen /\ r.ctl = s.ctl
      /\ r.kind # "consent"
  BY RequestType
<1>2. t = [s EXCEPT !.tx = tx, !.sent = s.sent + 1]
  BY DEF SendOn
<1> HIDE DEF r
<1>3. /\ tx \in [Paths -> MaybeRequest] /\ tx[p] = r
      /\ \A q \in Paths : q # p => tx[q] = s.tx[q]
  BY <1>1 DEF Shape, CheckTypes, MaybeRequest
<1> HIDE DEF tx
<1>4. Changed(s, t, {"tx", "sent"}) /\ t.tx = tx /\ t.sent = s.sent + 1
  BY <1>2 DEF Changed, Shape, IsRecord, Fields, CheckFields, OtherFields
<1> HIDE DEF t
<1>5. /\ Changed(s, t, {"cands", "pair", "tx", "nominating", "sent"}) /\ t.pair = s.pair
      /\ t.gen = s.gen /\ t.ctl = s.ctl
  BY <1>4 DEF Changed, Fields, CheckFields, OtherFields
<1>6. CheckTypes(t)
  BY <1>3, <1>4 DEF Changed, Fields, CheckFields, OtherFields, CheckTypes, Shape
<1>7. NewRequest(r, t, a, p)
  BY <1>1, <1>5 DEF NewRequest, InList
<1>8. Handles(s, t, a, W)
  BY <1>3, <1>4, <1>5, <1>6, <1>7, PairsHandle DEF InList, Listed
<1> QED
  BY <1>4, <1>8 DEF t, tx, r

LEMMA StartHandles ==
    ASSUME NEW s, NEW a \in Agents, NEW p \in Paths, NEW W, Shape(s), a \notin env.lite
    PROVE  LET t == checkStart(s, a, p)
               aggressive == s.ctl /\ Peer(a) \notin env.lite /\ ~env.tcp
           IN  /\ Handles(s, t, a, W) /\ InList(t, p)
               /\ Changed(s, t, {"pair", "tx", "sent"})
               /\ t.pair = [s.pair EXCEPT ![p].st = "IN_PROGRESS"]
               /\ t.tx = [s.tx EXCEPT ![p] = buildRequest(s, a, p, "check", aggressive)]
<1> DEFINE u == SetPair(s, p, "IN_PROGRESS")
           aggressive == s.ctl /\ Peer(a) \notin env.lite /\ ~env.tcp
           t == SendOn(u, a, p, "check", aggressive)
<1>1. /\ Handles(s, u, a, W) /\ InList(u, p) /\ Changed(s, u, {"pair"})
      /\ u.pair = [s.pair EXCEPT ![p].st = "IN_PROGRESS"]
  BY SetPairHandles DEF PairStates
<1>2. Shape(u)
  BY <1>1, HandlesShape
<1>3. u.ctl = s.ctl /\ u.sent = s.sent /\ u.gen = s.gen /\ u.tx = s.tx
  BY <1>1 DEF Changed, Fields, CheckFields, OtherFields
<1>4. checkStart(s, a, p) = t
  BY DEF checkStart
<1>5. aggressive \in BOOLEAN
  OBVIOUS
<1>6. buildRequest(u, a, p, "check", aggressive) = buildRequest(s, a, p, "check", aggressive)
  BY <1>3 DEF buildRequest
<1> HIDE DEF u, aggressive
<1>7. /\ Handles(u, t, a, W) /\ Changed(u, t, {"tx", "sent"})
      /\ t.tx = [u.tx EXCEPT ![p] = buildRequest(u, a, p, "check", aggressive)]
  BY <1>1, <1>2, <1>5, SendHandles
<1> HIDE DEF t
<1>8. Handles(s, t, a, W \union W)
  BY <1>1, <1>7, HandlesTrans
<1>9. /\ Changed(s, t, {"pair", "tx", "sent"}) /\ t.pair = u.pair /\ InList(t, p)
  BY <1>1, <1>7 DEF Changed, Fields, CheckFields, OtherFields, InList
<1>10. W \union W = W
  OBVIOUS
<1> QED
  BY <1>1, <1>3, <1>4, <1>6, <1>7, <1>8, <1>9, <1>10 DEF aggressive

LEMMA LeastPath ==
    ASSUME NEW T \in SUBSET Paths, T # {}
    PROVE  \E x \in T : \A y \in T : x <= y
<1> DEFINE R == OpToRel(<, Nat)
<1>1. IsWellFoundedOn(R, Nat)
  BY NatLessThanWellFounded, Zenon
<1>2. \A x, y \in Nat : y < x => <<y, x>> \in R
  BY DEF OpToRel
<1> HIDE DEF R
<1>3. T \in SUBSET Nat
  BY PathFacts
<1>4. PICK x \in T : \A y \in T : ~(<<y, x>> \in R)
  BY <1>1, <1>3, WFMin
<1>5. ASSUME NEW y \in T PROVE x <= y
  <2>1. x \in Nat /\ y \in Nat /\ ~(y < x)
    BY <1>2, <1>3, <1>4
  <2> QED
    BY <2>1
<1> QED
  BY <1>5

\* The nomination of a TCP pair on path q.
NominatesTcp(s, t, a, q) ==
    /\ env.tcp /\ s.ctl /\ s.sel = None /\ ~s.nominating /\ s.pair[q].st = "SUCCEEDED"
    /\ Changed(s, t, {"nominating", "tx", "sent"}) /\ t.nominating
    /\ t.tx = [s.tx EXCEPT ![q] = buildRequest(s, a, q, "tcpnom", TRUE)]

LEMMA NominateHandles ==
    ASSUME NEW s, NEW a \in Agents, NEW W, Shape(s), a \in env.lite => ~s.ctl
    PROVE  LET t == nominateTcpPairIfReady(s, a)
           IN  /\ Handles(s, t, a, W)
               /\ t = s \/ \E q \in Paths : NominatesTcp(s, t, a, q)
<1> DEFINE open  == {p \in CheckList(s) : s.pair[p].st # "FAILED"}
           first == CHOOSE p \in open : \A q \in open : p <= q
           t == nominateTcpPairIfReady(s, a)
           u == [s EXCEPT !.nominating = TRUE]
           ready == /\ env.tcp /\ s.ctl /\ Peer(a) \notin env.lite
                    /\ s.sel = None /\ ~s.nominating
                    /\ open # {} /\ s.pair[first].st = "SUCCEEDED"
<1>1. t = IF ready THEN SendOn(u, a, first, "tcpnom", TRUE) ELSE s
  BY DEF nominateTcpPairIfReady
<1>2. CASE ~ready
  BY <1>1, <1>2, HandlesSame
<1>3. CASE ready
  <2>1. open \in SUBSET Paths /\ open # {}
    BY <1>3 DEF CheckList
  <2>2. first \in open
    BY <2>1, LeastPath
  <2>3. /\ env.tcp /\ s.ctl /\ s.sel = None /\ ~s.nominating /\ s.pair[first].st = "SUCCEEDED"
        /\ first \in Paths /\ InList(s, first) /\ a \notin env.lite /\ t = SendOn(u, a, first, "tcpnom", TRUE)
    BY <1>1, <1>3, <2>2 DEF CheckList
  <2>4. Changed(s, u, {"nominating"}) /\ u.nominating
    BY DEF Changed, Shape, IsRecord, Fields, CheckFields, OtherFields
  <2> HIDE DEF first, open, ready, u
  <2>5. /\ Changed(s, u, {"cands", "pair", "tx", "nominating", "sent"}) /\ u.tx = s.tx /\ u.pair = s.pair
        /\ u.gen = s.gen /\ u.ctl = s.ctl /\ u.sent = s.sent
    BY <2>4 DEF Changed, Fields, CheckFields, OtherFields
  <2>6. CheckTypes(u)
    BY <2>4 DEF Changed, Fields, CheckFields, OtherFields, CheckTypes, Shape
  <2>7. Handles(s, u, a, W)
    BY <2>5, <2>6, PairsHandle DEF InList, Listed
  <2>8. Shape(u) /\ InList(u, first)
    BY <2>3, <2>5, <2>7, HandlesShape DEF InList
  <2> DEFINE yes == TRUE
           v == SendOn(u, a, first, "tcpnom", yes)
  <2>15. t = v /\ yes \in BOOLEAN
    BY <2>3
  <2> HIDE DEF yes
  <2>14. /\ Handles(u, v, a, W) /\ Changed(u, v, {"tx", "sent"})
         /\ v.tx = [u.tx EXCEPT ![first] = buildRequest(u, a, first, "tcpnom", yes)]
    BY <2>3, <2>8, <2>15, SendHandles
  <2> HIDE DEF t, v
  <2>9. /\ Handles(u, t, a, W) /\ Changed(u, t, {"tx", "sent"})
        /\ t.tx = [u.tx EXCEPT ![first] = buildRequest(u, a, first, "tcpnom", TRUE)]
    BY <2>14, <2>15 DEF yes
  <2>10. buildRequest(u, a, first, "tcpnom", TRUE) = buildRequest(s, a, first, "tcpnom", TRUE)
    BY <2>5 DEF buildRequest
  <2>11. Handles(s, t, a, W \union W) /\ W \union W = W
    BY <2>7, <2>9, HandlesTrans
  <2>12. Changed(s, t, {"nominating", "tx", "sent"}) /\ t.nominating
    BY <2>4, <2>9 DEF Changed, Fields, CheckFields, OtherFields
  <2>13. NominatesTcp(s, t, a, first)
    BY <2>3, <2>5, <2>9, <2>10, <2>12 DEF NominatesTcp
  <2> QED
    BY <2>3, <2>11, <2>13 DEF t
<1> QED
  BY <1>2, <1>3

\* Pairs that wait may end; nothing else happens to pairs.
PairsEnd(s, t) ==
    \A q \in Paths :
        \/ t.pair[q] = s.pair[q]
        \/ t.pair[q] = [s.pair[q] EXCEPT !.st = "FAILED"] /\ s.pair[q].st = "WAITING"

LEMMA PairsEnding ==
    ASSUME NEW f \in [Paths -> Pair]
    PROVE  LET g == [q \in Paths |-> IF f[q].st = "WAITING"
                                     THEN [f[q] EXCEPT !.st = "FAILED"] ELSE f[q]]
           IN  /\ g \in [Paths -> Pair]
               /\ \A q \in Paths :
                     \/ g[q] = f[q]
                     \/ g[q] = [f[q] EXCEPT !.st = "FAILED"] /\ f[q].st = "WAITING"
<1>1. \A r \in Pair : [r EXCEPT !.st = "FAILED"] \in Pair
  BY DEF Pair, PairStates
<1> QED
  BY <1>1

Selects(s, t, a, p) ==
    /\ Changed(s, t, {"sel", "nominating", "fresh", "timer", "con", "pair"}) /\ CheckTypes(t)
    /\ t.sel = p /\ ~t.nominating /\ t.fresh
    /\ s.state \in {"connected", "completed"} /\ a \notin env.lite => t.timer
    /\ s.state \notin {"connected", "completed"} \/ a \in env.lite =>
          t.timer = s.timer /\ t.con = s.con
    /\ PairsEnd(s, t)

LEMMA SelectSelects ==
    ASSUME NEW s, NEW a, NEW p \in Paths, Shape(s)
    PROVE  Selects(s, Select(s, a, p), a, p)
<1> DEFINE t == [s EXCEPT !.sel = p, !.nominating = FALSE, !.fresh = TRUE]
           u == IF t.state \in {"connected", "completed"} THEN queryConsent(t, a) ELSE t
           pair == [q \in Paths |-> IF u.pair[q].st = "WAITING"
                                    THEN [u.pair[q] EXCEPT !.st = "FAILED"] ELSE u.pair[q]]
           v == [u EXCEPT !.pair = pair]
<1>1. Select(s, a, p) = v
  BY DEF Select
<1>2. /\ Changed(s, t, {"sel", "nominating", "fresh"}) /\ t.sel = p /\ ~t.nominating
      /\ t.nominating \in BOOLEAN /\ t.fresh \in BOOLEAN /\ t.fresh
  BY DEF Changed, Shape, IsRecord, Fields, CheckFields, OtherFields
<1> HIDE DEF t
<1>3. /\ t.state = s.state /\ t.timer = s.timer /\ t.con = s.con /\ t.pair = s.pair /\ IsRecord(t)
  BY <1>2 DEF Changed, Fields, CheckFields, OtherFields
<1>4. CASE s.state \in {"connected", "completed"} /\ a \notin env.lite
  <2>1. u = [stopConsentLifecycle(t) EXCEPT !.fresh = TRUE, !.timer = TRUE]
    BY <1>3, <1>4 DEF queryConsent
  <2>2. /\ Changed(t, u, {"fresh", "timer", "con"}) /\ u.fresh /\ u.timer
        /\ u.fresh \in BOOLEAN /\ u.timer \in BOOLEAN /\ u.con = NoRequest
    BY <1>3, <2>1 DEF Changed, IsRecord, Fields, CheckFields, OtherFields, stopConsentLifecycle
  <2> HIDE DEF u
  <2>3. u.pair = s.pair /\ IsRecord(u)
    BY <1>3, <2>2 DEF Changed, Fields, CheckFields, OtherFields
  <2>4. /\ pair \in [Paths -> Pair]
        /\ \A q \in Paths :
              \/ pair[q] = s.pair[q]
              \/ pair[q] = [s.pair[q] EXCEPT !.st = "FAILED"] /\ s.pair[q].st = "WAITING"
    BY <2>3, PairsEnding DEF Shape, CheckTypes
  <2> HIDE DEF pair
  <2>5. Changed(u, v, {"pair"}) /\ v.pair = pair
    BY <2>3 DEF Changed, IsRecord, Fields, CheckFields, OtherFields
  <2> HIDE DEF v
  <2>6. /\ Changed(s, v, {"sel", "nominating", "fresh", "timer", "con", "pair"})
        /\ v.sel = p /\ ~v.nominating /\ v.nominating \in BOOLEAN
        /\ v.fresh /\ v.fresh \in BOOLEAN /\ v.timer /\ v.timer \in BOOLEAN /\ v.con = NoRequest
    BY <1>2, <2>2, <2>5 DEF Changed, Fields, CheckFields, OtherFields
  <2>7. CheckTypes(v)
    BY <2>4, <2>5, <2>6 DEF CheckTypes, Shape, Changed, Fields, CheckFields, OtherFields, MaybeRequest
  <2>8. PairsEnd(s, v)
    BY <2>4, <2>5 DEF PairsEnd
  <2> QED
    BY <1>1, <1>4, <2>6, <2>7, <2>8 DEF Selects
<1>5. CASE s.state \notin {"connected", "completed"} \/ a \in env.lite
  <2>1. u = t
    BY <1>3, <1>5 DEF queryConsent
  <2> HIDE DEF u
  <2>4. /\ pair \in [Paths -> Pair]
        /\ \A q \in Paths :
              \/ pair[q] = s.pair[q]
              \/ pair[q] = [s.pair[q] EXCEPT !.st = "FAILED"] /\ s.pair[q].st = "WAITING"
    BY <1>3, <2>1, PairsEnding DEF Shape, CheckTypes
  <2> HIDE DEF pair
  <2>5. Changed(u, v, {"pair"}) /\ v.pair = pair
    BY <1>3, <2>1 DEF Changed, IsRecord, Fields, CheckFields, OtherFields
  <2> HIDE DEF v
  <2>6. /\ Changed(s, v, {"sel", "nominating", "fresh", "timer", "con", "pair"})
        /\ v.sel = p /\ ~v.nominating /\ v.nominating \in BOOLEAN
        /\ v.fresh /\ v.fresh \in BOOLEAN /\ v.timer = s.timer /\ v.con = s.con
    BY <1>2, <1>3, <2>1, <2>5 DEF Changed, Fields, CheckFields, OtherFields
  <2>7. CheckTypes(v)
    BY <2>4, <2>5, <2>6 DEF CheckTypes, Shape, Changed, Fields, CheckFields, OtherFields, MaybeRequest
  <2>8. PairsEnd(s, v)
    BY <2>4, <2>5 DEF PairsEnd
  <2> QED
    BY <1>1, <1>5, <2>6, <2>7, <2>8 DEF Selects
<1> QED
  BY <1>4, <1>5

\* A result is put.
Puts(s, t, res) ==
    /\ Changed(s, t, {"queue", "done"}) /\ t.queue = Append(s.queue, res)
    /\ t.done = (s.done \/ res = COMPLETED)

LEMMA QueueGrows ==
    ASSUME NEW q \in Seq(Results), NEW res \in Results
    PROVE  /\ Append(q, res) \in Seq(Results) /\ res \in Range(Append(q, res))
           /\ Range(q) \subseteq Range(Append(q, res))
           /\ Range(Append(q, res)) \subseteq Range(q) \union {res}
BY DEF Range

\* The two ways of checkComplete.
Completes(s, x, a, p) ==
    \E t : /\ s.pair[p].st = "SUCCEEDED" /\ t.sel # None
           /\ t = s \/ (s.sel = None /\ s.pair[p].nom /\ Selects(s, t, a, p))
           /\ \/ x = t /\ t.done
              \/ Puts(t, x, COMPLETED) /\ ~t.done

GoesOn(s, x, a, p) ==
    \E t : /\ ~(s.pair[p].st = "SUCCEEDED" /\ (s.sel # None \/ s.pair[p].nom))
           /\ t = nominateTcpPairIfReady(s, a)
           /\ x = t \/ Puts(t, x, FAILED)

LEMMA CompleteCases ==
    ASSUME NEW s, NEW a \in Agents, NEW p \in Paths, Shape(s), a \in env.lite => ~s.ctl
    PROVE  LET x == checkComplete(s, a, p)
           IN  Completes(s, x, a, p) \/ GoesOn(s, x, a, p)
<1> DEFINE won == s.pair[p].st = "SUCCEEDED"
           t   == IF won /\ s.pair[p].nom /\ s.sel = None THEN Select(s, a, p) ELSE s
           u   == nominateTcpPairIfReady(t, a)
           settled(q) == u.pair[q].st \in {"SUCCEEDED", "FAILED"}
           fails == /\ ~u.nominating
                    /\ \A q \in CheckList(u) : settled(q)
                    /\ u.ctl \/ \A q \in Paths : u.pair[q].st # "SUCCEEDED"
                    /\ ~u.done /\ u.lend /\ u.rend
           x == checkComplete(s, a, p)
<1>1. x = IF won /\ t.sel # None
          THEN IF t.done THEN t ELSE [Put(t, COMPLETED) EXCEPT !.done = TRUE]
          ELSE IF fails THEN Put(u, FAILED) ELSE u
  BY DEF checkComplete
<1>2. t = s \/ (won /\ s.sel = None /\ s.pair[p].nom /\ Selects(s, t, a, p))
  BY SelectSelects
<1>3. IsRecord(s) /\ p # None /\ s.done \in BOOLEAN
  BY PathFacts DEF Shape, CheckTypes
<1>4. IsRecord(t)
  BY <1>2, <1>3 DEF Selects, Changed
<1>5. won /\ (s.sel # None \/ s.pair[p].nom) <=> won /\ t.sel # None
  BY <1>2, <1>3, SelectSelects DEF Selects
<1>6. CASE won /\ t.sel # None
  <2> DEFINE y == [Put(t, COMPLETED) EXCEPT !.done = TRUE]
  <2>1. CASE t.done
    BY <1>1, <1>2, <1>6, <2>1 DEF Completes
  <2>2. CASE ~t.done
    <3> HIDE DEF t
    <3>1. Puts(t, y, COMPLETED)
      BY <1>4 DEF Put, Puts, Changed, IsRecord, Fields, CheckFields, OtherFields
    <3> QED
      BY <1>1, <1>2, <1>6, <2>2, <3>1 DEF Completes
  <2> QED
    BY <2>1, <2>2
<1>7. CASE ~(won /\ t.sel # None)
  <2>1. t = s
    BY <1>2, <1>3, <1>7 DEF Selects
  <2> HIDE DEF t
  <2>2. u = s \/ \E q \in Paths : NominatesTcp(s, u, a, q)
    BY <2>1, NominateHandles
  <2>3. IsRecord(u) /\ u.done = s.done
    BY <1>3, <2>2 DEF NominatesTcp, Changed, Fields, CheckFields, OtherFields
  <2>4. x = u \/ x = Put(u, FAILED)
    BY <1>1, <1>7
  <2>6. u = nominateTcpPairIfReady(s, a)
    BY <2>1
  <2> HIDE DEF u, x
  <2>5. Puts(u, Put(u, FAILED), FAILED)
    BY <1>3, <2>3 DEF Put, Puts, Changed, IsRecord, Fields, CheckFields, OtherFields, COMPLETED, FAILED
  <2> QED
    BY <1>5, <1>7, <2>4, <2>5, <2>6 DEF GoesOn, x
<1> QED
  BY <1>6, <1>7

LEMMA PairsEndKeeps ==
    ASSUME NEW s, NEW t, s.pair \in [Paths -> Pair], PairsEnd(s, t)
    PROVE  /\ \A q \in Paths : InList(s, q) <=> InList(t, q)
           /\ \A q \in Paths : t.pair[q].st = "SUCCEEDED" <=> s.pair[q].st = "SUCCEEDED"
           /\ \A q \in Paths : t.pair[q].nom = s.pair[q].nom /\ t.pair[q].rnom = s.pair[q].rnom
           /\ Listed(s) => Listed(t)
<1>1. ASSUME NEW q \in Paths
      PROVE  /\ InList(s, q) <=> InList(t, q)
             /\ t.pair[q].st = "SUCCEEDED" <=> s.pair[q].st = "SUCCEEDED"
             /\ t.pair[q].nom = s.pair[q].nom /\ t.pair[q].rnom = s.pair[q].rnom
             /\ InList(s, q) \/ t.pair[q] = s.pair[q]
  <2>1. s.pair[q] \in Pair
    OBVIOUS
  <2>2. CASE t.pair[q] = s.pair[q]
    BY <2>2 DEF InList
  <2>3. CASE t.pair[q] = [s.pair[q] EXCEPT !.st = "FAILED"] /\ s.pair[q].st = "WAITING"
    <3>1. t.pair[q].st = "FAILED" /\ t.pair[q].nom = s.pair[q].nom /\ t.pair[q].rnom = s.pair[q].rnom
      BY <2>1, <2>3 DEF Pair
    <3> QED
      BY <2>3, <3>1 DEF InList
  <2> QED
    BY <2>2, <2>3 DEF PairsEnd
<1> QED
  BY <1>1 DEF Listed

LEMMA SelectsShape ==
    ASSUME NEW s, NEW t, NEW a, NEW p \in Paths, Shape(s), Selects(s, t, a, p)
    PROVE  /\ Shape(t) /\ Changed(s, t, CheckFields) /\ t.tx = s.tx /\ t.queue = s.queue
           /\ t.done = s.done /\ t.state = s.state
<1>1. /\ Changed(s, t, CheckFields) /\ t.tx = s.tx /\ t.queue = s.queue
      /\ t.done = s.done /\ t.state = s.state
  BY DEF Selects, Changed, Fields, CheckFields, OtherFields
<1>2. OtherTypes(t)
  BY <1>1 DEF Changed, Fields, CheckFields, OtherFields, OtherTypes, Shape
<1>3. IsRecord(t) /\ CheckTypes(t)
  BY DEF Selects, Changed
<1> QED
  BY <1>1, <1>2, <1>3 DEF Shape

LEMMA PutShape ==
    ASSUME NEW s, NEW t, NEW res \in Results, Shape(s), Puts(s, t, res)
    PROVE  Shape(t) /\ CheckTypes(t) /\ Changed(s, t, CheckFields)
<1>1. Changed(s, t, CheckFields)
  BY DEF Puts, Changed, Fields, CheckFields, OtherFields
<1>2. OtherTypes(t)
  BY <1>1 DEF Changed, Fields, CheckFields, OtherFields, OtherTypes, Shape
<1>3. t.queue \in Seq(Results) /\ t.done \in BOOLEAN
  BY QueueGrows DEF Puts, Shape, CheckTypes
<1>4. CheckTypes(t)
  BY <1>3 DEF Puts, Shape, CheckTypes, Changed, Fields, CheckFields, OtherFields
<1> QED
  BY <1>1, <1>2, <1>4 DEF Shape, Changed

LEMMA FailureHandles ==
    ASSUME NEW s, NEW t, NEW a, NEW W, Shape(s), Puts(s, t, FAILED)
    PROVE  Handles(s, t, a, W)
<1>1. FAILED \in Results /\ FAILED # COMPLETED
  BY DEF Results, FAILED, COMPLETED
<1>2. Changed(s, t, CheckFields) /\ CheckTypes(t)
  BY <1>1, PutShape
<1>3. /\ t.pair = s.pair /\ t.tx = s.tx /\ t.sel = s.sel /\ t.timer = s.timer /\ t.con = s.con
      /\ t.state = s.state /\ t.fresh = s.fresh /\ t.queue = Append(s.queue, FAILED)
      /\ t.done = s.done
  BY <1>1 DEF Puts, Changed, Fields, CheckFields, OtherFields, Shape, CheckTypes
<1>4. s.queue \in Seq(Results)
  BY DEF Shape, CheckTypes
<1>5. Range(s.queue) \subseteq Range(t.queue)
  BY <1>1, <1>3, <1>4, QueueGrows
<1>6. Consent(s) => Consent(t)
  BY <1>3, <1>5 DEF Consent, Terminal
<1> QED
  BY <1>2, <1>3, <1>6 DEF Handles, InList, Listed

LEMMA CompletingHandles ==
    ASSUME NEW s, NEW x, NEW a, NEW p \in Paths, NEW W, Shape(s), Completes(s, x, a, p)
    PROVE  Handles(s, x, a, W) /\ Shape(x)
<1>1. PICK t : /\ s.pair[p].st = "SUCCEEDED" /\ t.sel # None
               /\ t = s \/ (s.sel = None /\ s.pair[p].nom /\ Selects(s, t, a, p))
               /\ \/ x = t /\ t.done
                  \/ Puts(t, x, COMPLETED) /\ ~t.done
  BY DEF Completes
<1>2. Changed(s, s, CheckFields) /\ PairsEnd(s, s)
  BY DEF Changed, Shape, PairsEnd
<1>3. /\ Shape(t) /\ Changed(s, t, CheckFields) /\ t.tx = s.tx /\ t.queue = s.queue
      /\ t.done = s.done /\ t.state = s.state /\ PairsEnd(s, t)
      /\ t.sel = s.sel \/ (t.sel = p /\ s.sel = None)
      /\ a \in env.lite => t.timer = s.timer /\ t.con = s.con
  BY <1>1, <1>2, SelectsShape DEF Selects
<1>4. /\ Shape(x) /\ Changed(t, x, CheckFields)
      /\ \A f \in {"pair", "tx", "sel", "timer", "con", "state", "fresh"} : x[f] = t[f]
  <2>1. CASE x = t
    BY <1>3, <2>1 DEF Changed, Shape
  <2>2. CASE Puts(t, x, COMPLETED)
    <3>1. Shape(x) /\ Changed(t, x, CheckFields)
      BY <1>3, <2>2, PutShape DEF Results
    <3> QED
      BY <2>2, <3>1 DEF Puts, Changed, Fields, CheckFields, OtherFields
  <2> QED
    BY <1>1, <2>1, <2>2
<1>5. x.done /\ ((x.queue = t.queue /\ t.done) \/ COMPLETED \in Range(x.queue))
  <2>1. t.queue \in Seq(Results) /\ COMPLETED \in Results
    BY <1>3 DEF Shape, CheckTypes, Results
  <2> QED
    BY <1>1, <2>1, QueueGrows DEF Puts
<1>6. Changed(s, x, CheckFields) /\ CheckTypes(x)
  BY <1>3, <1>4 DEF Changed, Shape
<1>7. PairsEnd(s, x)
  BY <1>3, <1>4 DEF PairsEnd
<1>8. /\ \A q \in Paths : InList(s, q) <=> InList(x, q)
      /\ \A q \in Paths : x.pair[q].st = "SUCCEEDED" <=> s.pair[q].st = "SUCCEEDED"
      /\ Listed(s) => Listed(x)
  BY <1>7, PairsEndKeeps DEF Shape, CheckTypes
<1>9. a \notin env.lite /\ Consent(s) => Consent(x)
  <2> SUFFICES ASSUME a \notin env.lite, Consent(s) PROVE Consent(x)
    OBVIOUS
  <2>1. x.sel # None
    BY <1>1, <1>4
  <2>2. CASE t = s
    <3>1. /\ x.sel = s.sel /\ x.timer = s.timer /\ x.state = s.state /\ x.fresh = s.fresh
          /\ Terminal(x) <=> Terminal(s)
      BY <1>4, <2>2 DEF Terminal
    <3>2. COMPLETED \in Range(s.queue) => COMPLETED \in Range(x.queue)
      BY <1>5, <2>2
    <3> QED
      BY <2>1, <3>1, <3>2 DEF Consent
  <2>3. CASE s.sel = None /\ Selects(s, t, a, p)
    <3>1. s.state \in {"connected", "completed"} => x.timer
      BY <1>4, <2>3 DEF Selects
    <3>2. x.state = s.state /\ s.state \in States
      BY <1>3, <1>4 DEF Shape, OtherTypes
    <3>3. s.done => s.state \notin {"new", "completed"}
      BY <2>3 DEF Consent
    <3>4. t.done = s.done
      BY <1>3
    <3> QED
      BY <1>5, <2>1, <3>1, <3>2, <3>3, <3>4 DEF Consent, Terminal, States
  <2> QED
    BY <1>1, <2>2, <2>3
<1>10. x.tx = s.tx /\ (x.sel = s.sel \/ x.sel = p) /\ InList(s, p)
  BY <1>1, <1>3, <1>4 DEF InList
<1>11. a \in env.lite => s.timer = x.timer /\ s.con = x.con
  BY <1>3, <1>4
<1> QED
  BY <1>1, <1>4, <1>6, <1>8, <1>9, <1>10, <1>11 DEF Handles

LEMMA CompleteHandles ==
    ASSUME NEW s, NEW a \in Agents, NEW p \in Paths, NEW W, Shape(s), a \in env.lite => ~s.ctl
    PROVE  Handles(s, checkComplete(s, a, p), a, W) /\ Shape(checkComplete(s, a, p))
<1> DEFINE x == checkComplete(s, a, p)
<1>1. Completes(s, x, a, p) \/ GoesOn(s, x, a, p)
  BY CompleteCases
<1> HIDE DEF x
<1>2. CASE Completes(s, x, a, p)
  BY <1>2, CompletingHandles DEF x
<1>3. CASE GoesOn(s, x, a, p)
  <2>1. PICK t : t = nominateTcpPairIfReady(s, a) /\ (x = t \/ Puts(t, x, FAILED))
    BY <1>3 DEF GoesOn
  <2>2. Handles(s, t, a, W)
    BY <2>1, NominateHandles
  <2>3. Shape(t)
    BY <2>2, HandlesShape
  <2>4. Handles(t, x, a, W)
    BY <2>1, <2>3, HandlesSame, FailureHandles
  <2>5. Handles(s, x, a, W \union W) /\ W \union W = W
    BY <2>2, <2>4, HandlesTrans
  <2> QED
    BY <2>3, <2>4, <2>5, HandlesShape DEF x
<1> QED
  BY <1>1, <1>2, <1>3 DEF x

\* Pair p gets a mark.
MarkHandles(s, t, p) ==
    /\ Changed(s, t, {"pair"}) /\ t.pair \in [Paths -> Pair]
    /\ \A q \in Paths : q # p => t.pair[q] = s.pair[q]
    /\ t.pair[p].st = s.pair[p].st

LEMMA MarkingHandles ==
    ASSUME NEW s, NEW t, NEW a, NEW p \in Paths, NEW W, Shape(s), InList(s, p),
           MarkHandles(s, t, p)
    PROVE  Handles(s, t, a, W) /\ Shape(t) /\ InList(t, p)
<1>1. Changed(s, t, {"cands", "pair", "tx", "nominating", "sent"}) /\ t.tx = s.tx
  BY DEF MarkHandles, Changed, Fields, CheckFields, OtherFields
<1>2. CheckTypes(t)
  BY DEF MarkHandles, Changed, Fields, CheckFields, OtherFields, CheckTypes, Shape
<1>3. \A q \in Paths : t.pair[q].st = s.pair[q].st /\ (InList(s, q) \/ t.pair[q] = s.pair[q])
  BY DEF MarkHandles
<1>4. \A q \in Paths : InList(s, q) <=> InList(t, q)
  BY <1>3 DEF InList
<1>5. Listed(s) => Listed(t)
  BY <1>3, <1>4 DEF Listed
<1>6. Handles(s, t, a, W)
  BY <1>1, <1>2, <1>3, <1>4, <1>5, PairsHandle
<1> QED
  BY <1>4, <1>6, HandlesShape

Nominated(s, p) == [s EXCEPT !.pair[p].nom = TRUE]
Noted(s, p, noted) == [s EXCEPT !.pair[p].rnom = @ \/ noted]
Learned(s, p) == [s EXCEPT !.cands = @ \cup {p},
                           !.pair[p].st = IF @ = "none" THEN "WAITING" ELSE @]

LEMMA NominatedMarks ==
    ASSUME NEW s, NEW p \in Paths, Shape(s)
    PROVE  LET t == Nominated(s, p)
           IN  MarkHandles(s, t, p) /\ t.pair[p] = [s.pair[p] EXCEPT !.nom = TRUE]
<1> DEFINE t == Nominated(s, p)
           pair == [s.pair EXCEPT ![p].nom = TRUE]
<1>1. s.pair \in [Paths -> Pair]
  BY DEF Shape, CheckTypes
<1>2. /\ pair \in [Paths -> Pair] /\ pair[p] = [s.pair[p] EXCEPT !.nom = TRUE]
      /\ pair[p].st = s.pair[p].st /\ \A q \in Paths : q # p => pair[q] = s.pair[q]
  BY <1>1 DEF Pair
<1>3. t = [s EXCEPT !.pair = pair]
  BY DEF Nominated
<1> HIDE DEF pair
<1>4. Changed(s, t, {"pair"}) /\ t.pair = pair
  BY <1>3 DEF Changed, Shape, IsRecord, Fields, CheckFields, OtherFields
<1> QED
  BY <1>2, <1>4 DEF MarkHandles

LEMMA NotedMarks ==
    ASSUME NEW s, NEW p \in Paths, NEW noted \in BOOLEAN, Shape(s)
    PROVE  LET t == Noted(s, p, noted)
           IN  /\ MarkHandles(s, t, p)
               /\ t.pair[p] = [s.pair[p] EXCEPT !.rnom = s.pair[p].rnom \/ noted]
<1> DEFINE t == Noted(s, p, noted)
           pair == [s.pair EXCEPT ![p].rnom = s.pair[p].rnom \/ noted]
<1>1. s.pair \in [Paths -> Pair]
  BY DEF Shape, CheckTypes
<1>2. /\ pair \in [Paths -> Pair]
      /\ pair[p] = [s.pair[p] EXCEPT !.rnom = s.pair[p].rnom \/ noted]
      /\ pair[p].st = s.pair[p].st /\ \A q \in Paths : q # p => pair[q] = s.pair[q]
  BY <1>1 DEF Pair
<1>3. t = [s EXCEPT !.pair = pair]
  BY <1>1 DEF Noted
<1> HIDE DEF pair
<1>4. Changed(s, t, {"pair"}) /\ t.pair = pair
  BY <1>3 DEF Changed, Shape, IsRecord, Fields, CheckFields, OtherFields
<1> QED
  BY <1>2, <1>4 DEF MarkHandles

\* The pair of a candidate that is learned.
Waits(r) == IF r.st = "none" THEN [r EXCEPT !.st = "WAITING"] ELSE r

LEMMA WaitsPair ==
    ASSUME NEW r \in Pair
    PROVE  /\ Waits(r) \in Pair /\ Waits(r).st # "none"
           /\ Waits(r).st = "SUCCEEDED" <=> r.st = "SUCCEEDED"
           /\ Waits(r).nom = r.nom /\ Waits(r).rnom = r.rnom
           /\ [r EXCEPT !.st = IF r.st = "none" THEN "WAITING" ELSE r.st] = Waits(r)
BY DEF Waits, Pair, PairStates

\* The pairs of the candidates in C are formed.
LEMMA FormingHandles ==
    ASSUME NEW s, NEW t, NEW a, NEW C, NEW W, Shape(s),
           Changed(s, t, {"cands", "pair"}), t.cands \subseteq Paths,
           t.pair = [q \in Paths |-> IF q \in C THEN Waits(s.pair[q]) ELSE s.pair[q]]
    PROVE  Handles(s, t, a, W) /\ Shape(t) /\ \A q \in Paths \intersect C : InList(t, q)
<1>1. s.pair \in [Paths -> Pair]
  BY DEF Shape, CheckTypes
<1>2. t.pair \in [Paths -> Pair]
  BY <1>1, WaitsPair
<1>3. ASSUME NEW q \in Paths
      PROVE  /\ InList(s, q) => InList(t, q)
             /\ q \in C => InList(t, q)
             /\ t.pair[q].st = "SUCCEEDED" => s.pair[q].st = "SUCCEEDED"
             /\ InList(t, q) \/ t.pair[q] = s.pair[q]
  BY <1>1, WaitsPair DEF InList, Waits
<1>4. Changed(s, t, {"cands", "pair", "tx", "nominating", "sent"}) /\ t.tx = s.tx
  BY DEF Changed, Fields, CheckFields, OtherFields
<1>5. CheckTypes(t)
  BY <1>2 DEF Changed, Fields, CheckFields, OtherFields, CheckTypes, Shape
<1>6. Listed(s) => Listed(t)
  BY <1>3 DEF Listed
<1>7. Handles(s, t, a, W)
  BY <1>3, <1>4, <1>5, <1>6, PairsHandle
<1> QED
  BY <1>3, <1>7, HandlesShape

LEMMA LearnedForms ==
    ASSUME NEW s, NEW p \in Paths, Shape(s)
    PROVE  LET t == Learned(s, p)
           IN  /\ Changed(s, t, {"cands", "pair"}) /\ t.cands \subseteq Paths
               /\ t.pair = [q \in Paths |-> IF q \in {p} THEN Waits(s.pair[q]) ELSE s.pair[q]]
<1> DEFINE t == Learned(s, p)
           pair == [s.pair EXCEPT ![p].st = IF @ = "none" THEN "WAITING" ELSE @]
           new == [q \in Paths |-> IF q \in {p} THEN Waits(s.pair[q]) ELSE s.pair[q]]
<1>1. s.pair \in [Paths -> Pair] /\ s.cands \subseteq Paths
  BY DEF Shape, CheckTypes
<1>2. pair[p] = Waits(s.pair[p]) /\ \A q \in Paths : q # p => pair[q] = s.pair[q]
  BY <1>1, WaitsPair
<1>3. DOMAIN pair = Paths /\ pair = [q \in DOMAIN pair |-> pair[q]]
  BY <1>1
<1>4. pair = new
  <2>1. \A q \in Paths : pair[q] = new[q]
    BY <1>2
  <2> HIDE DEF pair
  <2> QED
    BY <1>3, <2>1
<1>5. t = [s EXCEPT !.cands = s.cands \cup {p}, !.pair = pair]
  BY DEF Learned
<1> HIDE DEF pair, new
<1>6. Changed(s, t, {"cands", "pair"}) /\ t.pair = pair /\ t.cands = s.cands \cup {p}
  BY <1>5 DEF Changed, Shape, IsRecord, Fields, CheckFields, OtherFields
<1> QED
  BY <1>1, <1>4, <1>6 DEF new

LEMMA HandlesThen ==
    ASSUME NEW s, NEW t, NEW u, NEW a, NEW W, Shape(s), Handles(s, t, a, W), Handles(t, u, a, W)
    PROVE  /\ Handles(s, u, a, W) /\ Shape(u)
           /\ \A p \in Paths : InList(t, p) => InList(u, p)
<1>1. Handles(s, u, a, W \union W) /\ W \union W = W
  BY HandlesTrans
<1> QED
  BY <1>1, HandlesShape DEF Handles

LEMMA WonHandles ==
    ASSUME NEW s, NEW a \in Agents, NEW p \in Paths, NEW W, Shape(s),
           a \in env.lite => ~s.ctl, p \in W
    PROVE  Handles(s, CheckWon(s, a, p), a, W) /\ Shape(CheckWon(s, a, p))
<1> DEFINE t == SetPair(s, p, "SUCCEEDED")
<1>0. "SUCCEEDED" \in PairStates \ {"none"}
  BY DEF PairStates
<1>4. Handles(s, t, a, W)
  BY <1>0, SetPairHandles
<1>1. Handles(s, t, a, W) /\ Shape(t) /\ t.ctl = s.ctl
  BY <1>4, HandlesShape DEF OtherFields
<1>2. CheckWon(s, a, p) = checkComplete(t, a, p)
  BY DEF CheckWon
<1> HIDE DEF t
<1>3. Handles(t, checkComplete(t, a, p), a, W)
  BY <1>1, CompleteHandles
<1> QED
  BY <1>1, <1>2, <1>3, HandlesThen

LEMMA LostHandles ==
    ASSUME NEW s, NEW a \in Agents, NEW p \in Paths, NEW W, Shape(s),
           a \in env.lite => ~s.ctl
    PROVE  Handles(s, CheckFailed(s, a, p), a, W) /\ Shape(CheckFailed(s, a, p))
<1> DEFINE t == SetPair(s, p, "FAILED")
<1>0. "FAILED" \in PairStates \ {"none"}
  BY DEF PairStates
<1>4. Handles(s, t, a, W)
  BY <1>0, SetPairHandles
<1>1. Handles(s, t, a, W) /\ Shape(t) /\ t.ctl = s.ctl
  BY <1>4, HandlesShape DEF OtherFields
<1>2. CheckFailed(s, a, p) = checkComplete(t, a, p)
  BY DEF CheckFailed
<1> HIDE DEF t
<1>3. Handles(t, checkComplete(t, a, p), a, W)
  BY <1>1, CompleteHandles
<1> QED
  BY <1>1, <1>2, <1>3, HandlesThen

\* checkIncoming, step by step.
Started(s, a, p) ==
    IF s.pair[p].st \in {"WAITING", "FAILED"} THEN checkStart(s, a, p) ELSE s

LEMMA IncomingIs ==
    ASSUME NEW s, NEW a, NEW r
    PROVE  LET p == r.path
               t == Learned(s, p)
               noted == r.uc /\ ~s.ctl
               v == Noted(Started(t, a, p), p, noted)
           IN  checkIncoming(s, a, r) =
                 IF a \in env.lite
                 THEN IF noted
                      THEN CheckWon([t EXCEPT !.pair[p].rnom = TRUE, !.pair[p].nom = TRUE], a, p)
                      ELSE t
                 ELSE IF noted /\ v.pair[p].st = "SUCCEEDED"
                      THEN checkComplete(Nominated(v, p), a, p)
                      ELSE v
BY DEF checkIncoming, Learned, Noted, Started, Nominated

LEMMA StartedHandles ==
    ASSUME NEW s, NEW a \in Agents, NEW p \in Paths, NEW W, Shape(s), a \notin env.lite,
           InList(s, p)
    PROVE  Handles(s, Started(s, a, p), a, W) /\ Shape(Started(s, a, p))
           /\ InList(Started(s, a, p), p)
<1>1. CASE s.pair[p].st \in {"WAITING", "FAILED"}
  BY <1>1, StartHandles, HandlesShape DEF Started
<1>2. CASE s.pair[p].st \notin {"WAITING", "FAILED"}
  BY <1>2, HandlesSame DEF Started
<1> QED
  BY <1>1, <1>2

LEMMA BothMarks ==
    ASSUME NEW s, NEW p \in Paths, Shape(s)
    PROVE  LET t == [s EXCEPT !.pair[p].rnom = TRUE, !.pair[p].nom = TRUE]
           IN  /\ MarkHandles(s, t, p)
               /\ t.pair[p] = [s.pair[p] EXCEPT !.rnom = TRUE, !.nom = TRUE]
<1> DEFINE t == [s EXCEPT !.pair[p].rnom = TRUE, !.pair[p].nom = TRUE]
           v == [s EXCEPT !.pair[p].rnom = TRUE]
           noted == [s.pair EXCEPT ![p].rnom = TRUE]
           pair == [noted EXCEPT ![p].nom = TRUE]
<1>1. s.pair \in [Paths -> Pair]
  BY DEF Shape, CheckTypes
<1>2. /\ pair \in [Paths -> Pair] /\ pair[p] = [s.pair[p] EXCEPT !.rnom = TRUE, !.nom = TRUE]
      /\ pair[p].st = s.pair[p].st /\ \A q \in Paths : q # p => pair[q] = s.pair[q]
  BY <1>1 DEF Pair
<1>3. s = [x \in Fields |-> s[x]] /\ "pair" \in Fields
  BY DEF Shape, IsRecord, Fields, CheckFields
<1>4. v = [s EXCEPT !.pair = noted] /\ t = [v EXCEPT !.pair[p].nom = TRUE]
  OBVIOUS
<1> HIDE DEF noted, v
<1>5. v.pair = noted /\ v = [x \in Fields |-> IF x = "pair" THEN noted ELSE s[x]]
  BY <1>3, <1>4
<1>6. t = [v EXCEPT !.pair = pair]
  BY <1>4, <1>5
<1> HIDE DEF pair, t
<1>7. Changed(s, t, {"pair"}) /\ t.pair = pair
  BY <1>3, <1>5, <1>6 DEF Changed, IsRecord
<1> QED
  BY <1>2, <1>7 DEF MarkHandles, t

LEMMA IncomingHandles ==
    ASSUME NEW s, NEW a \in Agents, NEW r \in Requests, NEW W, Shape(s),
           a \in env.lite /\ r.uc => r.path \in W
    PROVE  LET x == checkIncoming(s, a, r)
           IN  Handles(s, x, a, W) /\ Shape(x) /\ InList(x, r.path)
<1> DEFINE p == r.path
           t == Learned(s, p)
           noted == r.uc /\ ~s.ctl
           u == Started(t, a, p)
           v == Noted(u, p, noted)
           w == [t EXCEPT !.pair[p].rnom = TRUE, !.pair[p].nom = TRUE]
           x == checkIncoming(s, a, r)
<1>1. p \in Paths /\ noted \in BOOLEAN
  BY DEF Requests
<1>0. /\ Changed(s, t, {"cands", "pair"}) /\ t.cands \subseteq Paths
      /\ t.pair = [q \in Paths |-> IF q \in {p} THEN Waits(s.pair[q]) ELSE s.pair[q]]
  BY <1>1, LearnedForms
<1>2. Handles(s, t, a, W) /\ Shape(t) /\ InList(t, p)
  <2>1. p \in Paths \intersect {p}
    BY <1>1
  <2> HIDE DEF t, p
  <2>2. Handles(s, t, a, W) /\ Shape(t) /\ \A q \in Paths \intersect {p} : InList(t, q)
    BY <1>0, FormingHandles
  <2> QED
    BY <2>1, <2>2
<1>3. t.ctl = s.ctl
  BY <1>2, HandlesShape DEF OtherFields
<1>4. x = IF a \in env.lite
          THEN IF noted THEN CheckWon(w, a, p) ELSE t
          ELSE IF noted /\ v.pair[p].st = "SUCCEEDED"
               THEN checkComplete(Nominated(v, p), a, p) ELSE v
  BY IncomingIs
<1>5. CASE a \in env.lite /\ ~noted
  BY <1>2, <1>4, <1>5
<1>6. CASE a \in env.lite /\ noted
  <2> HIDE DEF t
  <2>1. MarkHandles(t, w, p)
    BY <1>1, <1>2, BothMarks
  <2> HIDE DEF w, p
  <2>2. Handles(t, w, a, W) /\ Shape(w) /\ InList(w, p)
    BY <1>1, <1>2, <2>1, MarkingHandles
  <2>3. w.ctl = s.ctl
    BY <1>2, <1>3, <2>2, HandlesShape DEF OtherFields
  <2>4. Handles(w, CheckWon(w, a, p), a, W)
    BY <1>1, <1>6, <2>2, <2>3, WonHandles DEF p
  <2>5. Handles(s, w, a, W)
    BY <1>2, <2>2, HandlesThen
  <2> QED
    BY <1>1, <1>4, <1>6, <2>2, <2>4, <2>5, HandlesThen DEF p
<1>7. CASE a \notin env.lite
  <2> HIDE DEF t, noted, p
  <2>1. Handles(t, u, a, W) /\ Shape(u) /\ InList(u, p)
    BY <1>1, <1>2, <1>7, StartedHandles
  <2> HIDE DEF u
  <2>2. Handles(u, v, a, W) /\ Shape(v) /\ InList(v, p)
    BY <1>1, <2>1, NotedMarks, MarkingHandles
  <2> HIDE DEF v
  <2>3. Handles(s, v, a, W)
    BY <1>2, <2>1, <2>2, HandlesThen
  <2>4. CASE ~(noted /\ v.pair[p].st = "SUCCEEDED")
    BY <1>4, <1>7, <2>2, <2>3, <2>4 DEF p
  <2>5. CASE noted /\ v.pair[p].st = "SUCCEEDED"
    <3> DEFINE y == Nominated(v, p)
    <3>1. Handles(v, y, a, W) /\ Shape(y) /\ InList(y, p)
      BY <1>1, <2>2, NominatedMarks, MarkingHandles
    <3> HIDE DEF y
    <3>2. Handles(y, checkComplete(y, a, p), a, W)
      BY <1>1, <1>7, <3>1, CompleteHandles
    <3>3. Handles(s, y, a, W)
      BY <2>3, <3>1, HandlesThen
    <3>4. x = checkComplete(y, a, p)
      BY <1>4, <1>7, <2>5 DEF y
    <3> QED
      BY <1>1, <3>1, <3>2, <3>3, <3>4, HandlesThen DEF p
  <2> QED
    BY <2>4, <2>5
<1> QED
  BY <1>5, <1>6, <1>7

-----------------------------------------------------------------------------
(* The replay of the early checks.                                           *)

LEMMA LeastNumber ==
    ASSUME NEW T \in SUBSET Nat, T # {}
    PROVE  \E x \in T : \A y \in T : x <= y
<1> DEFINE R == OpToRel(<, Nat)
<1>1. IsWellFoundedOn(R, Nat)
  BY NatLessThanWellFounded, Zenon
<1>2. \A x, y \in Nat : y < x => <<y, x>> \in R
  BY DEF OpToRel
<1> HIDE DEF R
<1>4. PICK x \in T : \A y \in T : ~(<<y, x>> \in R)
  BY <1>1, WFMin
<1>5. ASSUME NEW y \in T PROVE x <= y
  <2>1. x \in Nat /\ y \in Nat /\ ~(y < x)
    BY <1>2, <1>4
  <2> QED
    BY <2>1
<1> QED
  BY <1>5

\* f holds the states of the replay of n early checks.
Replays(f, s, a, n) ==
    f = [i \in 0..n |-> IF i = 0 THEN s ELSE checkIncoming(f[i - 1], a, s.early[i])]

LEMMA ReplayExists ==
    ASSUME NEW s, NEW a, NEW n \in Nat
    PROVE  \E f : Replays(f, s, a, n)
<1> DEFINE bad == {m \in Nat : ~\E f : Replays(f, s, a, m)}
<1> SUFFICES ASSUME bad # {} PROVE FALSE
  OBVIOUS
<1>1. PICK m \in bad : \A k \in bad : m <= k
  <2>1. bad \in SUBSET Nat
    OBVIOUS
  <2> HIDE DEF bad
  <2> QED
    BY <2>1, LeastNumber
<1>2. m \in Nat /\ ~\E f : Replays(f, s, a, m)
  BY <1>1
<1>3. m # 0
  <2>1. Replays([i \in 0..0 |-> s], s, a, 0)
    <3> DEFINE f == [i \in 0..0 |-> s]
    <3>1. 0..0 = {0}
      OBVIOUS
    <3> QED
      BY <3>1 DEF Replays
  <2> QED
    BY <1>2, <2>1
<1>4. m - 1 \in Nat /\ m - 1 \notin bad
  <2>1. m - 1 \in Nat /\ ~(m <= m - 1)
    BY <1>2, <1>3
  <2> HIDE DEF bad
  <2> QED
    BY <1>1, <2>1
<1>5. PICK f : Replays(f, s, a, m - 1)
  BY <1>4
<1> DEFINE last == checkIncoming(f[m - 1], a, s.early[m])
           g == [i \in 0..m |-> IF i = m THEN last ELSE f[i]]
           h == [i \in 0..m |-> IF i = 0 THEN s ELSE checkIncoming(g[i - 1], a, s.early[i])]
<1>6. ASSUME NEW i \in 0..m PROVE g[i] = h[i]
  <2>1. CASE i = m
    <3>1. m - 1 \in 0..m /\ m - 1 # m
      BY <1>2, <1>4
    <3>2. g[m - 1] = f[m - 1]
      BY <3>1
    <3> QED
      BY <1>2, <1>3, <2>1, <3>2
  <2>2. CASE i # m
    <3>1. i \in 0..m - 1
      BY <1>2, <2>2
    <3>2. f[i] = IF i = 0 THEN s ELSE checkIncoming(f[i - 1], a, s.early[i])
      BY <1>5, <3>1 DEF Replays
    <3>3. i # 0 => i - 1 \in 0..m /\ i - 1 # m
      BY <1>2, <3>1
    <3>4. i # 0 => g[i - 1] = f[i - 1]
      BY <3>3
    <3> QED
      BY <2>2, <3>2, <3>4
  <2> QED
    BY <2>1, <2>2
<1>7. g = h
  <2>1. g = [i \in 0..m |-> g[i]] /\ h = [i \in 0..m |-> h[i]]
    OBVIOUS
  <2> HIDE DEF g, h
  <2> QED
    BY <1>6, <2>1
<1>8. Replays(g, s, a, m)
  <2> HIDE DEF g
  <2> QED
    BY <1>7 DEF Replays, h
<1> QED
  BY <1>2, <1>8

LEMMA ReplayIs ==
    ASSUME NEW s, NEW a, s.early \in Seq(Requests)
    PROVE  \E f : Replays(f, s, a, Len(s.early)) /\ replay(s, a) = f[Len(s.early)]
<1> DEFINE n == Len(s.early)
           f == CHOOSE f : Replays(f, s, a, n)
<1>1. Replays(f, s, a, n)
  <2>1. n \in Nat
    OBVIOUS
  <2> HIDE DEF n
  <2>2. \E g : Replays(g, s, a, n)
    BY <2>1, ReplayExists
  <2> QED
    BY <2>2
<1>2. replay(s, a) = f[n]
  BY DEF replay, Replays
<1> QED
  BY <1>1, <1>2

LEMMA ReplayHandles ==
    ASSUME NEW s, NEW a \in Agents, NEW W, Shape(s),
           \A i \in 1..Len(s.early) : a \in env.lite /\ s.early[i].uc => s.early[i].path \in W
    PROVE  LET x == replay(s, a)
           IN  /\ Handles(s, x, a, W) /\ Shape(x)
               /\ \A i \in 1..Len(s.early) : InList(x, s.early[i].path)
<1> DEFINE n == Len(s.early)
<1>1. s.early \in Seq(Requests) /\ n \in Nat /\ \A i \in 1..n : s.early[i] \in Requests
  BY DEF Shape, OtherTypes
<1>2. PICK f : Replays(f, s, a, n) /\ replay(s, a) = f[n]
  BY <1>1, ReplayIs
<1> DEFINE Good(i) == /\ Handles(s, f[i], a, W) /\ Shape(f[i])
                      /\ \A j \in 1..i : InList(f[i], s.early[j].path)
           bad == {i \in 0..n : ~Good(i)}
<1>3. bad = {}
  <2> SUFFICES ASSUME bad # {} PROVE FALSE
    OBVIOUS
  <2>1. bad \in SUBSET Nat
    OBVIOUS
  <2>2. PICK m \in bad : \A k \in bad : m <= k
    <3> HIDE DEF bad
    <3> QED
      BY <2>1, LeastNumber
  <2>3. m \in 0..n /\ ~Good(m)
    BY <2>2
  <2>4. f[m] = IF m = 0 THEN s ELSE checkIncoming(f[m - 1], a, s.early[m])
    BY <1>2, <2>3 DEF Replays
  <2>5. CASE m = 0
    <3>1. Handles(s, s, a, W)
      BY HandlesSame
    <3>2. \A j \in 1..m : FALSE
      BY <2>5
    <3> QED
      BY <2>3, <2>4, <2>5, <3>1, <3>2
  <2>6. CASE m # 0
    <3>1. m - 1 \in 0..n /\ ~(m <= m - 1) /\ m \in 1..n
      BY <1>1, <2>3, <2>6
    <3>2. Good(m - 1)
      <4>1. m - 1 \notin bad
        <5> HIDE DEF bad
        <5> QED
          BY <2>2, <3>1
      <4> HIDE DEF Good
      <4> QED
        BY <3>1, <4>1
    <3> DEFINE t == f[m - 1]
               r == s.early[m]
               x == checkIncoming(t, a, r)
    <3>3. Handles(s, t, a, W) /\ Shape(t) /\ r \in Requests
      BY <1>1, <3>1, <3>2
    <3>4. a \in env.lite /\ r.uc => r.path \in W
      BY <3>1
    <3>5. f[m] = x
      BY <2>4, <2>6
    <3>6. \A j \in 1..m - 1 : InList(t, s.early[j].path) /\ s.early[j].path \in Paths
      <4>1. \A j \in 1..m - 1 : j \in 1..n
        BY <1>1, <3>1
      <4> QED
        BY <1>1, <3>2, <4>1 DEF Requests
    <3> HIDE DEF t
    <3>7. Handles(t, x, a, W) /\ Shape(x) /\ InList(x, r.path)
      <4> HIDE DEF r
      <4> QED
        BY <3>3, <3>4, IncomingHandles
    <3> HIDE DEF x
    <3>8. Handles(s, x, a, W) /\ \A p \in Paths : InList(t, p) => InList(x, p)
      BY <3>3, <3>7, HandlesThen
    <3>9. ASSUME NEW j \in 1..m PROVE InList(x, s.early[j].path)
      <4>1. CASE j = m
        BY <3>7, <4>1
      <4>2. CASE j # m
        <5>1. j \in 1..m - 1
          BY <3>1, <4>2
        <5> QED
          BY <3>6, <3>8, <5>1
      <4> QED
        BY <4>1, <4>2
    <3>10. Good(m)
      BY <3>5, <3>7, <3>8, <3>9
    <3> QED
      BY <2>3, <3>10
  <2> QED
    BY <2>5, <2>6
<1>4. n \in 0..n
  BY <1>1
<1>5. Good(n)
  <2> HIDE DEF Good
  <2> QED
    BY <1>3, <1>4
<1> QED
  BY <1>2, <1>5

-----------------------------------------------------------------------------
(* The end of a check.                                                       *)

Cleared(s, p) == [s EXCEPT !.tx[p] = NoRequest]
SetNominating(s, b) == [s EXCEPT !.nominating = b]

LEMMA ClearedHandles ==
    ASSUME NEW s, NEW a, NEW p \in Paths, NEW W, Shape(s), a \notin env.lite
    PROVE  LET t == Cleared(s, p)
           IN  /\ Handles(s, t, a, W) /\ Shape(t) /\ Changed(s, t, {"tx"})
               /\ t.tx = [s.tx EXCEPT ![p] = NoRequest]
<1> DEFINE t == Cleared(s, p)
           tx == [s.tx EXCEPT ![p] = NoRequest]
<1>1. tx \in [Paths -> MaybeRequest] /\ \A q \in Paths : tx[q] \in {s.tx[q], NoRequest}
  BY DEF Shape, CheckTypes, MaybeRequest
<1>2. t = [s EXCEPT !.tx = tx]
  BY DEF Cleared
<1> HIDE DEF tx
<1>3. Changed(s, t, {"tx"}) /\ t.tx = tx
  BY <1>2 DEF Changed, Shape, IsRecord, Fields, CheckFields, OtherFields
<1> HIDE DEF t
<1>4. Changed(s, t, {"cands", "pair", "tx", "nominating", "sent"}) /\ t.pair = s.pair
  BY <1>3 DEF Changed, Fields, CheckFields, OtherFields
<1>5. CheckTypes(t)
  BY <1>1, <1>3 DEF Changed, Fields, CheckFields, OtherFields, CheckTypes, Shape
<1>6. Handles(s, t, a, W)
  BY <1>1, <1>3, <1>4, <1>5, PairsHandle DEF InList, Listed
<1> QED
  BY <1>3, <1>6, HandlesShape DEF t, tx

LEMMA NominatingHandles ==
    ASSUME NEW s, NEW a, NEW b \in BOOLEAN, NEW W, Shape(s)
    PROVE  LET t == SetNominating(s, b)
           IN  /\ Handles(s, t, a, W) /\ Shape(t) /\ Changed(s, t, {"nominating"})
               /\ t.nominating = b
<1> DEFINE t == SetNominating(s, b)
<1>1. Changed(s, t, {"nominating"}) /\ t.nominating = b
  BY DEF SetNominating, Changed, Shape, IsRecord, Fields, CheckFields, OtherFields
<1> HIDE DEF t
<1>2. /\ Changed(s, t, {"cands", "pair", "tx", "nominating", "sent"})
      /\ t.pair = s.pair /\ t.tx = s.tx
  BY <1>1 DEF Changed, Fields, CheckFields, OtherFields
<1>3. CheckTypes(t)
  BY <1>1 DEF Changed, Fields, CheckFields, OtherFields, CheckTypes, Shape
<1>4. Handles(s, t, a, W)
  BY <1>2, <1>3, PairsHandle DEF InList, Listed
<1> QED
  BY <1>1, <1>4, HandlesShape DEF t

LEMMA AnsweredIs ==
    ASSUME NEW s, NEW a, NEW r \in Requests, r.kind # "consent"
    PROVE  LET p == r.path
               t == Cleared(s, p)
               marked == r.uc \/ s.pair[p].rnom
               later == s.ctl /\ Peer(a) \notin env.lite /\ env.tcp
           IN  Answered(s, a, r) =
                 IF r.kind = "check"
                 THEN IF marked THEN CheckWon(Nominated(t, p), a, p)
                      ELSE IF ~later /\ s.ctl /\ ~s.nominating
                           THEN SendOn(SetNominating(t, TRUE), a, p, "nominate", TRUE)
                           ELSE CheckWon(t, a, p)
                 ELSE IF r.kind = "nominate" THEN CheckWon(Nominated(t, p), a, p)
                      ELSE checkComplete(SetNominating(Nominated(t, p), FALSE), a, p)
<1>1. r.kind \in {"check", "nominate", "tcpnom"}
  BY DEF Requests
<1>2. CASE r.kind = "check"
  <2> DEFINE marked == r.uc \/ s.pair[r.path].rnom
             t == Cleared(s, r.path)
             one == CheckWon(Nominated(t, r.path), a, r.path)
             two == SendOn(SetNominating(t, TRUE), a, r.path, "nominate", TRUE)
             three == CheckWon(t, a, r.path)
             later == s.ctl /\ Peer(a) \notin env.lite /\ env.tcp
  <2>1. Answered(s, a, r) =
          CASE r.kind = "check" /\ marked -> one
            [] r.kind = "check" /\ ~marked ->
                 IF ~later /\ s.ctl /\ ~s.nominating THEN two ELSE three
            [] r.kind = "nominate" -> one
            [] r.kind = "tcpnom" ->
                 checkComplete(SetNominating(Nominated(t, r.path), FALSE), a, r.path)
    BY DEF Answered, Cleared, Nominated, SetNominating
  <2> HIDE DEF marked, one, two, three, later
  <2>2. CASE marked
    <3>1. Answered(s, a, r) = one
      BY <1>2, <2>1, <2>2
    <3> QED
      BY <1>2, <2>2, <3>1 DEF marked, one
  <2>3. CASE ~marked
    <3>1. Answered(s, a, r) = IF ~later /\ s.ctl /\ ~s.nominating THEN two ELSE three
      BY <1>2, <2>1, <2>3
    <3> QED
      BY <1>2, <2>3, <3>1 DEF marked, two, three, later
  <2> QED
    BY <2>2, <2>3
<1>3. CASE r.kind = "nominate"
  BY <1>3 DEF Answered, Cleared, Nominated, SetNominating
<1>4. CASE r.kind = "tcpnom"
  BY <1>4 DEF Answered, Cleared, Nominated, SetNominating
<1> QED
  BY <1>1, <1>2, <1>3, <1>4

LEMMA FailedIs ==
    ASSUME NEW s, NEW a, NEW r, Shape(s)
    PROVE  Failed(s, a, r) =
             CheckFailed(SetNominating(Cleared(s, r.path), s.nominating /\ r.kind = "check"), a, r.path)
<1>1. [s EXCEPT !.tx[r.path] = NoRequest, !.nominating = @ /\ r.kind = "check"]
        = SetNominating(Cleared(s, r.path), s.nominating /\ r.kind = "check")
  <2> DEFINE tx == [s.tx EXCEPT ![r.path] = NoRequest]
             b == s.nominating /\ r.kind = "check"
             u == [s EXCEPT !.tx[r.path] = NoRequest, !.nominating = @ /\ r.kind = "check"]
             v == SetNominating(Cleared(s, r.path), b)
  <2>1. Cleared(s, r.path) = [s EXCEPT !.tx = tx]
    BY DEF Cleared
  <2>2. u = [s EXCEPT !.tx = tx, !.nominating = b]
    BY DEF Shape, IsRecord, Fields, CheckFields, OtherFields
  <2>3. v = [[s EXCEPT !.tx = tx] EXCEPT !.nominating = b]
    BY <2>1 DEF SetNominating
  <2> HIDE DEF tx, b, u, v
  <2>4. u = v
    BY <2>2, <2>3
  <2> QED
    BY <2>4 DEF u, v, b
<1> QED
  BY <1>1 DEF Failed

LEMMA AnsweredHandles ==
    ASSUME NEW s, NEW a \in Agents, NEW r \in Requests, NEW W, Shape(s), a \notin env.lite,
           r.kind # "consent", InList(s, r.path), r.path \in W
    PROVE  Handles(s, Answered(s, a, r), a, W) /\ Shape(Answered(s, a, r))
<1> DEFINE p == r.path
           t == Cleared(s, p)
           n == Nominated(t, p)
           yes == TRUE
           no == FALSE
           m == SetNominating(t, yes)
           o == SetNominating(n, no)
           x == Answered(s, a, r)
<1>1. p \in Paths /\ yes \in BOOLEAN /\ no \in BOOLEAN
  BY DEF Requests
<1>2. \/ x = CheckWon(n, a, p) \/ x = CheckWon(t, a, p)
      \/ x = SendOn(m, a, p, "nominate", yes) \/ x = checkComplete(o, a, p)
  BY AnsweredIs
<1> HIDE DEF p, x, yes, no
<1>3. Handles(s, t, a, W) /\ Shape(t)
  BY <1>1, ClearedHandles
<1>4. InList(t, p)
  BY <1>1, <1>3 DEF Handles, p
<1> HIDE DEF t
<1>5. Handles(t, n, a, W) /\ Shape(n)
  BY <1>1, <1>3, <1>4, NominatedMarks, MarkingHandles
<1>6. Handles(t, m, a, W) /\ Shape(m)
  BY <1>1, <1>3, NominatingHandles
<1> HIDE DEF n, m
<1>7. Handles(n, o, a, W) /\ Shape(o)
  BY <1>1, <1>5, NominatingHandles
<1> HIDE DEF o
<1>8. Handles(s, n, a, W) /\ Handles(s, m, a, W)
  BY <1>3, <1>5, <1>6, HandlesThen
<1>9. Handles(s, o, a, W)
  BY <1>7, <1>8, HandlesThen
<1>10. p \in W
  BY DEF p
<1>11. CASE x = CheckWon(n, a, p)
  <2>1. Handles(n, x, a, W)
    BY <1>1, <1>5, <1>10, <1>11, WonHandles
  <2> QED
    BY <1>8, <2>1, HandlesThen DEF x
<1>12. CASE x = CheckWon(t, a, p)
  <2>1. Handles(t, x, a, W)
    BY <1>1, <1>3, <1>10, <1>12, WonHandles
  <2> QED
    BY <1>3, <2>1, HandlesThen DEF x
<1>13. CASE x = SendOn(m, a, p, "nominate", yes)
  <2>1. InList(m, p)
    BY <1>1, <1>4, <1>6 DEF Handles
  <2>2. Handles(m, x, a, W)
    BY <1>1, <1>6, <1>13, <2>1, SendHandles
  <2> QED
    BY <1>8, <2>2, HandlesThen DEF x
<1>14. CASE x = checkComplete(o, a, p)
  <2>1. Handles(o, x, a, W)
    BY <1>1, <1>7, <1>14, CompleteHandles
  <2> QED
    BY <1>9, <2>1, HandlesThen DEF x
<1> QED
  BY <1>2, <1>11, <1>12, <1>13, <1>14

LEMMA FailedHandles ==
    ASSUME NEW s, NEW a \in Agents, NEW r \in Requests, NEW W, Shape(s), a \notin env.lite
    PROVE  Handles(s, Failed(s, a, r), a, W) /\ Shape(Failed(s, a, r))
<1> DEFINE p == r.path
           t == Cleared(s, p)
           b == s.nominating /\ r.kind = "check"
           n == SetNominating(t, b)
           x == Failed(s, a, r)
<1>1. p \in Paths /\ b \in BOOLEAN
  BY DEF Requests
<1>2. x = CheckFailed(n, a, p)
  BY FailedIs
<1> HIDE DEF p, x, b
<1>3. Handles(s, t, a, W) /\ Shape(t)
  BY <1>1, ClearedHandles
<1> HIDE DEF t
<1>4. Handles(t, n, a, W) /\ Shape(n)
  BY <1>1, <1>3, NominatingHandles
<1> HIDE DEF n
<1>5. Handles(n, x, a, W)
  BY <1>1, <1>2, <1>4, LostHandles
<1>6. Handles(s, n, a, W)
  BY <1>3, <1>4, HandlesThen
<1> QED
  BY <1>5, <1>6, HandlesThen DEF x

-----------------------------------------------------------------------------
(* The invariant of the two agents.                                          *)

Environment ==
    [lite : SUBSET Agents, tcp : BOOLEAN, timeouts : Nat, losses : Nat,
     restarters : SUBSET Agents, closers : SUBSET Agents, consents : Nat,
     trickle : BOOLEAN, used : SUBSET Paths, timely : BOOLEAN]

EnvironmentOK == env \in Environment /\ (env.timely => env.timeouts = 0)

Typed == /\ agent \in [Agents -> AgentRecord]
         /\ net \subseteq Requests
         /\ answers \subseteq [req : Requests, ok : BOOLEAN]
         /\ EnvironmentOK

\* What agent a may rely on in its own state s.
Local(s, a) ==
    /\ Shape(s) /\ Listed(s)
    /\ ~s.params => ~s.earlyDone /\ \A p \in Paths : ~InList(s, p)
    /\ \A p \in Paths : s.tx[p] # NoRequest =>
          /\ s.tx[p].from = a /\ s.tx[p].path = p /\ s.tx[p].gen = s.gen
          /\ s.tx[p].kind # "consent" /\ InList(s, p)
    /\ s.sel # None => InList(s, s.sel)
    /\ \A i \in 1..Len(s.early) : s.early[i].from = Peer(a)
    /\ a \in env.lite => /\ s.phase # "scheduling" /\ s.old # "scheduling"
                         /\ ~s.timer /\ s.con = NoRequest
                         /\ \A p \in Paths : s.tx[p] = NoRequest
    /\ a \notin env.lite => Consent(s)

\* No agent with remote credentials is ahead of its peer.
Follows == \A a \in Agents : agent[a].params => agent[a].gen <= agent[Peer(a)].gen

EarlyOf(s) == {s.early[i] : i \in 1..Len(s.early)}
Known(s, p) == InList(s, p) \/ \E r \in EarlyOf(s) : r.path = p
SentOn(s) == {s.tx[p] : p \in Paths} \ {NoRequest}

\* Requests under way: in the network, answered, or kept by the agent that got them.
Around == net \union {x.req : x \in answers} \union EarlyOf(agent["A"]) \union EarlyOf(agent["B"])

\* Who sends a request has the pair, until the generation ends.
RequestOK(r) ==
    /\ r.from \notin env.lite
    /\ \A a \in Agents : r.gen <= agent[a].gen
    /\ r.gen = agent[r.from].gen => InList(agent[r.from], r.path)

RequestsOK == \A r \in Around : RequestOK(r)

\* What is answered is known.
AnswersKnown ==
    \A x \in answers :
        x.ok /\ agent[Peer(x.req.from)].gen = x.req.gen =>
            Known(agent[Peer(x.req.from)], x.req.path)

Comparable(a) == SameGeneration /\ (a \in env.lite => agent[a].gen = 0)

SuccessKnown ==
    \A a \in Agents : Comparable(a) =>
        \A p \in Paths : agent[a].pair[p].st = "SUCCEEDED" \/ agent[a].sel = p =>
            Known(agent[Peer(a)], p)

BaseInv ==
    /\ Typed /\ (\A a \in Agents : Local(agent[a], a)) /\ Follows
    /\ RequestsOK /\ AnswersKnown /\ SuccessKnown

LEMMA TypeIsShape ==
    ASSUME NEW s \in AgentRecord
    PROVE  Shape(s)
<1>1. s = [f \in Fields |-> s[f]]
  BY DEF AgentRecord, Fields, CheckFields, OtherFields
<1>2. CheckTypes(s) /\ OtherTypes(s)
  BY DEF AgentRecord, CheckTypes, OtherTypes, Pair, MaybeRequest, Results, Phases, States
<1> QED
  BY <1>1, <1>2 DEF Shape, IsRecord

LEMMA PeerFacts ==
    /\ \A a \in Agents : Peer(a) \in Agents /\ Peer(a) # a /\ Peer(Peer(a)) = a
    /\ \A a, b \in Agents : b = a \/ b = Peer(a)
BY DEF Agents, Peer

\* Agent a moves on within its generation: pairs in W succeed, requests in E are kept.
Moves(s, t, a, W, E) ==
    /\ t.gen = s.gen
    /\ \A p \in Paths : InList(s, p) => InList(t, p)
    /\ \A p \in Paths : t.tx[p] \in {s.tx[p], NoRequest} \/ NewRequest(t.tx[p], t, a, p)
    /\ \A p \in Paths : t.pair[p].st = "SUCCEEDED" => s.pair[p].st = "SUCCEEDED" \/ p \in W
    /\ \A p \in Paths : t.sel = p => s.sel = p \/ s.pair[p].st = "SUCCEEDED" \/ p \in W
    /\ \A p \in Paths : Known(s, p) => Known(t, p)
    /\ EarlyOf(t) \subseteq EarlyOf(s) \union E

\* A step of agent a to t; N are requests it sends besides its checks, X its answers.
Step(a, t, W, E, N, X) ==
    /\ agent' = [agent EXCEPT ![a] = t]
    /\ Local(t, a) /\ Moves(agent[a], t, a, W, E)
    /\ t.params => agent[a].params \/ agent[a].gen <= agent[Peer(a)].gen
    /\ \A p \in W : Comparable(a) => Known(agent[Peer(a)], p)
    /\ E \subseteq net
    /\ net' \subseteq net \union SentOn(t) \union N
    /\ \A r \in N : /\ r \in Requests /\ r.from = a /\ a \notin env.lite /\ r.gen = t.gen
                    /\ r.ctl = t.ctl /\ InList(t, r.path)
    /\ answers' \subseteq answers \union X
    /\ \A x \in X : /\ x \in [req : Requests, ok : BOOLEAN] /\ x.req \in net /\ x.req.from = Peer(a)
                    /\ x.ok => Known(t, x.req.path)
    /\ EnvironmentOK'
    /\ env'.lite = env.lite /\ env'.tcp = env.tcp /\ env'.timely = env.timely

\* A step that starts a new generation.
Restarts(a, t) ==
    /\ agent' = [agent EXCEPT ![a] = t]
    /\ Local(t, a) /\ t.gen > agent[a].gen
    /\ t.params => t.gen <= agent[Peer(a)].gen
    /\ \A p \in Paths : t.pair[p].st # "SUCCEEDED" /\ t.sel # p
    /\ EarlyOf(t) = {}
    /\ net' = net /\ answers' = answers /\ EnvironmentOK'
    /\ env'.lite = env.lite /\ env'.tcp = env.tcp /\ env'.timely = env.timely

LEMMA TypedShape ==
    ASSUME Typed, NEW a \in Agents
    PROVE  Shape(agent[a]) /\ agent[a] \in AgentRecord /\ agent[a].gen \in Nat
BY TypeIsShape DEF Typed, Shape, OtherTypes

LEMMA NewAgent ==
    ASSUME Typed, NEW a \in Agents, NEW t, Shape(t), agent' = [agent EXCEPT ![a] = t]
    PROVE  /\ agent' \in [Agents -> AgentRecord]
           /\ agent'[a] = t /\ agent'[Peer(a)] = agent[Peer(a)]
           /\ \A b \in Agents : b # a => agent'[b] = agent[b]
<1>1. t \in AgentRecord
  BY ShapeIsType
<1> QED
  BY <1>1, PeerFacts DEF Typed

LEMMA EarlyIn ==
    ASSUME NEW a \in Agents
    PROVE  EarlyOf(agent[a]) \subseteq Around
BY DEF Around, Agents

\* The requests a step leaves under way were so before, or are new.
LEMMA AroundAfter ==
    ASSUME BaseInv, NEW a \in Agents, NEW t, NEW W, NEW E, NEW N, NEW X,
           Step(a, t, W, E, N, X), NEW r \in Around'
    PROVE  r \in Around \/ r \in SentOn(t) \/ r \in N
<1>1. /\ agent'[a] = t /\ \A b \in Agents : b # a => agent'[b] = agent[b]
  BY NewAgent DEF BaseInv, Step, Local
<1>2. CASE r \in net'
  BY <1>2 DEF Step, Around
<1>3. CASE \E x \in answers' : r = x.req
  BY <1>3 DEF Step, Around
<1>4. CASE r \in EarlyOf(agent'["A"]) \/ r \in EarlyOf(agent'["B"])
  <2>1. PICK b \in Agents : r \in EarlyOf(agent'[b])
    BY <1>4 DEF Agents
  <2>2. CASE b # a
    BY <1>1, <2>1, <2>2, EarlyIn
  <2>3. CASE b = a
    <3>1. EarlyOf(t) \subseteq EarlyOf(agent[a]) \union E /\ E \subseteq net
      BY DEF Step, Moves
    <3>2. net \subseteq Around
      BY DEF Around
    <3> QED
      BY <1>1, <2>1, <2>3, <3>1, <3>2, EarlyIn
  <2> QED
    BY <2>2, <2>3
<1> QED
  BY <1>2, <1>3, <1>4 DEF Around

LEMMA StepKeeps ==
    ASSUME BaseInv, NEW a \in Agents, NEW t, NEW W, NEW E, NEW N, NEW X,
           Step(a, t, W, E, N, X)
    PROVE  BaseInv'
<1> DEFINE s == agent[a]
           b == Peer(a)
<1>1. /\ agent' \in [Agents -> AgentRecord]
      /\ agent'[a] = t /\ agent'[b] = agent[b] /\ b \in Agents /\ b # a /\ Peer(b) = a
      /\ \A c \in Agents : c = a \/ c = b
  BY NewAgent, PeerFacts DEF BaseInv, Step, Local
<1>2. Shape(t) /\ t.gen = s.gen /\ Local(s, a) /\ Local(agent[b], b) /\ s.gen \in Nat /\ agent[b].gen \in Nat
  BY <1>1, TypedShape DEF BaseInv, Step, Moves, Local
<1>3. Typed'
  <2>1. SentOn(t) \subseteq Requests
    BY <1>2 DEF SentOn, Shape, CheckTypes, MaybeRequest
  <2>2. net' \subseteq Requests
    BY <2>1 DEF Step, BaseInv, Typed
  <2>3. answers' \subseteq [req : Requests, ok : BOOLEAN]
    BY DEF Step, BaseInv, Typed
  <2> QED
    BY <1>1, <2>2, <2>3 DEF Typed, Step
<1>4. \A c \in Agents : Local(agent[c], c)'
  <2>1. env'.lite = env.lite
    BY DEF Step
  <2>2. Local(t, a)
    BY DEF Step
  <2>3. Local(agent'[a], a) /\ Local(agent'[b], b)
    BY <1>1, <1>2, <2>2
  <2>4. ASSUME NEW c \in Agents PROVE Local(agent[c], c)'
    <3>1. Local(agent'[c], c)
      BY <1>1, <2>3
    <3> QED
      BY <2>1, <3>1 DEF Local
  <2> QED
    BY <2>4
<1>5. Follows'
  <2>1. agent[b].params => agent[b].gen <= s.gen
    BY <1>1 DEF BaseInv, Follows
  <2>2. t.params => s.gen <= agent[b].gen
    BY DEF BaseInv, Follows, Step
  <2> QED
    BY <1>1, <1>2, <2>1, <2>2 DEF Follows
<1>6. RequestsOK'
  <2> SUFFICES ASSUME NEW r \in Around' PROVE RequestOK(r)'
    BY DEF RequestsOK
  <2>1. env'.lite = env.lite /\ \A p \in Paths : InList(s, p) => InList(t, p)
    BY DEF Step, Moves
  <2>2. CASE r \in Around
    <3>1. RequestOK(r)
      BY <2>2 DEF BaseInv, RequestsOK
    <3>2. r.from \in Agents /\ r.path \in Paths
      <4>1. r \in Requests
        <5>1. \A c \in Agents : EarlyOf(agent[c]) \subseteq Requests
          BY TypedShape DEF BaseInv, EarlyOf, Shape, OtherTypes
        <5> QED
          BY <2>2, <5>1 DEF Around, BaseInv, Typed, Agents
      <4> QED
        BY <4>1 DEF Requests
    <3> QED
      BY <1>1, <1>2, <2>1, <3>1, <3>2 DEF RequestOK, InList
  <2>3. CASE r \in SentOn(t) \/ r \in N
    <3>1. r.from = a /\ r.gen = t.gen /\ InList(t, r.path) /\ a \notin env.lite
      <4>1. CASE r \in SentOn(t)
        BY <4>1 DEF SentOn, Step, Local
      <4>2. CASE r \in N
        BY <4>2 DEF Step
      <4> QED
        BY <2>3, <4>1, <4>2
    <3>2. r.path \in Paths
      <4>1. CASE r \in SentOn(t)
        BY <4>1 DEF SentOn, Step, Local
      <4>2. CASE r \in N
        BY <4>2 DEF Step, Requests
      <4> QED
        BY <2>3, <4>1, <4>2
    <3>3. t.params
      BY <3>1, <3>2 DEF Step, Local
    <3>4. t.gen <= agent[b].gen
      BY <1>2, <3>3 DEF BaseInv, Follows, Step
    <3> QED
      BY <1>1, <1>2, <2>1, <3>1, <3>4 DEF RequestOK, InList
  <2> QED
    BY <2>2, <2>3, AroundAfter
<1>7. AnswersKnown'
  <2> SUFFICES ASSUME NEW x \in answers', x.ok, agent'[Peer(x.req.from)].gen = x.req.gen
               PROVE  Known(agent'[Peer(x.req.from)], x.req.path)
    BY DEF AnswersKnown, Known, InList, EarlyOf
  <2>1. x.req \in Requests /\ x.req.from \in Agents /\ x.req.path \in Paths
    BY <1>3 DEF Typed, Requests
  <2>2. CASE x \in answers
    <3>1. agent[Peer(x.req.from)].gen = x.req.gen => Known(agent[Peer(x.req.from)], x.req.path)
      BY <2>2 DEF BaseInv, AnswersKnown
    <3>2. \A p \in Paths : Known(s, p) => Known(t, p)
      BY DEF Step, Moves
    <3>3. Peer(x.req.from) = a \/ Peer(x.req.from) = b
      BY <1>1, <2>1, PeerFacts
    <3> QED
      BY <1>1, <1>2, <2>1, <3>1, <3>2, <3>3
  <2>3. CASE x \in X
    BY <1>1, <2>3 DEF Step
  <2> QED
    BY <2>2, <2>3 DEF Step
<1>8. SuccessKnown'
  <2> SUFFICES ASSUME NEW c \in Agents, Comparable(c)', NEW p \in Paths,
                      agent'[c].pair[p].st = "SUCCEEDED" \/ agent'[c].sel = p
               PROVE  Known(agent'[Peer(c)], p)
    BY DEF SuccessKnown, Known, InList, EarlyOf
  <2>1. Comparable(c)
    <3>1. \A d \in Agents : agent'[d].gen = agent[d].gen
      BY <1>1, <1>2
    <3>2. env'.lite = env.lite
      BY DEF Step
    <3>3. SameGeneration
      BY <3>1 DEF Comparable, SameGeneration, Agents
    <3> QED
      BY <3>1, <3>2, <3>3 DEF Comparable
  <2>2. CASE c = a
    <3>1. \/ s.pair[p].st = "SUCCEEDED" \/ s.sel = p \/ p \in W
      BY <1>1, <2>2 DEF Step, Moves
    <3>2. CASE p \in W
      BY <1>1, <2>1, <2>2, <3>2 DEF Step
    <3>3. CASE s.pair[p].st = "SUCCEEDED" \/ s.sel = p
      <4>1. Known(agent[b], p)
        BY <2>1, <2>2, <3>3 DEF BaseInv, SuccessKnown
      <4> QED
        BY <1>1, <2>2, <4>1
    <3> QED
      BY <3>1, <3>2, <3>3
  <2>3. CASE c = b
    <3>1. Known(s, p)
      BY <1>1, <2>1, <2>3 DEF BaseInv, SuccessKnown
    <3>2. Known(t, p)
      BY <3>1 DEF Step, Moves
    <3> QED
      BY <1>1, <2>3, <3>2
  <2> QED
    BY <1>1, <2>2, <2>3
<1> QED
  BY <1>3, <1>4, <1>5, <1>6, <1>7, <1>8 DEF BaseInv

LEMMA RestartKeeps ==
    ASSUME BaseInv, NEW a \in Agents, NEW t, Restarts(a, t)
    PROVE  BaseInv'
<1> DEFINE s == agent[a]
           b == Peer(a)
<1>1. /\ agent' \in [Agents -> AgentRecord]
      /\ agent'[a] = t /\ agent'[b] = agent[b] /\ b \in Agents /\ b # a /\ Peer(b) = a
      /\ \A c \in Agents : c = a \/ c = b
  BY NewAgent, PeerFacts DEF BaseInv, Restarts, Local
<1>2. /\ Shape(t) /\ t.gen > s.gen /\ Local(s, a) /\ Local(agent[b], b)
      /\ s.gen \in Nat /\ agent[b].gen \in Nat /\ t.gen \in Nat
  BY <1>1, TypedShape DEF BaseInv, Restarts, Local, Shape, OtherTypes
<1>3. Typed'
  BY <1>1 DEF BaseInv, Typed, Restarts
<1>4. \A c \in Agents : Local(agent[c], c)'
  <2>1. env'.lite = env.lite
    BY DEF Restarts
  <2>2. Local(t, a)
    BY DEF Restarts
  <2>3. ASSUME NEW c \in Agents PROVE Local(agent[c], c)'
    <3>1. Local(agent'[c], c)
      BY <1>1, <1>2, <2>2
    <3> QED
      BY <2>1, <3>1 DEF Local
  <2> QED
    BY <2>3
<1>5. agent[b].params => agent[b].gen <= s.gen
  BY <1>1 DEF BaseInv, Follows
<1>6. Follows'
  BY <1>1, <1>2, <1>5 DEF Follows, Restarts
<1>7. RequestsOK'
  <2> SUFFICES ASSUME NEW r \in Around' PROVE RequestOK(r)'
    BY DEF RequestsOK
  <2>1. r \in Around
    <3>1. EarlyOf(agent'["A"]) \subseteq EarlyOf(agent["A"]) /\ EarlyOf(agent'["B"]) \subseteq EarlyOf(agent["B"])
      BY <1>1 DEF Restarts, Agents
    <3> QED
      BY <3>1 DEF Around, Restarts
  <2>2. RequestOK(r)
    BY <2>1 DEF BaseInv, RequestsOK
  <2>3. r \in Requests
    <3>1. \A c \in Agents : EarlyOf(agent[c]) \subseteq Requests
      BY TypedShape DEF BaseInv, EarlyOf, Shape, OtherTypes
    <3> QED
      BY <2>1, <3>1 DEF Around, BaseInv, Typed, Agents
  <2>4. r.from \in Agents /\ r.gen \in Nat /\ r.gen <= s.gen /\ r.gen <= agent[b].gen
    BY <1>1, <2>2, <2>3 DEF Requests, RequestOK
  <2> QED
    BY <1>1, <1>2, <2>2, <2>4 DEF RequestOK, Restarts, InList
<1>8. AnswersKnown'
  <2> SUFFICES ASSUME NEW x \in answers', x.ok, agent'[Peer(x.req.from)].gen = x.req.gen
               PROVE  Known(agent'[Peer(x.req.from)], x.req.path)
    BY DEF AnswersKnown, Known, InList, EarlyOf
  <2>1. x.req \in Requests /\ x.req.from \in Agents /\ x.req.path \in Paths /\ x.req.gen \in Nat
    BY <1>3 DEF Typed, Requests
  <2>2. x \in answers /\ x.req \in Around
    BY DEF Restarts, Around
  <2>3. x.req.gen <= s.gen
    BY <2>2 DEF BaseInv, RequestsOK, RequestOK
  <2>4. Peer(x.req.from) = b
    BY <1>1, <1>2, <2>1, <2>3, PeerFacts
  <2> QED
    BY <1>1, <2>2, <2>4 DEF BaseInv, AnswersKnown
<1>9. SuccessKnown'
  <2> SUFFICES ASSUME NEW c \in Agents, Comparable(c)', NEW p \in Paths,
                      agent'[c].pair[p].st = "SUCCEEDED" \/ agent'[c].sel = p
               PROVE  FALSE
    BY DEF SuccessKnown
  <2>1. c = b
    BY <1>1 DEF Restarts
  <2>2. agent[b].gen = t.gen
    BY <1>1 DEF Comparable, SameGeneration, Agents
  <2>3. ~agent[b].params
    BY <1>2, <1>5, <2>2
  <2>4. ~InList(agent[b], p)
    BY <1>2, <2>3 DEF Local
  <2>5. agent[b].sel = p => InList(agent[b], p)
    BY <1>2, PathFacts DEF Local
  <2> QED
    BY <1>1, <2>1, <2>4, <2>5 DEF InList
<1> QED
  BY <1>3, <1>4, <1>6, <1>7, <1>8, <1>9 DEF BaseInv

-----------------------------------------------------------------------------
(* Each action is a step.                                                    *)

\* A step that neither succeeds a pair nor answers, and keeps the role.
Quiet(a, t, N) == Step(a, t, {}, {}, N, {}) /\ t.ctl = agent[a].ctl

EnvironmentKept ==
    EnvironmentOK' /\ env'.lite = env.lite /\ env'.tcp = env.tcp /\ env'.timely = env.timely

LEMMA EnvironmentSame ==
    ASSUME BaseInv, UNCHANGED env
    PROVE  EnvironmentKept
BY DEF BaseInv, Typed, EnvironmentKept, EnvironmentOK, Environment

LEMMA HandlesMoves ==
    ASSUME NEW s, NEW t, NEW a \in Agents, NEW W, Local(s, a), s.params, Handles(s, t, a, W)
    PROVE  Local(t, a) /\ Moves(s, t, a, W, {}) /\ t.ctl = s.ctl
<1>1. Shape(t) /\ \A f \in OtherFields : t[f] = s[f]
  BY HandlesShape DEF Local
<1>2. /\ t.gen = s.gen /\ t.params = s.params /\ t.early = s.early /\ t.phase = s.phase
      /\ t.old = s.old /\ t.ctl = s.ctl
  BY <1>1 DEF OtherFields
<1>3. \A p \in Paths : InList(s, p) => InList(t, p)
  BY DEF Handles
<1>4. ASSUME NEW p \in Paths
      PROVE  /\ t.tx[p] \in {s.tx[p], NoRequest} \/ NewRequest(t.tx[p], t, a, p)
             /\ t.tx[p] # NoRequest =>
                  /\ t.tx[p].from = a /\ t.tx[p].path = p /\ t.tx[p].gen = t.gen
                  /\ t.tx[p].kind # "consent" /\ InList(t, p)
  <2>1. t.tx[p] \in {s.tx[p], NoRequest} \/ NewRequest(t.tx[p], t, a, p)
    BY DEF Handles
  <2>2. s.tx[p] # NoRequest =>
                  /\ s.tx[p].from = a /\ s.tx[p].path = p /\ s.tx[p].gen = s.gen
                  /\ s.tx[p].kind # "consent" /\ InList(s, p)
    BY DEF Local
  <2> QED
    BY <1>2, <1>3, <2>1, <2>2 DEF NewRequest
<1>5. t.sel # None => InList(t, t.sel)
  <2>1. t.sel = s.sel \/ (t.sel \in Paths /\ InList(t, t.sel))
    BY DEF Handles
  <2>2. s.sel # None => s.sel \in Paths /\ InList(s, s.sel)
    BY DEF Local, Shape, CheckTypes
  <2> QED
    BY <1>3, <2>1, <2>2
<1>6. Local(t, a)
  <2>1. Listed(t) /\ (a \notin env.lite => Consent(t))
    BY DEF Local, Handles
  <2>2. a \in env.lite => /\ t.phase # "scheduling" /\ t.old # "scheduling"
                          /\ ~t.timer /\ t.con = NoRequest
                          /\ \A p \in Paths : t.tx[p] = NoRequest
    BY <1>2 DEF Local, Handles
  <2>3. \A i \in 1..Len(t.early) : t.early[i].from = Peer(a)
    BY <1>2 DEF Local
  <2> QED
    BY <1>1, <1>2, <1>4, <1>5, <2>1, <2>2, <2>3 DEF Local
<1>7. \A p \in Paths : t.pair[p].st = "SUCCEEDED" => s.pair[p].st = "SUCCEEDED" \/ p \in W
  BY DEF Handles
<1>8. \A p \in Paths : t.sel = p => s.sel = p \/ s.pair[p].st = "SUCCEEDED" \/ p \in W
  BY DEF Handles
<1>9. EarlyOf(t) = EarlyOf(s)
  BY <1>2 DEF EarlyOf
<1>10. \A p \in Paths : Known(s, p) => Known(t, p)
  BY <1>3, <1>9 DEF Known
<1>11. Moves(s, t, a, W, {})
  BY <1>2, <1>3, <1>4, <1>7, <1>8, <1>9, <1>10 DEF Moves
<1> QED
  BY <1>2, <1>6, <1>11

\* A change that keeps the pairs.
LEMMA QuietMoves ==
    ASSUME NEW s, NEW t, NEW a \in Agents, Local(s, a), Shape(t),
           t.gen = s.gen, t.params = s.params, t.earlyDone = s.earlyDone, t.early = s.early,
           t.pair = s.pair, t.sel \in {s.sel, None},
           \A p \in Paths : t.tx[p] \in {s.tx[p], NoRequest},
           a \in env.lite => /\ t.phase # "scheduling" /\ t.old # "scheduling"
                             /\ ~t.timer /\ t.con = NoRequest,
           a \notin env.lite => Consent(t)
    PROVE  Local(t, a) /\ Moves(s, t, a, {}, {})
<1>1. \A p \in Paths : InList(s, p) <=> InList(t, p)
  BY DEF InList
<1>2. EarlyOf(t) = EarlyOf(s)
  BY DEF EarlyOf
<1>3. Moves(s, t, a, {}, {})
  <2>1. \A p \in Paths : t.sel = p => s.sel = p
    BY PathFacts
  <2> QED
    BY <1>1, <1>2, <2>1 DEF Moves, Known
<1>4. t.sel # None => InList(t, t.sel)
  <2>1. s.sel # None => s.sel \in Paths /\ InList(s, s.sel)
    BY DEF Local, Shape, CheckTypes
  <2> QED
    BY <1>1, <2>1
<1>5. ASSUME NEW p \in Paths, t.tx[p] # NoRequest
      PROVE  /\ t.tx[p].from = a /\ t.tx[p].path = p /\ t.tx[p].gen = t.gen
             /\ t.tx[p].kind # "consent" /\ InList(t, p)
  BY <1>1, <1>5 DEF Local
<1>6. Listed(t)
  BY <1>1 DEF Local, Listed
<1>7. ~t.params => ~t.earlyDone /\ \A p \in Paths : ~InList(t, p)
  BY <1>1 DEF Local
<1>8. a \in env.lite => \A p \in Paths : t.tx[p] = NoRequest
  BY DEF Local
<1>9. \A i \in 1..Len(t.early) : t.early[i].from = Peer(a)
  BY DEF Local
<1>10. Local(t, a)
  BY <1>4, <1>5, <1>6, <1>7, <1>8, <1>9 DEF Local
<1> QED
  BY <1>3, <1>10

\* The step of a change within the generation.
LEMMA MovesStep ==
    ASSUME BaseInv, NEW a \in Agents, NEW t, NEW W, NEW N, agent' = [agent EXCEPT ![a] = t],
           Local(t, a), Moves(agent[a], t, a, W, {}), t.params => agent[a].params,
           \A p \in W : Comparable(a) => Known(agent[Peer(a)], p),
           net' \subseteq net \union SentOn(t) \union N,
           \A r \in N : /\ r \in Requests /\ r.from = a /\ a \notin env.lite /\ r.gen = t.gen
                        /\ r.ctl = t.ctl /\ InList(t, r.path),
           answers' \subseteq answers, EnvironmentKept
    PROVE  Step(a, t, W, {}, N, {})
BY DEF Step, EnvironmentKept

LEMMA ActorFacts ==
    ASSUME BaseInv, NEW a \in Agents
    PROVE  Local(agent[a], a) /\ Shape(agent[a]) /\ Peer(a) \in Agents
BY PeerFacts DEF BaseInv, Local

\* A quiet step that sends nothing.
LEMMA SilentStep ==
    ASSUME BaseInv, NEW a \in Agents, NEW t, agent' = [agent EXCEPT ![a] = t],
           Local(t, a), Moves(agent[a], t, a, {}, {}), t.params => agent[a].params,
           net' \subseteq net \union SentOn(t), answers' \subseteq answers, EnvironmentKept,
           t.ctl = agent[a].ctl
    PROVE  Quiet(a, t, {})
BY MovesStep DEF Quiet

LEMMA ShapeOther ==
    ASSUME NEW s, NEW t, Shape(s), Changed(s, t, OtherFields), OtherTypes(t)
    PROVE  Shape(t)
<1>1. CheckTypes(t)
  BY DEF Changed, Fields, CheckFields, OtherFields, CheckTypes, Shape
<1> QED
  BY <1>1 DEF Shape, Changed

LEMMA AddStep ==
    ASSUME BaseInv, NEW a \in Agents, NEW p \in Paths, addRemoteCandidate(a, p)
    PROVE  LET t == Learned(agent[a], p) IN agent' = [agent EXCEPT ![a] = t] /\ Quiet(a, t, {})
<1> DEFINE s == agent[a]
           t == Learned(s, p)
<1>1. Local(s, a) /\ Shape(s) /\ s.params
  BY ActorFacts DEF addRemoteCandidate
<1>2. agent' = [agent EXCEPT ![a] = t]
  BY DEF addRemoteCandidate, Learned
<1>3. /\ Changed(s, t, {"cands", "pair"}) /\ t.cands \subseteq Paths
      /\ t.pair = [q \in Paths |-> IF q \in {p} THEN Waits(s.pair[q]) ELSE s.pair[q]]
  BY <1>1, LearnedForms
<1> HIDE DEF t
<1>4. Handles(s, t, a, {})
  <2> HIDE DEF s
  <2> QED
    BY <1>1, <1>3, FormingHandles
<1>5. Local(t, a) /\ Moves(s, t, a, {}, {}) /\ t.ctl = s.ctl
  <2> HIDE DEF s
  <2> QED
    BY <1>1, <1>4, HandlesMoves
<1>6. EnvironmentKept /\ net' = net /\ answers' = answers
  BY EnvironmentSame DEF addRemoteCandidate
<1> QED
  BY <1>1, <1>2, <1>5, <1>6, SilentStep DEF t

\* The fields that say where the checks are.
CoreFields == {"gen", "ctl", "params", "pair", "tx", "sel", "nominating", "closing",
               "early", "earlyDone"}
CoreSame(s, t) == \A f \in CoreFields : t[f] = s[f]

LEMMA CoreMoves ==
    ASSUME NEW s, NEW t, NEW a \in Agents, Local(s, a), Shape(t), CoreSame(s, t),
           a \in env.lite => /\ t.phase # "scheduling" /\ t.old # "scheduling"
                             /\ ~t.timer /\ t.con = NoRequest,
           a \notin env.lite => Consent(t)
    PROVE  Local(t, a) /\ Moves(s, t, a, {}, {}) /\ t.ctl = s.ctl /\ t.params = s.params
<1>1. /\ t.gen = s.gen /\ t.params = s.params /\ t.earlyDone = s.earlyDone /\ t.early = s.early
      /\ t.pair = s.pair /\ t.sel = s.sel /\ t.tx = s.tx /\ t.ctl = s.ctl
  BY DEF CoreSame, CoreFields
<1> QED
  BY <1>1, QuietMoves

\* The state record after a step of the other fields.
LEMMA OtherChange ==
    ASSUME NEW s, NEW t, NEW F, Shape(s), F \subseteq {"rend", "lend", "phase", "state", "old"},
           Changed(s, t, F), OtherTypes(t)
    PROVE  Shape(t) /\ CoreSame(s, t) /\ \A f \in CheckFields : t[f] = s[f]
<1>1. /\ Changed(s, t, OtherFields) /\ CoreSame(s, t) /\ \A f \in CheckFields : t[f] = s[f]
  BY DEF Changed, Fields, CheckFields, OtherFields, CoreSame, CoreFields
<1> QED
  BY <1>1, ShapeOther

LEMMA EndStep ==
    ASSUME BaseInv, NEW a \in Agents, endOfCandidates(a)
    PROVE  \E t : Quiet(a, t, {}) /\ CoreSame(agent[a], t)
<1> DEFINE s == agent[a]
           t == [s EXCEPT !.rend = TRUE]
<1>1. Local(s, a) /\ Shape(s)
  BY ActorFacts
<1>2. agent' = [agent EXCEPT ![a] = t]
  BY DEF endOfCandidates
<1>3. Changed(s, t, {"rend"}) /\ t.rend = TRUE
  BY <1>1 DEF Changed, Shape, IsRecord, Fields, CheckFields, OtherFields
<1>10. EnvironmentKept /\ net' = net /\ answers' = answers
  BY EnvironmentSame DEF endOfCandidates
<1> HIDE DEF t, s
<1>4. \A f \in OtherFields : f # "rend" => t[f] = s[f]
  BY <1>3 DEF Changed, Fields
<1>5. OtherTypes(t)
  BY <1>1, <1>3, <1>4 DEF Shape, OtherTypes, OtherFields
<1>6. Shape(t) /\ CoreSame(s, t) /\ \A f \in CheckFields : t[f] = s[f]
  BY <1>1, <1>3, <1>5, OtherChange
<1>7. /\ t.phase = s.phase /\ t.old = s.old /\ t.timer = s.timer /\ t.con = s.con
      /\ \A f \in ConsentFields : t[f] = s[f]
  BY <1>4, <1>6 DEF CheckFields, OtherFields, ConsentFields
<1>8. a \notin env.lite => Consent(t)
  BY <1>1, <1>7, ConsentSame DEF Local
<1>9. Local(t, a) /\ Moves(s, t, a, {}, {}) /\ t.ctl = s.ctl /\ t.params = s.params
  <2>1. a \in env.lite => /\ t.phase # "scheduling" /\ t.old # "scheduling"
                          /\ ~t.timer /\ t.con = NoRequest
    BY <1>1, <1>7 DEF Local
  <2> QED
    BY <1>1, <1>6, <1>8, <2>1, CoreMoves
<1>11. Quiet(a, t, {})
  BY <1>2, <1>9, <1>10, SilentStep DEF s
<1> QED
  BY <1>6, <1>11 DEF s, t

LEMMA GatherStep ==
    ASSUME BaseInv, NEW a \in Agents, gatherCandidates(a)
    PROVE  \E t : Quiet(a, t, {}) /\ CoreSame(agent[a], t)
<1> DEFINE s == agent[a]
           state == IF s.state = "new" /\ s.phase = "idle" THEN "completed" ELSE s.state
           t == [s EXCEPT !.lend = TRUE, !.state = state]
<1>1. Local(s, a) /\ Shape(s)
  BY ActorFacts
<1>2. agent' = [agent EXCEPT ![a] = t]
  <2>1. agent' = [agent EXCEPT ![a].lend = TRUE,
            ![a].state = IF @ = "new" /\ s.phase = "idle" THEN "completed" ELSE @]
    BY DEF gatherCandidates
  <2>2. agent \in [Agents -> AgentRecord]
    BY DEF BaseInv, Typed
  <2> QED
    BY <1>1, <2>1, <2>2 DEF Shape, IsRecord, Fields, CheckFields, OtherFields
<1>10. EnvironmentKept /\ net' = net /\ answers' = answers
  BY EnvironmentSame DEF gatherCandidates
<1> HIDE DEF state
<1>3. Changed(s, t, {"lend", "state"}) /\ t.lend = TRUE /\ t.state = state
  BY <1>1 DEF Changed, Shape, IsRecord, Fields, CheckFields, OtherFields
<1>11. state = s.state \/ (s.state = "new" /\ state = "completed")
  BY DEF state
<1> HIDE DEF t, s
<1>4. \A f \in OtherFields : f \notin {"lend", "state"} => t[f] = s[f]
  BY <1>3 DEF Changed, Fields
<1>12. t.state \in States
  BY <1>1, <1>3, <1>11 DEF Shape, OtherTypes, States
<1>5. OtherTypes(t)
  BY <1>1, <1>3, <1>4, <1>12 DEF Shape, OtherTypes, OtherFields
<1>6. Shape(t) /\ CoreSame(s, t) /\ \A f \in CheckFields : t[f] = s[f]
  BY <1>1, <1>3, <1>5, OtherChange
<1>7. /\ t.phase = s.phase /\ t.old = s.old /\ t.timer = s.timer /\ t.con = s.con
      /\ t.sel = s.sel /\ t.fresh = s.fresh /\ t.queue = s.queue /\ t.done = s.done
  BY <1>4, <1>6 DEF CheckFields, OtherFields
<1>8. a \notin env.lite => Consent(t)
  <2> SUFFICES ASSUME Consent(s) PROVE Consent(t)
    BY <1>1 DEF Local
  <2> QED
    BY <1>3, <1>7, <1>11 DEF Consent, Terminal
<1>13. a \in env.lite => /\ t.phase # "scheduling" /\ t.old # "scheduling"
                         /\ ~t.timer /\ t.con = NoRequest
  BY <1>1, <1>7 DEF Local
<1>9. Local(t, a) /\ Moves(s, t, a, {}, {}) /\ t.ctl = s.ctl /\ t.params = s.params
  BY <1>1, <1>6, <1>8, <1>13, CoreMoves
<1> QED
  BY <1>2, <1>6, <1>9, <1>10, SilentStep DEF s

LEMMA ScheduledStep ==
    ASSUME BaseInv, NEW a \in Agents, scheduled(a)
    PROVE  \E t : Quiet(a, t, {}) /\ CoreSame(agent[a], t)
<1> DEFINE s == agent[a]
<1>0. PICK f \in {"phase", "old"} :
         /\ s[f] = "scheduling"
         /\ agent' = [agent EXCEPT ![a][f] = IF CheckList(s) = {} THEN "threw" ELSE "waiting"]
  BY DEF scheduled, Loops
<1> DEFINE to == IF CheckList(s) = {} THEN "threw" ELSE "waiting"
           t == [s EXCEPT ![f] = to]
<1>1. Local(s, a) /\ Shape(s)
  BY ActorFacts
<1>2. agent' = [agent EXCEPT ![a] = t]
  BY <1>0
<1>10. EnvironmentKept /\ net' = net /\ answers' = answers
  BY EnvironmentSame DEF scheduled
<1>11. to \in {"threw", "waiting"}
  OBVIOUS
<1> HIDE DEF to
<1>3. Changed(s, t, {"phase", "old"}) /\ t[f] = to /\ \A g \in {"phase", "old"} : g # f => t[g] = s[g]
  BY <1>1 DEF Changed, Shape, IsRecord, Fields, CheckFields, OtherFields
<1> HIDE DEF t, s
<1>4. \A g \in OtherFields : g \notin {"phase", "old"} => t[g] = s[g]
  BY <1>3 DEF Changed, Fields
<1>12. t.phase \in {s.phase, to} /\ t.old \in {s.old, to}
  BY <1>3
<1>5. OtherTypes(t)
  <2>1. t.phase \in Phases /\ t.old \in (Phases \ {"idle"}) \union {"none"}
    BY <1>1, <1>11, <1>12 DEF Shape, OtherTypes, Phases
  <2> QED
    BY <1>1, <1>4, <2>1 DEF Shape, OtherTypes, OtherFields
<1>6. Shape(t) /\ CoreSame(s, t) /\ \A g \in CheckFields : t[g] = s[g]
  BY <1>1, <1>3, <1>5, OtherChange
<1>7. /\ t.timer = s.timer /\ t.con = s.con /\ \A g \in ConsentFields : t[g] = s[g]
  BY <1>4, <1>6 DEF CheckFields, OtherFields, ConsentFields
<1>8. a \notin env.lite => Consent(t)
  BY <1>1, <1>7, ConsentSame DEF Local
<1>13. a \notin env.lite
  BY <1>0, <1>1 DEF Local, s
<1>9. Local(t, a) /\ Moves(s, t, a, {}, {}) /\ t.ctl = s.ctl /\ t.params = s.params
  BY <1>1, <1>6, <1>8, <1>13, CoreMoves
<1> QED
  BY <1>2, <1>6, <1>9, <1>10, SilentStep DEF s

LEMMA LiteStep ==
    ASSUME BaseInv, NEW a \in Agents, liteResumes(a)
    PROVE  \E t : Quiet(a, t, {}) /\ CoreSame(agent[a], t)
<1> DEFINE s == agent[a]
           one == [s EXCEPT !.phase = "returned", !.state = "connected"]
           two == [s EXCEPT !.phase = "threw"]
<1>1. Local(s, a) /\ Shape(s)
  BY ActorFacts
<1>2. /\ a \in env.lite
      /\ agent' = [agent EXCEPT ![a] = one] \/ agent' = [agent EXCEPT ![a] = two]
  BY DEF liteResumes
<1>10. EnvironmentKept /\ net' = net /\ answers' = answers
  BY EnvironmentSame DEF liteResumes
<1>3. /\ Changed(s, one, {"phase", "state"}) /\ one.phase = "returned" /\ one.state = "connected"
      /\ Changed(s, two, {"phase", "state"}) /\ two.phase = "threw" /\ two.state = s.state
  BY <1>1 DEF Changed, Shape, IsRecord, Fields, CheckFields, OtherFields
<1> HIDE DEF one, two, s
<1>4. PICK t \in {one, two} : agent' = [agent EXCEPT ![a] = t]
  BY <1>2
<1>5. /\ Changed(s, t, {"phase", "state"}) /\ t.phase \in {"returned", "threw"}
      /\ t.state \in {s.state, "connected"}
  BY <1>3
<1>6. \A f \in OtherFields : f \notin {"phase", "state"} => t[f] = s[f]
  BY <1>5 DEF Changed, Fields
<1>7. OtherTypes(t)
  <2>1. t.phase \in Phases /\ t.state \in States
    BY <1>1, <1>5 DEF Shape, OtherTypes, Phases, States
  <2> QED
    BY <1>1, <1>6, <2>1 DEF Shape, OtherTypes, OtherFields
<1>8. Shape(t) /\ CoreSame(s, t) /\ \A f \in CheckFields : t[f] = s[f]
  BY <1>1, <1>5, <1>7, OtherChange
<1>9. t.phase # "scheduling" /\ t.old = s.old /\ t.timer = s.timer /\ t.con = s.con
  BY <1>5, <1>6, <1>8 DEF CheckFields, OtherFields
<1>11. Local(t, a) /\ Moves(s, t, a, {}, {}) /\ t.ctl = s.ctl /\ t.params = s.params
  BY <1>1, <1>2, <1>8, <1>9, CoreMoves DEF Local
<1> QED
  BY <1>4, <1>8, <1>10, <1>11, SilentStep DEF s

LEMMA EmittedSent ==
    ASSUME NEW s, NEW t
    PROVE  Emitted(s, t) \subseteq SentOn(t)
BY DEF Emitted, SentOn

LEMMA QueueTail ==
    ASSUME NEW q \in Seq(Results), q # <<>>
    PROVE  /\ Tail(q) \in Seq(Results) /\ Head(q) \in Results
           /\ Head(q) = FAILED /\ COMPLETED \in Range(q) => COMPLETED \in Range(Tail(q))
<1>1. Len(q) \in Nat \ {0} /\ Tail(q) \in Seq(Results) /\ Head(q) \in Results /\ Head(q) = q[1]
  OBVIOUS
<1>2. Len(Tail(q)) = Len(q) - 1 /\ \A i \in 1..Len(q) - 1 : Tail(q)[i] = q[i + 1]
  OBVIOUS
<1>3. ASSUME Head(q) = FAILED, COMPLETED \in Range(q)
      PROVE  COMPLETED \in Range(Tail(q))
  <2>1. PICK i \in 1..Len(q) : q[i] = COMPLETED
    BY <1>3 DEF Range
  <2>2. i # 1
    BY <1>1, <1>3, <2>1 DEF COMPLETED, FAILED
  <2>3. i - 1 \in 1..Len(q) - 1 /\ (i - 1) + 1 = i
    BY <1>1, <2>2
  <2>4. Tail(q)[i - 1] = COMPLETED /\ i - 1 \in DOMAIN Tail(q)
    BY <1>1, <1>2, <2>1, <2>3
  <2> QED
    BY <2>4 DEF Range
<1> QED
  BY <1>1, <1>3

\* Requests may be given up, but not the nomination of a TCP pair.
CoreKept(s, t) ==
    /\ \A f \in CoreFields \ {"tx"} : t[f] = s[f]
    /\ \A p \in Paths : \/ t.tx[p] = s.tx[p]
                        \/ t.tx[p] = NoRequest /\ s.tx[p].kind # "tcpnom"

LEMMA ResumesStep ==
    ASSUME BaseInv, NEW a \in Agents, connectResumes(a)
    PROVE  \E t : Quiet(a, t, {}) /\ CoreKept(agent[a], t)
<1> DEFINE s == agent[a]
           rest == [s EXCEPT !.queue = Tail(@)]
           ended == [q \in Paths |-> IF s.tx[q].n > 0 /\ s.tx[q].kind # "tcpnom"
                                     THEN NoRequest ELSE s.tx[q]]
           moved == MoveLoops([rest EXCEPT !.tx = ended], "waiting", "returned")
           went == [queryConsent(moved, a) EXCEPT !.state = "connected"]
<1>1. Local(s, a) /\ Shape(s) /\ a \notin env.lite /\ s.queue # <<>>
  BY ActorFacts DEF connectResumes
<1>2. agent' = [agent EXCEPT ![a] = IF Head(s.queue) = FAILED THEN rest ELSE went]
  BY DEF connectResumes
<1>3. EnvironmentKept /\ net' = net /\ answers' = answers
  BY EnvironmentSame DEF connectResumes
<1>4. /\ Tail(s.queue) \in Seq(Results)
      /\ Head(s.queue) = FAILED /\ COMPLETED \in Range(s.queue) => COMPLETED \in Range(Tail(s.queue))
  BY <1>1, QueueTail DEF Shape, CheckTypes
<1>5. Changed(s, rest, {"queue"}) /\ rest.queue = Tail(s.queue)
  BY <1>1 DEF Changed, Shape, IsRecord, Fields, CheckFields, OtherFields
<1>6. CASE Head(s.queue) = FAILED
  <2> HIDE DEF rest, ended, moved, went
  <2>1. agent' = [agent EXCEPT ![a] = rest]
    BY <1>2, <1>6
  <2> HIDE DEF s
  <2>2. /\ CoreSame(s, rest) /\ rest.phase = s.phase /\ rest.old = s.old
        /\ \A f \in ConsentFields : f # "queue" => rest[f] = s[f]
    BY <1>5 DEF Changed, Fields, CheckFields, OtherFields, CoreSame, CoreFields, ConsentFields
  <2>3. CheckTypes(rest) /\ OtherTypes(rest)
    BY <1>1, <1>4, <1>5 DEF Changed, Fields, CheckFields, OtherFields, CheckTypes, OtherTypes, Shape
  <2>4. Shape(rest)
    BY <1>5, <2>3 DEF Shape, Changed
  <2>5. Consent(rest)
    <3>1. Consent(s)
      BY <1>1 DEF Local
    <3>2. /\ rest.sel = s.sel /\ rest.fresh = s.fresh /\ rest.timer = s.timer
          /\ rest.state = s.state /\ rest.done = s.done
      BY <2>2 DEF ConsentFields
    <3> QED
      BY <1>4, <1>5, <1>6, <3>1, <3>2 DEF Consent, Terminal
  <2>6. Local(rest, a) /\ Moves(s, rest, a, {}, {}) /\ rest.ctl = s.ctl /\ rest.params = s.params
    BY <1>1, <2>2, <2>4, <2>5, CoreMoves
  <2>7. Quiet(a, rest, {})
    BY <1>3, <2>1, <2>6, SilentStep DEF s
  <2>8. CoreKept(s, rest)
    BY <2>2 DEF CoreKept, CoreSame, CoreFields
  <2> QED
    BY <2>7, <2>8 DEF s
<1>7. CASE Head(s.queue) # FAILED
  <2>0. agent' = [agent EXCEPT ![a] = went]
    BY <1>2, <1>7
  <2> DEFINE cut == [rest EXCEPT !.tx = ended]
  <2>1. /\ ended \in [Paths -> MaybeRequest]
        /\ \A p \in Paths : \/ ended[p] = s.tx[p]
                            \/ ended[p] = NoRequest /\ s.tx[p].kind # "tcpnom"
    BY <1>1 DEF Shape, CheckTypes, MaybeRequest
  <2> HIDE DEF rest, ended
  <2>2. Changed(s, cut, {"queue", "tx"}) /\ cut.queue = Tail(s.queue) /\ cut.tx = ended
    BY <1>1, <1>5 DEF Changed, Shape, IsRecord, Fields, CheckFields, OtherFields
  <2>3. moved = [cut EXCEPT !.phase = IF @ = "waiting" THEN "returned" ELSE @,
                            !.old = IF @ = "waiting" THEN "returned" ELSE @]
    BY DEF MoveLoops
  <2> HIDE DEF cut
  <2>4. /\ Changed(cut, moved, {"phase", "old"})
        /\ moved.phase \in {cut.phase, "returned"} /\ moved.old \in {cut.old, "returned"}
    BY <2>2, <2>3 DEF Changed, IsRecord, Fields, CheckFields, OtherFields
  <2>5. went = [[stopConsentLifecycle(moved) EXCEPT !.fresh = TRUE, !.timer = TRUE]
                  EXCEPT !.state = "connected"]
    BY <1>1 DEF queryConsent
  <2> HIDE DEF moved
  <2>6. /\ Changed(moved, went, {"fresh", "timer", "con", "state"}) /\ went.timer = TRUE
        /\ went.fresh = TRUE /\ went.con = NoRequest /\ went.state = "connected"
    <3>1. went = [moved EXCEPT !.con = NoRequest, !.timer = TRUE, !.fresh = TRUE,
                               !.state = "connected"]
      BY <2>5 DEF stopConsentLifecycle
    <3>2. moved = [x \in Fields |-> moved[x]]
      BY <2>4 DEF Changed, IsRecord
    <3>3. "con" \in Fields /\ "timer" \in Fields /\ "fresh" \in Fields /\ "state" \in Fields
      BY DEF Fields, CheckFields, OtherFields
    <3> HIDE DEF went
    <3>4. /\ went.timer = TRUE /\ went.fresh = TRUE /\ went.con = NoRequest
          /\ went.state = "connected"
      BY <3>1, <3>2, <3>3
    <3>5. Changed(moved, went, {"fresh", "timer", "con", "state"})
      BY <3>1, <3>2, <3>3 DEF Changed, IsRecord
    <3> QED
      BY <3>4, <3>5
  <2> HIDE DEF went
  <2>7. /\ Changed(s, went, {"queue", "tx", "phase", "old", "fresh", "timer", "con", "state"})
        /\ went.queue = Tail(s.queue) /\ went.tx = ended
        /\ went.phase \in {s.phase, "returned"} /\ went.old \in {s.old, "returned"}
    <3>1. Changed(s, moved, {"queue", "tx", "phase", "old"})
      BY <2>2, <2>4 DEF Changed, Fields
    <3>2. /\ moved.queue = Tail(s.queue) /\ moved.tx = ended
          /\ moved.phase \in {s.phase, "returned"} /\ moved.old \in {s.old, "returned"}
      <4>1. cut.phase = s.phase /\ cut.old = s.old /\ moved.queue = cut.queue /\ moved.tx = cut.tx
        BY <2>2, <2>4 DEF Changed, Fields, CheckFields, OtherFields
      <4> QED
        BY <2>2, <2>4, <4>1
    <3>3. /\ went.queue = moved.queue /\ went.tx = moved.tx
          /\ went.phase = moved.phase /\ went.old = moved.old
      BY <2>6 DEF Changed, Fields, CheckFields, OtherFields
    <3>4. Changed(s, went, {"queue", "tx", "phase", "old", "fresh", "timer", "con", "state"})
      BY <2>6, <3>1 DEF Changed, Fields
    <3> QED
      BY <3>2, <3>3, <3>4
  <2> HIDE DEF s
  <2>8. CheckTypes(went)
    <3>1. went.timer \in BOOLEAN /\ went.fresh \in BOOLEAN /\ went.con \in MaybeRequest
      BY <2>6 DEF MaybeRequest
    <3> QED
      BY <1>1, <1>4, <2>1, <2>7, <3>1 DEF Changed, Fields, CheckFields, OtherFields, CheckTypes, Shape
  <2>9. OtherTypes(went)
    <3>1. /\ went.phase \in Phases /\ went.old \in (Phases \ {"idle"}) \union {"none"}
          /\ went.state \in States
      BY <1>1, <2>6, <2>7 DEF Phases, States, Shape, OtherTypes
    <3> QED
      BY <1>1, <2>7, <3>1 DEF Changed, Fields, CheckFields, OtherFields, OtherTypes, Shape
  <2>10. Shape(went)
    BY <2>7, <2>8, <2>9 DEF Shape, Changed
  <2>11. \A f \in CoreFields \ {"tx"} : went[f] = s[f]
    BY <2>7 DEF Changed, Fields, CheckFields, OtherFields, CoreFields
  <2>12. CoreKept(s, went)
    BY <2>1, <2>7, <2>11 DEF CoreKept
  <2>13. Consent(went)
    BY <2>6 DEF Consent
  <2>14. /\ went.gen = s.gen /\ went.params = s.params /\ went.earlyDone = s.earlyDone
         /\ went.early = s.early /\ went.pair = s.pair /\ went.sel = s.sel /\ went.ctl = s.ctl
         /\ \A p \in Paths : went.tx[p] \in {s.tx[p], NoRequest}
    BY <2>11, <2>12 DEF CoreFields, CoreKept
  <2>15. Local(went, a) /\ Moves(s, went, a, {}, {})
    BY <1>1, <2>10, <2>13, <2>14, QuietMoves
  <2>16. Quiet(a, went, {})
    BY <1>3, <2>0, <2>14, <2>15, SilentStep DEF s
  <2> QED
    BY <2>12, <2>16 DEF s
<1> QED
  BY <1>6, <1>7

\* A change of the consent fields only.
LEMMA ConsentChange ==
    ASSUME NEW s, NEW t, NEW a \in Agents, Local(s, a), a \notin env.lite,
           Changed(s, t, {"con", "sent", "fresh", "timer", "state"}),
           t.con \in MaybeRequest, t.sent \in Nat, t.fresh \in BOOLEAN, t.timer \in BOOLEAN,
           t.state \in States, Consent(t)
    PROVE  /\ Local(t, a) /\ Moves(s, t, a, {}, {}) /\ t.ctl = s.ctl /\ t.params = s.params
           /\ CoreSame(s, t)
<1>1. CoreSame(s, t)
  BY DEF Changed, Fields, CheckFields, OtherFields, CoreSame, CoreFields
<1>2. Shape(s)
  BY DEF Local
<1>3. CheckTypes(t)
  BY <1>2 DEF Changed, Fields, CheckFields, OtherFields, CheckTypes, Shape
<1>4. OtherTypes(t)
  BY <1>2 DEF Changed, Fields, CheckFields, OtherFields, OtherTypes, Shape
<1>5. Shape(t)
  BY <1>3, <1>4 DEF Shape, Changed
<1> QED
  BY <1>1, <1>5, CoreMoves

LEMMA ExpiresStep ==
    ASSUME BaseInv, NEW a \in Agents, consentExpires(a)
    PROVE  \E t : Quiet(a, t, {}) /\ CoreSame(agent[a], t)
<1> DEFINE s == agent[a]
           t == [stopConsentLifecycle(s) EXCEPT !.state = "failed"]
<1>1. Local(s, a) /\ Shape(s) /\ a \notin env.lite
  <2>1. s.timer /\ Local(s, a) /\ Shape(s)
    BY ActorFacts DEF consentExpires
  <2> QED
    BY <2>1 DEF Local
<1>2. agent' = [agent EXCEPT ![a] = t]
  BY DEF consentExpires
<1>3. EnvironmentKept
  BY DEF BaseInv, Typed, EnvironmentKept, EnvironmentOK, Environment, consentExpires
<1>4. /\ Changed(s, t, {"con", "fresh", "timer", "state"}) /\ t.con = NoRequest /\ t.fresh = FALSE
      /\ t.timer = FALSE /\ t.state = "failed"
  BY <1>1 DEF Changed, Shape, IsRecord, Fields, CheckFields, OtherFields, stopConsentLifecycle
<1>5. net' = net /\ answers' = answers
  BY DEF consentExpires
<1> HIDE DEF t, s
<1>6. Changed(s, t, {"con", "sent", "fresh", "timer", "state"}) /\ t.sent = s.sent
  BY <1>4 DEF Changed, Fields, CheckFields, OtherFields
<1>7. /\ t.con \in MaybeRequest /\ t.sent \in Nat /\ t.fresh \in BOOLEAN /\ t.timer \in BOOLEAN
      /\ t.state \in States
  BY <1>1, <1>4, <1>6 DEF Shape, CheckTypes, MaybeRequest, States
<1>8. Consent(t)
  BY <1>4 DEF Consent, Terminal
<1>9. /\ Local(t, a) /\ Moves(s, t, a, {}, {}) /\ t.ctl = s.ctl /\ t.params = s.params
      /\ CoreSame(s, t)
  BY <1>1, <1>6, <1>7, <1>8, ConsentChange
<1> QED
  BY <1>2, <1>3, <1>5, <1>9, SilentStep DEF s

LEMMA ConsentAnswerStep ==
    ASSUME BaseInv, NEW a \in Agents, NEW ans \in answers, consentAnswered(a, ans)
    PROVE  \E t : Quiet(a, t, {}) /\ CoreSame(agent[a], t)
<1> DEFINE s == agent[a]
           counts == ans.ok /\ s.con = ans.req /\ ~Terminal(s)
                     /\ s.sel = ans.req.path /\ s.gen = ans.req.gen
           con == IF s.con = ans.req THEN NoRequest ELSE s.con
           t == [s EXCEPT !.con = con, !.fresh = s.fresh \/ counts, !.timer = s.timer \/ counts]
<1>1. Local(s, a) /\ Shape(s)
  BY ActorFacts
<1>2. a \notin env.lite
  <2>1. ans.req \in Around /\ ans.req.from = a
    BY DEF Around, consentAnswered
  <2> QED
    BY <2>1 DEF BaseInv, RequestsOK, RequestOK
<1>3. agent' = [agent EXCEPT ![a] = t]
  <2>1. agent' = [agent EXCEPT
            ![a].con = IF @ = ans.req THEN NoRequest ELSE @,
            ![a].fresh = @ \/ counts, ![a].timer = @ \/ counts]
    BY DEF consentAnswered
  <2>2. agent \in [Agents -> AgentRecord] /\ s = [f \in Fields |-> s[f]]
    BY <1>1 DEF BaseInv, Typed, Shape, IsRecord
  <2> HIDE DEF counts
  <2> QED
    BY <2>1, <2>2 DEF Fields, CheckFields, OtherFields
<1>4. EnvironmentKept /\ net' = net /\ answers' \subseteq answers
  BY EnvironmentSame DEF consentAnswered
<1>5. con \in MaybeRequest /\ counts \in BOOLEAN
  BY <1>1 DEF Shape, CheckTypes, MaybeRequest
<1> HIDE DEF con, counts
<1> DEFINE fresh == s.fresh \/ counts
           timer == s.timer \/ counts
<1>10. fresh \in BOOLEAN /\ timer \in BOOLEAN
  BY <1>1
<1>11. t = [s EXCEPT !.con = con, !.fresh = fresh, !.timer = timer]
  OBVIOUS
<1>12. (fresh => s.fresh \/ timer) /\ (s.timer => timer)
  OBVIOUS
<1> HIDE DEF fresh, timer, t
<1>6. /\ Changed(s, t, {"con", "fresh", "timer"}) /\ t.con = con
      /\ t.fresh = fresh /\ t.timer = timer
  BY <1>1, <1>11 DEF Changed, Shape, IsRecord, Fields, CheckFields, OtherFields
<1> HIDE DEF s
<1>7. /\ Changed(s, t, {"con", "sent", "fresh", "timer", "state"}) /\ t.sent = s.sent
      /\ t.state = s.state /\ t.sel = s.sel /\ t.queue = s.queue /\ t.done = s.done
  BY <1>6 DEF Changed, Fields, CheckFields, OtherFields
<1>8. Consent(t)
  <2>1. Consent(s)
    BY <1>1, <1>2 DEF Local
  <2> QED
    BY <1>6, <1>7, <1>12, <2>1 DEF Consent, Terminal
<1>9. /\ Local(t, a) /\ Moves(s, t, a, {}, {}) /\ t.ctl = s.ctl /\ t.params = s.params
      /\ CoreSame(s, t)
  <2>1. t.sent \in Nat /\ t.state \in States
    BY <1>1, <1>7 DEF Shape, CheckTypes, OtherTypes
  <2> QED
    BY <1>1, <1>2, <1>5, <1>6, <1>7, <1>8, <1>10, <2>1, ConsentChange
<1> QED
  BY <1>3, <1>4, <1>9, SilentStep DEF s

LEMMA ConsentRequestStep ==
    ASSUME BaseInv, NEW a \in Agents, consentRequest(a)
    PROVE  \E t, N : /\ Quiet(a, t, N) /\ CoreSame(agent[a], t)
                     /\ \A r \in N : r.uc => Peer(a) \in env.lite
<1> DEFINE s == agent[a]
           nominate == Peer(a) \in env.lite
           r == buildRequest(s, a, s.sel, "consent", nominate)
           t == [s EXCEPT !.con = r, !.sent = @ + 1]
<1>1. Local(s, a) /\ Shape(s) /\ a \notin env.lite /\ s.timer /\ s.sel # None
  <2>1. s.timer /\ Local(s, a) /\ Shape(s) /\ s.sel # None
    BY ActorFacts DEF consentRequest
  <2> QED
    BY <2>1 DEF Local
<1>2. agent' = [agent EXCEPT ![a] = t]
  <2>1. agent' = [agent EXCEPT ![a].con = r, ![a].sent = @ + 1]
    BY DEF consentRequest
  <2>2. agent \in [Agents -> AgentRecord] /\ s = [f \in Fields |-> s[f]]
    BY <1>1 DEF BaseInv, Typed, Shape, IsRecord
  <2> HIDE DEF r
  <2> QED
    BY <2>1, <2>2 DEF Fields, CheckFields, OtherFields
<1>3. EnvironmentKept
  BY DEF BaseInv, Typed, EnvironmentKept, EnvironmentOK, Environment, consentRequest
<1>4. net' = net \cup {r} /\ answers' = answers
  BY DEF consentRequest
<1>5. s.sel \in Paths /\ InList(s, s.sel)
  BY <1>1 DEF Local, Shape, CheckTypes
<1>6. /\ r \in Requests /\ r.from = a /\ r.path = s.sel /\ r.gen = s.gen /\ r.ctl = s.ctl
      /\ r.uc = (nominate /\ s.ctl)
  <2>1. nominate \in BOOLEAN /\ "consent" \in {"check", "nominate", "tcpnom", "consent"}
    OBVIOUS
  <2> HIDE DEF nominate, s
  <2> QED
    BY <1>1, <1>5, <2>1, RequestType
<1> HIDE DEF r
<1>7. /\ Changed(s, t, {"con", "sent"}) /\ t.con = r /\ t.sent = s.sent + 1
  BY <1>1 DEF Changed, Shape, IsRecord, Fields, CheckFields, OtherFields
<1> HIDE DEF t, s
<1>8. /\ Changed(s, t, {"con", "sent", "fresh", "timer", "state"})
      /\ t.state = s.state /\ t.fresh = s.fresh /\ t.timer = s.timer
      /\ \A f \in ConsentFields : t[f] = s[f]
  BY <1>7 DEF Changed, Fields, CheckFields, OtherFields, ConsentFields
<1>9. Consent(t)
  BY <1>1, <1>8, ConsentSame DEF Local
<1>10. /\ Local(t, a) /\ Moves(s, t, a, {}, {}) /\ t.ctl = s.ctl /\ t.params = s.params
       /\ CoreSame(s, t)
  <2>1. /\ t.con \in MaybeRequest /\ t.sent \in Nat /\ t.fresh \in BOOLEAN /\ t.timer \in BOOLEAN
        /\ t.state \in States
    BY <1>1, <1>6, <1>7, <1>8 DEF Shape, CheckTypes, OtherTypes, MaybeRequest
  <2> QED
    BY <1>1, <1>8, <1>9, <2>1, ConsentChange
<1>11. r.gen = t.gen /\ r.ctl = t.ctl /\ InList(t, r.path)
  BY <1>5, <1>6, <1>10 DEF CoreSame, CoreFields, InList
<1>12. Step(a, t, {}, {}, {r}, {})
  <2>1. \A q \in {r} : /\ q \in Requests /\ q.from = a /\ a \notin env.lite /\ q.gen = t.gen
                       /\ q.ctl = t.ctl /\ InList(t, q.path)
    BY <1>1, <1>6, <1>11
  <2>2. net' \subseteq net \union SentOn(t) \union {r}
    BY <1>4
  <2> QED
    BY <1>2, <1>3, <1>4, <1>10, <2>1, <2>2, MovesStep DEF s
<1>13. r.uc => Peer(a) \in env.lite
  BY <1>6
<1>14. Quiet(a, t, {r}) /\ CoreSame(agent[a], t)
  BY <1>10, <1>12 DEF Quiet, s
<1> QED
  BY <1>13, <1>14

\* What a step of a closing agent leaves.
Closes(s, t) == t.closing /\ t.ctl = s.ctl

LEMMA CloseStep ==
    ASSUME BaseInv, NEW a \in Agents, close(a)
    PROVE  \E t : Quiet(a, t, {}) /\ Closes(agent[a], t)
<1> DEFINE s == agent[a]
           none == [p \in Paths |-> NoRequest]
           t == [stopConsentLifecycle(s) EXCEPT !.state = "closed", !.closing = TRUE, !.sel = None,
                   !.tx = none]
           u == IF s.done THEN t ELSE Put(t, FAILED)
           queue == IF s.done THEN s.queue ELSE Append(s.queue, FAILED)
           F == {"con", "fresh", "timer", "state", "closing", "sel", "tx", "queue"}
<1>1. Local(s, a) /\ Shape(s)
  BY ActorFacts
<1>2. agent' = [agent EXCEPT ![a] = u]
  BY DEF close
<1>3. EnvironmentKept
  BY DEF BaseInv, Typed, EnvironmentKept, EnvironmentOK, Environment, close
<1>4. net' = net /\ answers' = answers
  BY DEF close
<1> HIDE DEF none
<1>5. /\ Changed(s, t, {"con", "fresh", "timer", "state", "closing", "sel", "tx"})
      /\ t.con = NoRequest /\ t.fresh = FALSE
      /\ t.timer = FALSE /\ t.state = "closed" /\ t.closing = TRUE /\ t.sel = None /\ t.tx = none
  BY <1>1 DEF Changed, Shape, IsRecord, Fields, CheckFields, OtherFields, stopConsentLifecycle
<1> HIDE DEF t
<1>6. /\ Changed(s, u, F) /\ u.con = NoRequest /\ u.fresh = FALSE /\ u.queue = queue
      /\ u.timer = FALSE /\ u.state = "closed" /\ u.closing = TRUE /\ u.sel = None /\ u.tx = none
  BY <1>5 DEF Changed, IsRecord, Fields, CheckFields, OtherFields, Put
<1>7. queue \in Seq(Results)
  BY <1>1, QueueGrows DEF Shape, CheckTypes, Results
<1>8. none \in [Paths -> MaybeRequest] /\ \A p \in Paths : none[p] = NoRequest
  BY DEF none, MaybeRequest
<1> HIDE DEF u, s, queue
<1>9. /\ u.cands = s.cands /\ u.pair = s.pair /\ u.nominating = s.nominating /\ u.done = s.done
      /\ u.sent = s.sent /\ u.gen = s.gen /\ u.params = s.params /\ u.earlyDone = s.earlyDone
      /\ u.early = s.early /\ u.phase = s.phase /\ u.old = s.old /\ u.ctl = s.ctl
      /\ u.rend = s.rend /\ u.lend = s.lend /\ u.open = s.open
  BY <1>6 DEF Changed, Fields, CheckFields, OtherFields
<1>10. CheckTypes(u)
  BY <1>1, <1>6, <1>7, <1>8, <1>9 DEF CheckTypes, Shape, MaybeRequest
<1>11. OtherTypes(u)
  BY <1>1, <1>6, <1>9 DEF OtherTypes, Shape, States
<1>12. Shape(u)
  BY <1>6, <1>10, <1>11 DEF Shape, Changed
<1>13. Consent(u)
  BY <1>6 DEF Consent
<1>14. a \in env.lite => /\ u.phase # "scheduling" /\ u.old # "scheduling"
                         /\ ~u.timer /\ u.con = NoRequest
  BY <1>1, <1>6, <1>9 DEF Local
<1>15. \A p \in Paths : u.tx[p] \in {s.tx[p], NoRequest}
  BY <1>6, <1>8
<1>16. u.sel \in {s.sel, None}
  BY <1>6
<1>17. Local(u, a) /\ Moves(s, u, a, {}, {})
  BY <1>1, <1>9, <1>12, <1>13, <1>14, <1>15, <1>16, QuietMoves
<1>18. Closes(s, u)
  BY <1>6, <1>9 DEF Closes
<1>19. Quiet(a, u, {})
  BY <1>2, <1>3, <1>4, <1>9, <1>17, SilentStep DEF s
<1> QED
  BY <1>18, <1>19 DEF s

LEMMA CloseSocketStep ==
    ASSUME BaseInv, NEW a \in Agents, closeSocket(a)
    PROVE  \E t : Quiet(a, t, {}) /\ Closes(agent[a], t)
<1> DEFINE s == agent[a]
           p == CHOOSE p \in s.open : \A q \in s.open : p <= q
           tx == [s.tx EXCEPT ![p] = NoRequest]
           u == [s EXCEPT !.open = @ \ {p}, !.tx = tx]
<1>1. Local(s, a) /\ Shape(s) /\ s.closing
  BY ActorFacts DEF closeSocket
<1>2. agent' = [agent EXCEPT ![a] = u]
  <2>1. agent' = [agent EXCEPT ![a].open = @ \ {p}, ![a].tx[p] = NoRequest]
    BY DEF closeSocket
  <2>2. agent \in [Agents -> AgentRecord] /\ s = [f \in Fields |-> s[f]]
    BY <1>1 DEF BaseInv, Typed, Shape, IsRecord
  <2> HIDE DEF p
  <2> QED
    BY <2>1, <2>2 DEF Fields, CheckFields, OtherFields
<1>3. EnvironmentKept /\ net' = net /\ answers' = answers
  BY EnvironmentSame DEF closeSocket
<1> HIDE DEF p
<1>4. tx \in [Paths -> MaybeRequest] /\ \A q \in Paths : tx[q] \in {s.tx[q], NoRequest}
  BY <1>1 DEF Shape, CheckTypes, MaybeRequest
<1> HIDE DEF tx
<1>5. Changed(s, u, {"open", "tx"}) /\ u.open = s.open \ {p} /\ u.tx = tx
  BY <1>1 DEF Changed, Shape, IsRecord, Fields, CheckFields, OtherFields
<1> HIDE DEF u, s
<1>6. \A f \in Fields : f \notin {"open", "tx"} => u[f] = s[f]
  BY <1>5 DEF Changed
<1>7. CheckTypes(u)
  BY <1>1, <1>4, <1>5, <1>6 DEF CheckTypes, Shape, Fields, CheckFields, OtherFields
<1>8. OtherTypes(u)
  BY <1>1, <1>5, <1>6 DEF OtherTypes, Shape, Fields, CheckFields, OtherFields
<1>9. Shape(u)
  BY <1>5, <1>7, <1>8 DEF Shape, Changed
<1>10. /\ u.pair = s.pair /\ u.gen = s.gen /\ u.params = s.params /\ u.earlyDone = s.earlyDone
       /\ u.early = s.early /\ u.phase = s.phase /\ u.old = s.old /\ u.ctl = s.ctl
       /\ u.timer = s.timer /\ u.con = s.con /\ u.sel = s.sel /\ u.closing = s.closing
       /\ \A f \in ConsentFields : u[f] = s[f]
  BY <1>6 DEF Fields, CheckFields, OtherFields, ConsentFields
<1>11. a \notin env.lite => Consent(u)
  BY <1>1, <1>10, ConsentSame DEF Local
<1>12. a \in env.lite => /\ u.phase # "scheduling" /\ u.old # "scheduling"
                         /\ ~u.timer /\ u.con = NoRequest
  BY <1>1, <1>10 DEF Local
<1>13. \A q \in Paths : u.tx[q] \in {s.tx[q], NoRequest}
  BY <1>4, <1>5
<1>14. Local(u, a) /\ Moves(s, u, a, {}, {})
  BY <1>1, <1>9, <1>10, <1>11, <1>12, <1>13, QuietMoves
<1>15. Closes(s, u)
  BY <1>1, <1>10 DEF Closes
<1>16. Quiet(a, u, {})
  BY <1>2, <1>3, <1>10, <1>14, SilentStep DEF s
<1> QED
  BY <1>15, <1>16 DEF s

\* Steps of the network: no agent moves.
LEMMA NetworkStep ==
    ASSUME BaseInv, NEW a \in Agents, agent' = agent, net' \subseteq net \union SentOn(agent[a]),
           answers' = answers, EnvironmentKept
    PROVE  Quiet(a, agent[a], {}) /\ CoreSame(agent[a], agent[a])
<1> DEFINE s == agent[a]
<1>1. Local(s, a) /\ Shape(s)
  BY ActorFacts
<1>2. agent' = [agent EXCEPT ![a] = s]
  BY DEF BaseInv, Typed
<1>3. CoreSame(s, s)
  BY DEF CoreSame
<1> HIDE DEF s
<1>4. /\ a \in env.lite => /\ s.phase # "scheduling" /\ s.old # "scheduling"
                           /\ ~s.timer /\ s.con = NoRequest
      /\ a \notin env.lite => Consent(s)
  BY <1>1 DEF Local
<1>5. Local(s, a) /\ Moves(s, s, a, {}, {})
  BY <1>1, <1>3, <1>4, CoreMoves
<1> QED
  BY <1>2, <1>3, <1>5, SilentStep DEF s

LEMMA RetransmitStep ==
    ASSUME BaseInv, NEW a \in Agents, NEW p \in Paths, retransmit(a, p)
    PROVE  \E t : Quiet(a, t, {}) /\ CoreSame(agent[a], t)
<1>1. agent' = agent /\ answers' = answers /\ EnvironmentKept
  BY EnvironmentSame DEF retransmit
<1>2. net' \subseteq net \union SentOn(agent[a])
  BY DEF retransmit, SentOn
<1> QED
  BY <1>1, <1>2, NetworkStep

LEMMA LoseStep ==
    ASSUME BaseInv, NEW r \in net, lose(r)
    PROVE  \E a \in Agents : \E t : Quiet(a, t, {}) /\ CoreSame(agent[a], t)
<1>1. agent' = agent /\ answers' = answers
  BY DEF lose
<1>2. EnvironmentKept
  BY DEF BaseInv, Typed, EnvironmentKept, EnvironmentOK, Environment, lose
<1>3. "A" \in Agents /\ net' \subseteq net \union SentOn(agent["A"])
  BY DEF lose, Agents
<1>4. Quiet("A", agent["A"], {}) /\ CoreSame(agent["A"], agent["A"])
  BY <1>1, <1>2, <1>3, NetworkStep
<1> QED
  BY <1>3, <1>4

LEMMA HandledStep ==
    ASSUME BaseInv, NEW a \in Agents, NEW t, NEW W, agent[a].params, Handles(agent[a], t, a, W),
           agent' = [agent EXCEPT ![a] = t], net' = net \cup Emitted(agent[a], t),
           \A p \in W : Comparable(a) => Known(agent[Peer(a)], p),
           answers' \subseteq answers, EnvironmentKept
    PROVE  Step(a, t, W, {}, {}, {}) /\ t.ctl = agent[a].ctl
<1> DEFINE s == agent[a]
<1>1. Local(s, a)
  BY ActorFacts
<1> HIDE DEF s
<1>2. Local(t, a) /\ Moves(s, t, a, W, {}) /\ t.ctl = s.ctl
  BY <1>1, HandlesMoves DEF s
<1>3. net' \subseteq net \union SentOn(t) \union {}
  BY EmittedSent
<1>4. Step(a, t, W, {}, {}, {})
  BY <1>2, <1>3, MovesStep DEF s
<1> QED
  BY <1>2, <1>4 DEF s

LEMMA HandledQuiet ==
    ASSUME BaseInv, NEW a \in Agents, NEW t, agent[a].params, Handles(agent[a], t, a, {}),
           agent' = [agent EXCEPT ![a] = t], net' = net \cup Emitted(agent[a], t),
           answers' \subseteq answers, EnvironmentKept
    PROVE  Quiet(a, t, {})
<1> DEFINE W == {}
<1>1. Handles(agent[a], t, a, W) /\ \A p \in W : Comparable(a) => Known(agent[Peer(a)], p)
  OBVIOUS
<1> HIDE DEF W
<1>2. Step(a, t, W, {}, {}, {}) /\ t.ctl = agent[a].ctl
  BY <1>1, HandledStep
<1> QED
  BY <1>2 DEF W, Quiet

LEMMA SchedulingStep ==
    ASSUME BaseInv, NEW a \in Agents, schedulingChecks(a)
    PROVE  \E p \in Paths : LET t == checkStart(agent[a], a, p)
              IN /\ Quiet(a, t, {}) /\ agent[a].pair[p].st = "WAITING" /\ a \notin env.lite
                 /\ Local(agent[a], a)
<1> DEFINE s == agent[a]
           waiting == {p \in Paths : s.pair[p].st = "WAITING"}
           p == CHOOSE p \in waiting : \A q \in waiting : p <= q
           t == checkStart(s, a, p)
<1>1. Local(s, a) /\ Shape(s)
  BY ActorFacts
<1>2. Loops(s, "scheduling") # {} /\ waiting # {} /\ Becomes(a, t) /\ UNCHANGED <<answers, env>>
  BY DEF schedulingChecks
<1>3. a \notin env.lite
  BY <1>1, <1>2 DEF Loops, Local
<1>4. p \in waiting
  <2>1. waiting \in SUBSET Paths
    OBVIOUS
  <2> HIDE DEF waiting
  <2> QED
    BY <1>2, <2>1, LeastPath
<1>5. p \in Paths /\ s.pair[p].st = "WAITING"
  BY <1>4
<1> HIDE DEF p
<1>6. s.params
  BY <1>1, <1>5 DEF Local, InList
<1>7. Handles(s, t, a, {})
  <2> HIDE DEF s
  <2> QED
    BY <1>1, <1>3, <1>5, StartHandles
<1>8. agent' = [agent EXCEPT ![a] = t] /\ net' = net \cup Emitted(s, t)
  BY <1>2 DEF Becomes
<1>9. EnvironmentKept
  BY <1>2, EnvironmentSame
<1> HIDE DEF t
<1>10. Quiet(a, t, {})
  BY <1>2, <1>6, <1>7, <1>8, <1>9, HandledQuiet
<1> QED
  BY <1>1, <1>3, <1>5, <1>10 DEF t

LEMMA TimeoutStep ==
    ASSUME BaseInv, NEW a \in Agents, NEW p \in Paths, timeout(a, p)
    PROVE  ~env.timely /\ \E t : Quiet(a, t, {})
<1> DEFINE s == agent[a]
           r == s.tx[p]
           t == Failed(s, a, r)
<1>1. Local(s, a) /\ Shape(s)
  BY ActorFacts
<1>2. r # NoRequest /\ Becomes(a, t) /\ UNCHANGED answers /\ env.timeouts > 0
  BY DEF timeout
<1>3. r \in Requests /\ InList(s, p) /\ a \notin env.lite
  BY <1>1, <1>2 DEF Local, Shape, CheckTypes, MaybeRequest
<1>4. s.params
  BY <1>1, <1>3 DEF Local
<1>5. Handles(s, t, a, {})
  <2> HIDE DEF s, r
  <2> QED
    BY <1>1, <1>3, FailedHandles
<1>6. agent' = [agent EXCEPT ![a] = t] /\ net' = net \cup Emitted(s, t)
  BY <1>2 DEF Becomes
<1>7. EnvironmentKept /\ ~env.timely
  BY DEF BaseInv, Typed, EnvironmentKept, EnvironmentOK, Environment, timeout
<1> HIDE DEF t
<1>8. Quiet(a, t, {})
  BY <1>2, <1>4, <1>5, <1>6, <1>7, HandledQuiet
<1> QED
  BY <1>7, <1>8

\* The requests that a lite agent kept are known to its peer.
LEMMA EarlyKnown ==
    ASSUME BaseInv, NEW a \in Agents, NEW r \in Around, r.from = Peer(a), a \in env.lite,
           Comparable(a)
    PROVE  Known(agent[Peer(a)], r.path)
<1>1. RequestOK(r) /\ r \in Requests
  <2>1. \A c \in Agents : EarlyOf(agent[c]) \subseteq Requests
    BY TypedShape DEF BaseInv, EarlyOf, Shape, OtherTypes
  <2> QED
    BY <2>1 DEF BaseInv, RequestsOK, Around, Typed, Agents
<1>2. agent[a].gen = 0 /\ agent[Peer(a)].gen = 0
  <2>1. agent[a].gen = 0 /\ SameGeneration
    BY DEF Comparable
  <2>2. a = "A" \/ a = "B"
    BY DEF Agents
  <2> QED
    BY <2>1, <2>2 DEF SameGeneration, Peer
<1>3. r.gen = 0
  BY <1>1, <1>2 DEF RequestOK, Requests
<1> QED
  BY <1>1, <1>2, <1>3 DEF RequestOK, Known

\* Once replayed, the early checks are dropped.
LEMMA ReplayedMoves ==
    ASSUME NEW s, NEW x, NEW t, NEW a \in Agents, NEW W, Local(x, a), Moves(s, x, a, W, {}),
           x.params, Changed(x, t, {"early", "earlyDone", "phase"}), t.early = <<>>,
           t.earlyDone = TRUE, t.phase = IF a \in env.lite THEN "waiting" ELSE "scheduling",
           \A r \in EarlyOf(s) : InList(x, r.path)
    PROVE  Local(t, a) /\ Moves(s, t, a, W, {}) /\ t.ctl = x.ctl /\ t.params
<1>1. /\ t.gen = x.gen /\ t.ctl = x.ctl /\ t.params = x.params /\ t.pair = x.pair /\ t.tx = x.tx
      /\ t.sel = x.sel /\ t.old = x.old /\ t.con = x.con /\ t.timer = x.timer
      /\ \A f \in ConsentFields : t[f] = x[f]
  BY DEF Changed, Fields, CheckFields, OtherFields, ConsentFields
<1>2. Shape(t)
  <2>1. Changed(x, t, OtherFields) /\ \A f \in {"rend", "lend", "state", "open", "closing"} : t[f] = x[f]
    BY DEF Changed, OtherFields, Fields
  <2>2. <<>> \in Seq(Requests) /\ TRUE \in BOOLEAN /\ "waiting" \in Phases /\ "scheduling" \in Phases
    BY DEF Phases
  <2>3. OtherTypes(t)
    BY <1>1, <2>1, <2>2 DEF OtherTypes, Local, Shape
  <2> QED
    BY <2>1, <2>3, ShapeOther DEF Local
<1>3. \A p \in Paths : InList(x, p) <=> InList(t, p)
  BY <1>1 DEF InList
<1>4. EarlyOf(t) = {}
  BY DEF EarlyOf
<1>5. Moves(s, t, a, W, {})
  <2>1. \A p \in Paths : t.tx[p] \in {s.tx[p], NoRequest} \/ NewRequest(t.tx[p], t, a, p)
    BY <1>1, <1>3 DEF Moves, NewRequest
  <2>2. \A p \in Paths : Known(s, p) => Known(t, p)
    BY <1>3 DEF Moves, Known
  <2> QED
    BY <1>1, <1>3, <1>4, <2>1, <2>2 DEF Moves
<1>6. Local(t, a)
  <2>1. Listed(t)
    BY <1>1, <1>3 DEF Local, Listed
  <2>2. a \notin env.lite => Consent(t)
    <3>1. a \notin env.lite => Consent(x)
      BY DEF Local
    <3> QED
      BY <1>1, <3>1, ConsentSame
  <2>3. \A p \in Paths : t.tx[p] # NoRequest =>
          /\ t.tx[p].from = a /\ t.tx[p].path = p /\ t.tx[p].gen = t.gen
          /\ t.tx[p].kind # "consent" /\ InList(t, p)
    BY <1>1, <1>3 DEF Local
  <2>4. t.sel # None => InList(t, t.sel)
    BY <1>1 DEF Local, InList
  <2>5. a \in env.lite => /\ t.phase # "scheduling" /\ t.old # "scheduling"
                         /\ ~t.timer /\ t.con = NoRequest
                         /\ \A p \in Paths : t.tx[p] = NoRequest
    BY <1>1 DEF Local
  <2> QED
    BY <1>1, <1>2, <2>1, <2>2, <2>3, <2>4, <2>5 DEF Local
<1> QED
  BY <1>1, <1>5, <1>6

\* connect() of agent a: the pairs are formed, then the early checks are handled.
Replayed(s, t, a) ==
    /\ t.params = s.params /\ t.closing = s.closing
    /\ \E u, x : /\ Shape(u) /\ Changed(s, u, {"cands", "pair"}) /\ u.early = s.early
                 /\ u.pair = [q \in Paths |-> IF q \in s.cands THEN Waits(s.pair[q]) ELSE s.pair[q]]
                 /\ x = replay(u, a) /\ Shape(x) /\ Changed(x, t, {"early", "earlyDone", "phase"})

LEMMA ConnectStep ==
    ASSUME BaseInv, NEW a \in Agents, connect(a)
    PROVE  \E t, W : /\ Step(a, t, W, {}, {}, {}) /\ t.ctl = agent[a].ctl
                     /\ W # {} => EarlyOf(agent[a]) # {}
                     /\ Replayed(agent[a], t, a)
<1> DEFINE s == agent[a]
           paired == [s EXCEPT !.pair = [p \in Paths |->
               IF p \in s.cands /\ @[p].st = "none"
               THEN [@[p] EXCEPT !.st = "WAITING"] ELSE @[p]]]
           x == replay(paired, a)
           t == [x EXCEPT !.early = <<>>, !.earlyDone = TRUE,
                   !.phase = IF a \in env.lite THEN "waiting" ELSE "scheduling"]
           W == IF a \in env.lite THEN {r.path : r \in EarlyOf(s)} ELSE {}
<1>1. Local(s, a) /\ Shape(s) /\ s.params
  BY ActorFacts DEF connect
<1>2. Becomes(a, t) /\ UNCHANGED <<answers, env>>
  BY DEF connect
<1>3. /\ Changed(s, paired, {"cands", "pair"}) /\ paired.cands \subseteq Paths
      /\ paired.pair = [q \in Paths |-> IF q \in s.cands THEN Waits(s.pair[q]) ELSE s.pair[q]]
      /\ paired.early = s.early
  <2> HIDE DEF s
  <2>1. /\ Changed(s, paired, {"cands", "pair"}) /\ paired.cands = s.cands /\ paired.early = s.early
        /\ paired.pair = [q \in Paths |-> IF q \in s.cands /\ s.pair[q].st = "none"
               THEN [s.pair[q] EXCEPT !.st = "WAITING"] ELSE s.pair[q]]
    BY <1>1 DEF Changed, Shape, IsRecord, Fields, CheckFields, OtherFields
  <2>2. s.cands \subseteq Paths
    BY <1>1 DEF Shape, CheckTypes
  <2> HIDE DEF paired
  <2> QED
    BY <2>1, <2>2 DEF Waits
<1> HIDE DEF paired
<1>4. Handles(s, paired, a, W) /\ Shape(paired)
  <2> HIDE DEF s, W
  <2> QED
    BY <1>1, <1>3, FormingHandles
<1>5. /\ Handles(paired, x, a, W) /\ Shape(x)
      /\ \A i \in 1..Len(s.early) : InList(x, s.early[i].path)
  <2>1. \A i \in 1..Len(paired.early) :
            a \in env.lite /\ paired.early[i].uc => paired.early[i].path \in W
    BY <1>3 DEF EarlyOf
  <2> HIDE DEF s, W
  <2> QED
    BY <1>3, <1>4, <2>1, ReplayHandles
<1> HIDE DEF x
<1>6. Handles(s, x, a, W)
  <2> HIDE DEF s, W
  <2> QED
    BY <1>1, <1>4, <1>5, HandlesThen
<1>7. Local(x, a) /\ Moves(s, x, a, W, {}) /\ x.ctl = s.ctl /\ x.params
  <2> HIDE DEF s, W
  <2>1. x.params = s.params
    BY <1>1, <1>6, HandlesShape DEF OtherFields
  <2> QED
    BY <1>1, <1>6, <2>1, HandlesMoves
<1>8. /\ Changed(x, t, {"early", "earlyDone", "phase"}) /\ t.early = <<>> /\ t.earlyDone = TRUE
      /\ t.phase = IF a \in env.lite THEN "waiting" ELSE "scheduling"
      /\ t.tx = x.tx
  BY <1>5 DEF Changed, Shape, IsRecord, Fields, CheckFields, OtherFields
<1>9. \A r \in EarlyOf(s) : InList(x, r.path)
  BY <1>5 DEF EarlyOf
<1>10. agent' = [agent EXCEPT ![a] = t] /\ net' = net \cup Emitted(s, t)
  BY <1>2 DEF Becomes
<1> HIDE DEF t
<1>11. Local(t, a) /\ Moves(s, t, a, W, {}) /\ t.ctl = x.ctl /\ t.params
  <2> HIDE DEF s, W
  <2> QED
    BY <1>7, <1>8, <1>9, ReplayedMoves
<1>12. \A p \in W : Comparable(a) => Known(agent[Peer(a)], p)
  <2> SUFFICES ASSUME NEW p \in W, Comparable(a) PROVE Known(agent[Peer(a)], p)
    OBVIOUS
  <2>1. PICK r \in EarlyOf(s) : p = r.path /\ a \in env.lite
    OBVIOUS
  <2>2. r \in Around /\ r.from = Peer(a)
    BY <1>1, EarlyIn DEF Local, EarlyOf
  <2> QED
    BY <2>1, <2>2, EarlyKnown
<1>13. W # {} => EarlyOf(s) # {}
  OBVIOUS
<1>14. EnvironmentKept
  BY <1>2, EnvironmentSame
<1> HIDE DEF W
<1>15. Step(a, t, W, {}, {}, {})
  <2>1. net' \subseteq net \union SentOn(t) \union {}
    BY <1>10, EmittedSent
  <2> QED
    BY <1>1, <1>2, <1>10, <1>11, <1>12, <1>14, <2>1, MovesStep
<1>16. Replayed(s, t, a)
  <2>1. t.params = s.params /\ t.closing = s.closing
    <3>1. x.params = s.params /\ x.closing = s.closing
      <4> HIDE DEF s
      <4> QED
        BY <1>1, <1>6, HandlesShape DEF OtherFields
    <3>2. t.params = x.params /\ t.closing = x.closing
      BY <1>8 DEF Changed, Fields, CheckFields, OtherFields
    <3> QED
      BY <3>1, <3>2
  <2> HIDE DEF s
  <2>2. x = replay(paired, a)
    BY DEF x
  <2> QED
    BY <1>3, <1>4, <1>5, <1>8, <2>1, <2>2 DEF Replayed
<1> QED
  BY <1>7, <1>11, <1>13, <1>15, <1>16

\* A generation that begins: the checks start over.
Begins(s, t, a) ==
    /\ Shape(t) /\ (\A p \in Paths : t.pair[p] = NewPair /\ t.tx[p] = NoRequest)
    /\ t.con = NoRequest /\ t.sel = None /\ ~t.nominating /\ ~t.done /\ t.early = <<>>
    /\ ~t.earlyDone /\ ~t.fresh /\ ~t.timer /\ t.phase = "idle" /\ ~t.closing
    /\ t.old = (IF "scheduling" \in {s.phase, s.old} THEN "scheduling" ELSE "none")

Offered(s, g, c)  == [NextGeneration(s) EXCEPT !.gen = g, !.ctl = c]
Offering(s, g, c) == [NextGeneration(s) EXCEPT !.gen = g, !.params = FALSE, !.ctl = c]

LEMMA FreshRecord ==
    ASSUME NEW c
    PROVE  IsRecord(FreshAgent(c)) /\ DOMAIN FreshAgent(c) = Fields
<1> DEFINE f == FreshAgent(c)
<1>1. DOMAIN f = Fields
  BY DEF FreshAgent, Fields, CheckFields, OtherFields
<1>2. f = [x \in DOMAIN f |-> f[x]]
  BY DEF FreshAgent
<1> HIDE DEF f
<1>3. IsRecord(f)
  BY <1>1, <1>2 DEF IsRecord
<1> QED
  BY <1>1, <1>3 DEF f

LEMMA GenerationBegins ==
    ASSUME NEW s, NEW a \in Agents, Shape(s), NEW g \in Nat, NEW c \in BOOLEAN
    PROVE  LET t == Offered(s, g, c)
               u == Offering(s, g, c)
           IN  /\ Begins(s, t, a) /\ t.gen = g /\ t.ctl = c /\ t.params
               /\ Begins(s, u, a) /\ u.gen = g /\ u.ctl = c /\ ~u.params
<1> DEFINE n == NextGeneration(s)
           t == Offered(s, g, c)
           u == Offering(s, g, c)
           old == IF "scheduling" \in {s.phase, s.old} THEN "scheduling" ELSE "none"
           f == FreshAgent(s.ctl)
<1>0. IsRecord(f) /\ DOMAIN f = Fields
  BY FreshRecord
<1>1. /\ f.params = TRUE /\ f.cands = {} /\ f.rend = FALSE /\ f.lend = TRUE
      /\ f.phase = "idle" /\ f.pair = [p \in Paths |-> NewPair] /\ f.tx = [p \in Paths |-> NoRequest]
      /\ f.con = NoRequest /\ f.sel = None /\ f.nominating = FALSE /\ f.done = FALSE
      /\ f.queue = <<>> /\ f.early = <<>> /\ f.earlyDone = FALSE /\ f.fresh = FALSE
      /\ f.timer = FALSE /\ f.open = Paths /\ f.closing = FALSE
  BY DEF FreshAgent
<1>2. n = [f EXCEPT !.gen = s.gen, !.lend = FALSE, !.state = "new",
             !.sent = s.sent, !.open = s.open, !.old = old]
  BY DEF NextGeneration
<1> HIDE DEF f, n, old
<1>3. /\ IsRecord(n) /\ DOMAIN n = Fields /\ n.lend = FALSE /\ n.state = "new"
      /\ n.sent = s.sent /\ n.open = s.open /\ n.old = old
      /\ \A x \in Fields \ {"gen", "lend", "state", "sent", "open", "old"} : n[x] = f[x]
  BY <1>0, <1>2 DEF IsRecord, Fields, CheckFields, OtherFields
<1>4. /\ IsRecord(t) /\ t.gen = g /\ t.ctl = c /\ \A x \in Fields \ {"gen", "ctl"} : t[x] = n[x]
  BY <1>3 DEF Offered, n, IsRecord, Fields, CheckFields, OtherFields
<1>5. /\ IsRecord(u) /\ u.gen = g /\ u.ctl = c /\ u.params = FALSE
      /\ \A x \in Fields \ {"gen", "ctl", "params"} : u[x] = n[x]
  BY <1>3 DEF Offering, n, IsRecord, Fields, CheckFields, OtherFields
<1> HIDE DEF t, u
<1>6. old \in (Phases \ {"idle"}) \union {"none"} /\ s.sent \in Nat /\ s.open \subseteq Paths
  BY DEF old, Phases, Shape, CheckTypes, OtherTypes
<1>7. ASSUME NEW x, IsRecord(x), x.gen = g, x.ctl = c, x.params \in BOOLEAN,
             \A y \in Fields \ {"gen", "ctl", "params"} : x[y] = n[y]
      PROVE  Begins(s, x, a)
  <2>1. /\ x.cands = {} /\ x.rend = FALSE /\ x.lend = FALSE /\ x.phase = "idle" /\ x.state = "new"
        /\ x.pair = [p \in Paths |-> NewPair] /\ x.tx = [p \in Paths |-> NoRequest]
        /\ x.con = NoRequest /\ x.sel = None /\ x.nominating = FALSE /\ x.done = FALSE
        /\ x.queue = <<>> /\ x.early = <<>> /\ x.earlyDone = FALSE /\ x.fresh = FALSE
        /\ x.timer = FALSE /\ x.open = s.open /\ x.closing = FALSE /\ x.sent = s.sent /\ x.old = old
    BY <1>1, <1>3, <1>7 DEF Fields, CheckFields, OtherFields
  <2>2. CheckTypes(x)
    <3>1. NewPair \in Pair
      BY DEF NewPair, Pair, PairStates
    <3>2. <<>> \in Seq(Results)
      OBVIOUS
    <3> QED
      BY <1>6, <2>1, <3>1, <3>2 DEF CheckTypes, MaybeRequest
  <2>3. OtherTypes(x)
    <3>1. <<>> \in Seq(Requests) /\ "new" \in States /\ "idle" \in Phases
      BY DEF States, Phases
    <3> QED
      BY <1>6, <1>7, <2>1, <3>1 DEF OtherTypes
  <2> QED
    BY <1>7, <2>1, <2>2, <2>3 DEF Begins, Shape, old
<1>8. Begins(s, u, a)
  BY <1>5, <1>7
<1>9. Begins(s, t, a) /\ t.params
  <2>1. t.params = TRUE
    BY <1>1, <1>3, <1>4 DEF Fields, OtherFields
  <2> QED
    BY <1>4, <1>7, <2>1
<1> QED
  BY <1>4, <1>5, <1>8, <1>9 DEF t, u

\* The candidates of a description are paired.
Described(u, t) ==
    /\ Changed(u, t, {"cands", "rend", "lend", "pair"}) /\ Shape(t) /\ Listed(t)
    /\ \A p \in Paths : t.pair[p].st \in {"none", "WAITING"}

LEMMA Describes ==
    ASSUME NEW u, NEW C \in SUBSET Paths, Shape(u), \A p \in Paths : u.pair[p] = NewPair
    PROVE  Described(u, u) /\ Described(u, WithCandidates([u EXCEPT !.lend = TRUE], C))
<1> DEFINE t == WithCandidates([u EXCEPT !.lend = TRUE], C)
           pair == [p \in Paths |-> IF p \in C THEN [NewPair EXCEPT !.st = "WAITING"] ELSE u.pair[p]]
<1>1. Described(u, u)
  BY DEF Described, Changed, Shape, Listed, NewPair
<1>2. /\ IsRecord(t) /\ t.cands = C /\ t.rend = TRUE /\ t.lend = TRUE /\ t.pair = pair
      /\ \A f \in Fields \ {"cands", "rend", "lend", "pair"} : t[f] = u[f]
  BY DEF WithCandidates, Shape, IsRecord, Fields, CheckFields, OtherFields
<1>3. \A p \in Paths : pair[p] \in Pair /\ (pair[p] = NewPair \/ pair[p].st = "WAITING")
  <2>1. NewPair \in Pair
    BY DEF NewPair, Pair, PairStates
  <2>2. LET w == [NewPair EXCEPT !.st = "WAITING"] IN w \in Pair /\ w.st = "WAITING"
    BY DEF NewPair, Pair, PairStates
  <2> QED
    BY <2>1, <2>2
<1>4. pair \in [Paths -> Pair]
  BY <1>3
<1> HIDE DEF pair, t
<1>5. Shape(t)
  <2>1. CheckTypes(t)
    BY <1>2, <1>4 DEF Shape, CheckTypes, Fields, CheckFields, OtherFields
  <2>2. OtherTypes(t)
    BY <1>2 DEF Shape, OtherTypes, Fields, CheckFields, OtherFields
  <2> QED
    BY <1>2, <2>1, <2>2 DEF Shape
<1>6. Listed(t) /\ \A p \in Paths : t.pair[p].st \in {"none", "WAITING"}
  BY <1>2, <1>3 DEF Listed, InList, NewPair
<1>7. Described(u, t)
  BY <1>2, <1>5, <1>6 DEF Described, Changed
<1> QED
  BY <1>1, <1>7 DEF t

\* A new generation, with or without the peer's candidates.
LEMMA BegunLocal ==
    ASSUME NEW s, NEW u, NEW t, NEW a \in Agents, Local(s, a), Begins(s, u, a), Described(u, t),
           u.params \/ t = u
    PROVE  /\ Local(t, a) /\ t.gen = u.gen /\ t.params = u.params /\ t.ctl = u.ctl
           /\ (\A p \in Paths : t.pair[p].st # "SUCCEEDED" /\ t.sel # p) /\ EarlyOf(t) = {}
<1>1. /\ t.gen = u.gen /\ t.params = u.params /\ t.ctl = u.ctl /\ t.tx = u.tx /\ t.con = NoRequest
      /\ t.sel = None /\ ~t.done /\ t.early = <<>> /\ ~t.earlyDone /\ ~t.fresh /\ ~t.timer
      /\ t.phase = "idle" /\ t.old = u.old
  BY DEF Described, Begins, Changed, Fields, CheckFields, OtherFields
<1>2. \A p \in Paths : t.tx[p] = NoRequest
  BY <1>1 DEF Begins
<1>3. EarlyOf(t) = {} /\ \A p \in Paths : t.pair[p].st # "SUCCEEDED" /\ t.sel # p
  BY <1>1, PathFacts DEF EarlyOf, Described
<1>4. ~t.params => \A p \in Paths : ~InList(t, p)
  BY <1>1 DEF Begins, InList, NewPair
<1>5. a \in env.lite => t.old # "scheduling"
  BY <1>1 DEF Begins, Local
<1>6. Consent(t)
  BY <1>1 DEF Consent
<1>7. Local(t, a)
  BY <1>1, <1>2, <1>4, <1>5, <1>6 DEF Local, Described
<1> QED
  BY <1>1, <1>3, <1>7

LEMMA RestartStep ==
    ASSUME BaseInv, NEW a \in Agents, restart(a)
    PROVE  \E t : Restarts(a, t)
<1> DEFINE s == agent[a]
           g == s.gen + 1
           c == a \notin env.lite
           t == Offering(s, g, c)
<1>1. Local(s, a) /\ Shape(s) /\ s.gen \in Nat /\ g \in Nat /\ c \in BOOLEAN /\ g > s.gen
  BY ActorFacts DEF Shape, OtherTypes
<1>2. agent' = [agent EXCEPT ![a] = t]
  BY DEF restart, Offering
<1> HIDE DEF g, c
<1>3. Begins(s, t, a) /\ t.gen = g /\ ~t.params
  <2> HIDE DEF s
  <2> QED
    BY <1>1, GenerationBegins
<1> HIDE DEF t
<1>4. Described(t, t)
  BY <1>3, Describes DEF Begins
<1>5. /\ Local(t, a) /\ EarlyOf(t) = {}
      /\ \A p \in Paths : t.pair[p].st # "SUCCEEDED" /\ t.sel # p
  <2> HIDE DEF s
  <2> QED
    BY <1>1, <1>3, <1>4, BegunLocal
<1>6. EnvironmentKept /\ net' = net /\ answers' = answers
  BY DEF restart, BaseInv, Typed, EnvironmentKept, EnvironmentOK, Environment
<1> QED
  BY <1>1, <1>2, <1>3, <1>5, <1>6 DEF Restarts, EnvironmentKept

\* The answer to an offer pairs the candidates it brings.
LEMMA DescribedMoves ==
    ASSUME NEW s, NEW u, NEW t, NEW a \in Agents, Local(s, a), ~s.params,
           Changed(s, u, {"params"}), u.params, Described(u, t)
    PROVE  Local(t, a) /\ Moves(s, t, a, {}, {}) /\ t.ctl = s.ctl
<1>1. /\ t.gen = s.gen /\ t.params /\ t.ctl = s.ctl /\ t.tx = s.tx /\ t.con = s.con
      /\ t.sel = s.sel /\ t.early = s.early /\ t.timer = s.timer /\ t.phase = s.phase
      /\ t.old = s.old /\ \A f \in ConsentFields : t[f] = s[f]
  BY DEF Described, Changed, Fields, CheckFields, OtherFields, ConsentFields
<1>2. \A p \in Paths : ~InList(s, p) /\ t.pair[p].st # "SUCCEEDED" /\ s.tx[p] = NoRequest
  BY DEF Local, Described
<1>3. s.sel = None
  BY <1>2 DEF Local, Shape, CheckTypes
<1>4. EarlyOf(t) = EarlyOf(s)
  BY <1>1 DEF EarlyOf
<1>5. Moves(s, t, a, {}, {})
  BY <1>1, <1>2, <1>3, <1>4, PathFacts DEF Moves, Known
<1>6. a \notin env.lite => Consent(t)
  BY <1>1, ConsentSame DEF Local
<1>7. Local(t, a)
  BY <1>1, <1>2, <1>3, <1>6 DEF Local, Described
<1> QED
  BY <1>1, <1>5, <1>7

WithDescription(u) ==
    IF env.trickle THEN u ELSE WithCandidates([u EXCEPT !.lend = TRUE], env.used)

LEMMA DescriptionStep ==
    ASSUME BaseInv, NEW u, Shape(u), \A p \in Paths : u.pair[p] = NewPair
    PROVE  Described(u, WithDescription(u))
<1>1. env.used \in SUBSET Paths
  BY DEF BaseInv, Typed, EnvironmentOK, Environment
<1>2. Described(u, u) /\ Described(u, WithCandidates([u EXCEPT !.lend = TRUE], env.used))
  BY <1>1, Describes
<1> QED
  BY <1>2 DEF WithDescription

LEMMA EntersStep ==
    ASSUME BaseInv, NEW a \in Agents, NEW t, agent' = [agent EXCEPT ![a] = t],
           Local(t, a), Moves(agent[a], t, a, {}, {}), agent[a].gen <= agent[Peer(a)].gen,
           net' = net, answers' = answers, EnvironmentKept
    PROVE  Step(a, t, {}, {}, {}, {})
BY DEF Step, EnvironmentKept

LEMMA ParamsStep ==
    ASSUME BaseInv, NEW a \in Agents, setRemoteParams(a)
    PROVE  \E t : (Quiet(a, t, {}) /\ t.closing = agent[a].closing) \/ Restarts(a, t)
<1> DEFINE s == agent[a]
           g == agent[Peer(a)].gen
           u == IF s.gen < g THEN [NextGeneration(s) EXCEPT !.gen = g, !.ctl = FALSE]
                ELSE [s EXCEPT !.params = TRUE]
           t == WithDescription(u)
<1>1. Local(s, a) /\ Shape(s) /\ s.gen \in Nat /\ g \in Nat
  <2>0. Peer(a) \in Agents
    BY PeerFacts
  <2>1. Shape(agent[Peer(a)]) /\ Shape(s) /\ Local(s, a)
    BY <2>0, ActorFacts
  <2> QED
    BY <2>1 DEF Shape, OtherTypes
<1>2. /\ agent' = [agent EXCEPT ![a] = t]
      /\ s.gen < g \/ (s.gen = g /\ ~s.params)
      /\ UNCHANGED <<net, answers, env>>
  BY DEF setRemoteParams, WithDescription
<1>3. EnvironmentKept /\ net' = net /\ answers' = answers
  BY <1>2, EnvironmentSame
<1>4. CASE s.gen < g
  <2> DEFINE no == FALSE
  <2>1. no \in BOOLEAN
    OBVIOUS
  <2>2. u = Offered(s, g, no)
    BY <1>4 DEF Offered
  <2> HIDE DEF no, u
  <2>3. Begins(s, u, a) /\ u.gen = g /\ u.params
    <3> HIDE DEF s, g
    <3> QED
      BY <1>1, <2>1, <2>2, GenerationBegins
  <2>4. Described(u, t)
    BY <2>3, DescriptionStep DEF Begins
  <2> HIDE DEF t
  <2>5. /\ Local(t, a) /\ t.gen = u.gen /\ t.params = u.params /\ EarlyOf(t) = {}
        /\ \A p \in Paths : t.pair[p].st # "SUCCEEDED" /\ t.sel # p
    <3> HIDE DEF s, g
    <3>1. Local(s, a) /\ Begins(s, u, a) /\ Described(u, t)
      BY <1>1, <2>3, <2>4
    <3>2. u.params
      BY <2>3
    <3>3. Local(t, a) /\ t.gen = u.gen
      BY <3>1, <3>2, BegunLocal
    <3>4. t.params = u.params
      BY <3>1, <3>2, BegunLocal
    <3> QED
      BY <3>1, <3>2, <3>3, <3>4, BegunLocal
  <2>6. Restarts(a, t)
    BY <1>1, <1>2, <1>3, <1>4, <2>3, <2>5 DEF Restarts, EnvironmentKept
  <2> QED
    BY <2>6
<1>5. CASE s.gen = g /\ ~s.params
  <2>1. u = [s EXCEPT !.params = TRUE]
    BY <1>1, <1>5
  <2> HIDE DEF u
  <2>2. Changed(s, u, {"params"}) /\ u.params
    <3> HIDE DEF s
    <3> QED
      BY <1>1, <2>1 DEF Shape, Changed, IsRecord, Fields, CheckFields, OtherFields
  <2>3. Shape(u) /\ \A p \in Paths : u.pair[p] = NewPair
    <3> HIDE DEF s
    <3>1. Changed(s, u, OtherFields) /\ u.pair = s.pair
      BY <2>2 DEF Changed, Fields, OtherFields, CheckFields
    <3>2. u.params \in BOOLEAN
      <4>1. u.params = TRUE
        BY <1>1, <2>1 DEF Shape, IsRecord, Fields, CheckFields, OtherFields
      <4> QED
        BY <4>1
    <3>3. OtherTypes(u)
      BY <1>1, <2>2, <3>2 DEF Changed, Fields, OtherFields, CheckFields, OtherTypes, Shape
    <3>4. \A p \in Paths : s.pair[p] = NewPair
      BY <1>1, <1>5 DEF Local, Listed
    <3> QED
      BY <1>1, <3>1, <3>3, <3>4, ShapeOther
  <2>4. Described(u, t)
    BY <2>3, DescriptionStep
  <2> HIDE DEF t
  <2>5. Local(t, a) /\ Moves(s, t, a, {}, {}) /\ t.ctl = s.ctl
    <3> HIDE DEF s
    <3> QED
      BY <1>1, <1>5, <2>2, <2>4, DescribedMoves
  <2>6. Step(a, t, {}, {}, {}, {})
    <3>1. agent[a].gen <= agent[Peer(a)].gen
      BY <1>1, <1>5
    <3>2. Moves(agent[a], t, a, {}, {}) /\ Local(t, a)
      BY <2>5
    <3> HIDE DEF s, g
    <3> QED
      BY <1>2, <1>3, <3>1, <3>2, EntersStep
  <2>7. t.closing = s.closing
    <3> HIDE DEF s
    <3> QED
      BY <2>2, <2>4 DEF Described, Changed, Fields, CheckFields, OtherFields
  <2> QED
    BY <2>5, <2>6, <2>7 DEF Quiet
<1> QED
  BY <1>2, <1>4, <1>5


\* An agent whose role changes keeps everything else.
LEMMA RoleMoves ==
    ASSUME NEW s, NEW v, NEW a \in Agents, Local(s, a), Changed(s, v, {"ctl"}), v.ctl \in BOOLEAN
    PROVE  /\ Local(v, a) /\ v.params = s.params /\ v.earlyDone = s.earlyDone /\ v.gen = s.gen
           /\ v.closing = s.closing
           /\ \A u, W, E : Moves(v, u, a, W, E) => Moves(s, u, a, W, E)
<1>1. /\ \A f \in Fields \ {"ctl"} : v[f] = s[f]
      /\ v.gen = s.gen /\ v.params = s.params /\ v.earlyDone = s.earlyDone /\ v.early = s.early
      /\ v.pair = s.pair /\ v.sel = s.sel /\ v.tx = s.tx /\ v.phase = s.phase /\ v.old = s.old
      /\ v.timer = s.timer /\ v.con = s.con /\ \A f \in ConsentFields : v[f] = s[f]
      /\ v.closing = s.closing
  BY DEF Changed, Fields, CheckFields, OtherFields, ConsentFields
<1>2. Shape(v)
  <2>1. OtherTypes(v)
    BY <1>1 DEF Local, Shape, OtherTypes, Fields, OtherFields
  <2>2. Changed(s, v, OtherFields)
    BY DEF Changed, OtherFields
  <2> QED
    BY <2>1, <2>2, ShapeOther DEF Local
<1>3. a \in env.lite => /\ v.phase # "scheduling" /\ v.old # "scheduling"
                         /\ ~v.timer /\ v.con = NoRequest
  BY <1>1 DEF Local
<1>4. a \notin env.lite => Consent(v)
  <2>1. a \notin env.lite => Consent(s)
    BY DEF Local
  <2> QED
    BY <1>1, <2>1, ConsentSame
<1>5. Local(v, a)
  BY <1>1, <1>2, <1>3, <1>4, QuietMoves
<1>6. ASSUME NEW u, NEW W, NEW E, Moves(v, u, a, W, E)
      PROVE  Moves(s, u, a, W, E)
  <2>0. EarlyOf(v) = EarlyOf(s)
    BY <1>1 DEF EarlyOf
  <2>1. \A p \in Paths : (InList(v, p) <=> InList(s, p)) /\ (Known(v, p) <=> Known(s, p))
    BY <1>1, <2>0 DEF InList, Known
  <2>2. v.gen = s.gen /\ v.pair = s.pair /\ v.sel = s.sel /\ v.tx = s.tx
    BY <1>1
  <2>3. /\ u.gen = s.gen
        /\ \A p \in Paths : u.tx[p] \in {s.tx[p], NoRequest} \/ NewRequest(u.tx[p], u, a, p)
        /\ \A p \in Paths : u.pair[p].st = "SUCCEEDED" => s.pair[p].st = "SUCCEEDED" \/ p \in W
        /\ \A p \in Paths : u.sel = p => s.sel = p \/ s.pair[p].st = "SUCCEEDED" \/ p \in W
    BY <1>6, <2>2 DEF Moves
  <2>4. /\ \A p \in Paths : InList(s, p) => InList(u, p)
        /\ \A p \in Paths : Known(s, p) => Known(u, p)
        /\ EarlyOf(u) \subseteq EarlyOf(s) \union E
    BY <1>6, <2>0, <2>1 DEF Moves
  <2> QED
    BY <2>3, <2>4 DEF Moves
<1> QED
  BY <1>1, <1>5, <1>6

\* A check that came before connect() is kept.
Keeps(v, r) == [v EXCEPT !.early = IF r \in Range(v.early) THEN @ ELSE Append(@, r)]

LEMMA KeepsMoves ==
    ASSUME NEW v, NEW a \in Agents, Local(v, a), NEW r \in Requests, r.from = Peer(a)
    PROVE  LET u == Keeps(v, r)
           IN  /\ Local(u, a) /\ Moves(v, u, a, {}, {r}) /\ u.ctl = v.ctl /\ u.params = v.params
               /\ Known(u, r.path) /\ r \in EarlyOf(u) /\ u.closing = v.closing
<1> DEFINE u == Keeps(v, r)
           early == IF r \in Range(v.early) THEN v.early ELSE Append(v.early, r)
<1>1. IsRecord(u) /\ u.early = early /\ \A f \in Fields \ {"early"} : u[f] = v[f]
  BY DEF Keeps, Local, Shape, IsRecord, Fields, CheckFields, OtherFields
<1>2. v.early \in Seq(Requests)
  BY DEF Local, Shape, OtherTypes
<1>3. /\ early \in Seq(Requests)
      /\ \A i \in 1..Len(early) : early[i] = r \/ \E j \in 1..Len(v.early) : early[i] = v.early[j]
      /\ \A j \in 1..Len(v.early) : j \in 1..Len(early) /\ early[j] = v.early[j]
      /\ \E i \in 1..Len(early) : early[i] = r
  <2>1. CASE r \in Range(v.early)
    <3>1. \E i \in 1..Len(v.early) : v.early[i] = r
      BY <1>2, <2>1 DEF Range
    <3> QED
      BY <1>2, <2>1, <3>1
  <2>2. CASE r \notin Range(v.early)
    <3>1. early = Append(v.early, r) /\ Len(early) = Len(v.early) + 1 /\ Len(v.early) \in Nat
      BY <1>2, <2>2
    <3>2. early[Len(early)] = r /\ \A j \in 1..Len(v.early) : early[j] = v.early[j]
      BY <1>2, <3>1
    <3>3. early \in Seq(Requests)
      BY <1>2, <3>1
    <3> HIDE DEF early
    <3> QED
      BY <3>1, <3>2, <3>3
  <2> QED
    BY <2>1, <2>2
<1> HIDE DEF u, early
<1>4. /\ u.gen = v.gen /\ u.params = v.params /\ u.earlyDone = v.earlyDone /\ u.ctl = v.ctl
      /\ u.pair = v.pair /\ u.sel = v.sel /\ u.tx = v.tx /\ u.phase = v.phase /\ u.old = v.old
      /\ u.timer = v.timer /\ u.con = v.con /\ \A f \in ConsentFields : u[f] = v[f]
      /\ u.closing = v.closing
  BY <1>1 DEF Fields, CheckFields, OtherFields, ConsentFields
<1>5. Shape(u)
  <2>1. OtherTypes(u)
    BY <1>1, <1>3 DEF Local, Shape, OtherTypes, Fields, OtherFields
  <2>2. Changed(v, u, OtherFields)
    BY <1>1 DEF Changed, OtherFields
  <2> QED
    BY <2>1, <2>2, ShapeOther DEF Local
<1>6. \A p \in Paths : InList(u, p) <=> InList(v, p)
  BY <1>4 DEF InList
<1>7. EarlyOf(u) \subseteq EarlyOf(v) \union {r} /\ EarlyOf(v) \subseteq EarlyOf(u) /\ r \in EarlyOf(u)
  BY <1>1, <1>3 DEF EarlyOf
<1>8. Moves(v, u, a, {}, {r}) /\ Known(u, r.path)
  BY <1>4, <1>6, <1>7 DEF Moves, Known
<1>9. Local(u, a)
  <2>1. \A i \in 1..Len(u.early) : u.early[i].from = Peer(a)
    BY <1>1, <1>3 DEF Local
  <2>2. a \in env.lite => /\ u.phase # "scheduling" /\ u.old # "scheduling"
                           /\ ~u.timer /\ u.con = NoRequest
                           /\ \A p \in Paths : u.tx[p] = NoRequest
    BY <1>4 DEF Local
  <2>3. a \notin env.lite => Consent(u)
    <3>1. a \notin env.lite => Consent(v)
      BY DEF Local
    <3> QED
      BY <1>4, <3>1, ConsentSame
  <2>4. Listed(u)
    BY <1>4, <1>6 DEF Local, Listed
  <2>5. u.sel # None => InList(u, u.sel)
    BY <1>4 DEF Local, InList
  <2>6. \A p \in Paths : u.tx[p] # NoRequest =>
          /\ u.tx[p].from = a /\ u.tx[p].path = p /\ u.tx[p].gen = u.gen
          /\ u.tx[p].kind # "consent" /\ InList(u, p)
    BY <1>4, <1>6 DEF Local
  <2>7. ~u.params => ~u.earlyDone /\ \A p \in Paths : ~InList(u, p)
    BY <1>4, <1>6 DEF Local
  <2> QED
    BY <1>5, <2>1, <2>2, <2>3, <2>4, <2>5, <2>6, <2>7 DEF Local
<1> QED
  BY <1>4, <1>7, <1>8, <1>9 DEF u


Reroled(s, a, r) ==
    IF RoleConflict(s, a, r) \in {"yield", "claim"}
    THEN switchRole(s, a, RoleConflict(s, a, r) = "claim") ELSE s

\* What the receiver of request r becomes.
Received(s, a, r) ==
    LET v == Reroled(s, a, r)
    IN  IF RoleConflict(s, a, r) \in {"refuse", "claim"} THEN v
        ELSE IF CheckList(v) = {} /\ ~v.earlyDone THEN Keeps(v, r) ELSE checkIncoming(v, a, r)

LEMMA RequestIs ==
    ASSUME NEW a, NEW r, requestReceived(a, r)
    PROVE  /\ agent' = [agent EXCEPT ![a] = Received(agent[a], a, r)]
           /\ net' = (net \ {r}) \cup Emitted(agent[a], Received(agent[a], a, r))
           /\ answers' = IF RoleConflict(agent[a], a, r) = "claim" THEN answers
                         ELSE answers \cup {[req |-> r, ok |-> RoleConflict(agent[a], a, r) # "refuse"]}
           /\ r.from = Peer(a) /\ r.path \in agent[a].open /\ env' = env
BY DEF requestReceived, Received, Reroled, Keeps

LEMMA ReroledIs ==
    ASSUME NEW s, NEW a \in Agents, NEW r, Local(s, a)
    PROVE  LET v == Reroled(s, a, r)
           IN  /\ Changed(s, v, {"ctl"}) /\ v.ctl \in BOOLEAN
               /\ v.ctl = CASE RoleConflict(s, a, r) = "yield" -> FALSE
                            [] RoleConflict(s, a, r) = "claim" -> a \notin env.lite
                            [] OTHER -> s.ctl
<1> DEFINE v == Reroled(s, a, r)
           claims == RoleConflict(s, a, r) = "claim"
           ctl == claims /\ a \notin env.lite
<1>1. CASE RoleConflict(s, a, r) \in {"yield", "claim"}
  <2>1. v = [s EXCEPT !.ctl = ctl]
    BY <1>1 DEF Reroled, switchRole
  <2>2. ctl \in BOOLEAN /\ (ctl <=> (claims /\ a \notin env.lite))
    OBVIOUS
  <2> HIDE DEF v, ctl
  <2>3. Changed(s, v, {"ctl"}) /\ v.ctl = ctl
    BY <2>1 DEF Changed, Local, Shape, IsRecord, Fields, CheckFields, OtherFields
  <2> QED
    BY <1>1, <2>2, <2>3 DEF v
<1>2. CASE RoleConflict(s, a, r) \notin {"yield", "claim"}
  <2>1. v = s
    BY <1>2 DEF Reroled
  <2>2. Changed(s, s, {"ctl"}) /\ s.ctl \in BOOLEAN
    BY DEF Changed, Local, Shape, OtherTypes
  <2> QED
    BY <1>2, <2>1, <2>2
<1> QED
  BY <1>1, <1>2

\* Whoever receives a check answers it, changes its role, keeps it, or handles it.
LEMMA ReceivedMoves ==
    ASSUME NEW s, NEW a \in Agents, Local(s, a), NEW r \in Requests, r.from = Peer(a),
           NEW W, NEW E,
           RoleConflict(s, a, r) \notin {"refuse", "claim"} =>
               r \in E /\ (a \in env.lite => r.path \in W)
    PROVE  LET t == Received(s, a, r)
           IN  /\ Local(t, a) /\ Moves(s, t, a, W, E) /\ t.params = s.params
               /\ t.ctl = Reroled(s, a, r).ctl /\ t.closing = s.closing
               /\ RoleConflict(s, a, r) \notin {"refuse", "claim"} => Known(t, r.path)
<1> DEFINE v == Reroled(s, a, r)
           t == Received(s, a, r)
<1>1. /\ Local(v, a) /\ v.params = s.params /\ v.earlyDone = s.earlyDone /\ v.gen = s.gen
      /\ v.closing = s.closing
      /\ \A u, V, F : Moves(v, u, a, V, F) => Moves(s, u, a, V, F)
  <2>1. Changed(s, v, {"ctl"}) /\ v.ctl \in BOOLEAN
    BY ReroledIs
  <2> HIDE DEF v
  <2> QED
    BY <2>1, RoleMoves
<1>2. CASE RoleConflict(s, a, r) \in {"refuse", "claim"}
  <2>1. t = v
    BY <1>2 DEF Received
  <2> HIDE DEF v
  <2>2. Moves(v, v, a, W, E)
    BY DEF Moves
  <2> QED
    BY <1>1, <1>2, <2>1, <2>2 DEF v
<1>3. CASE RoleConflict(s, a, r) \notin {"refuse", "claim"} /\ CheckList(v) = {} /\ ~v.earlyDone
  <2>1. t = Keeps(v, r)
    BY <1>3 DEF Received
  <2> HIDE DEF v, t
  <2>2. /\ Local(t, a) /\ Moves(v, t, a, {}, {r}) /\ t.ctl = v.ctl /\ t.params = v.params
        /\ Known(t, r.path) /\ t.closing = v.closing
    BY <1>1, <2>1, KeepsMoves
  <2>3. Moves(v, t, a, W, E)
    BY <1>3, <2>2 DEF Moves
  <2> QED
    BY <1>1, <2>2, <2>3 DEF v, t
<1>4. CASE RoleConflict(s, a, r) \notin {"refuse", "claim"} /\ ~(CheckList(v) = {} /\ ~v.earlyDone)
  <2>1. t = checkIncoming(v, a, r)
    BY <1>4 DEF Received
  <2>2. v.params
    <3> HIDE DEF v
    <3> QED
      BY <1>1, <1>4 DEF Local, CheckList
  <2> HIDE DEF v, t
  <2>3. Handles(v, t, a, W) /\ InList(t, r.path)
    BY <1>1, <1>4, <2>1, IncomingHandles DEF Local
  <2>4. Local(t, a) /\ Moves(v, t, a, W, {}) /\ t.ctl = v.ctl
    BY <1>1, <2>2, <2>3, HandlesMoves
  <2>5. t.params = v.params /\ t.closing = v.closing
    BY <1>1, <2>3, HandlesShape DEF Local, OtherFields
  <2>6. Moves(v, t, a, W, E)
    BY <2>4 DEF Moves
  <2> QED
    BY <1>1, <2>3, <2>4, <2>5, <2>6 DEF v, t, Known
<1> QED
  BY <1>2, <1>3, <1>4

LEMMA RequestStep ==
    ASSUME BaseInv, NEW a \in Agents, NEW r \in net, requestReceived(a, r)
    PROVE  LET clash == RoleConflict(agent[a], a, r)
           IN  /\ r.from = Peer(a)
               /\ \E t, W, E, X : /\ Step(a, t, W, E, {}, X) /\ t.ctl = Reroled(agent[a], a, r).ctl
                                  /\ clash \in {"refuse", "claim"} => W = {} /\ E = {}
                                  /\ \A x \in X : x.req = r /\ clash # "claim" /\ (x.ok <=> clash # "refuse")
<1> DEFINE s == agent[a]
           t == Received(s, a, r)
           clash == RoleConflict(s, a, r)
           W == IF a \in env.lite /\ clash \notin {"refuse", "claim"} THEN {r.path} ELSE {}
           E == IF clash \notin {"refuse", "claim"} THEN {r} ELSE {}
           ok == clash # "refuse"
           x == [req |-> r, ok |-> ok]
           X == IF clash = "claim" THEN {} ELSE {x}
<1>1. Local(s, a) /\ r \in Requests /\ r \in Around
  BY ActorFacts DEF BaseInv, Typed, Around
<1>2. /\ agent' = [agent EXCEPT ![a] = t] /\ net' = (net \ {r}) \cup Emitted(s, t)
      /\ answers' \subseteq answers \cup X /\ r.from = Peer(a) /\ env' = env
  BY RequestIs
<1>3. /\ Local(t, a) /\ Moves(s, t, a, W, E) /\ t.params = s.params /\ t.ctl = Reroled(s, a, r).ctl
      /\ clash \notin {"refuse", "claim"} => Known(t, r.path)
  <2>1. clash \notin {"refuse", "claim"} => r \in E /\ (a \in env.lite => r.path \in W)
    OBVIOUS
  <2> HIDE DEF s, W, E
  <2> QED
    BY <1>1, <1>2, <2>1, ReceivedMoves
<1> HIDE DEF t
<1>4. \A p \in W : Comparable(a) => Known(agent[Peer(a)], p)
  BY <1>1, <1>2, EarlyKnown
<1>5. net' \subseteq net \union SentOn(t) \union {}
  BY <1>2, EmittedSent
<1>6. \A y \in X : /\ y \in [req : Requests, ok : BOOLEAN] /\ y.req \in net /\ y.req.from = Peer(a)
                   /\ y.ok => Known(t, y.req.path)
  <2>1. ok \in BOOLEAN /\ (clash # "claim" /\ ok => Known(t, r.path))
    BY <1>3
  <2> HIDE DEF ok
  <2> QED
    BY <1>1, <1>2, <2>1
<1>7. EnvironmentKept
  BY <1>2, EnvironmentSame
<1>8. t.params => s.params \/ s.gen <= agent[Peer(a)].gen
  BY <1>3
<1>9. E \subseteq net /\ (clash \in {"refuse", "claim"} => W = {} /\ E = {})
  OBVIOUS
<1>10. \A y \in X : y.req = r /\ clash # "claim" /\ (y.ok <=> clash # "refuse")
  <2>1. ok \in BOOLEAN /\ (ok <=> clash # "refuse")
    OBVIOUS
  <2> HIDE DEF ok, clash
  <2>2. X # {} => clash # "claim"
    OBVIOUS
  <2>3. \A y \in X : y.req = r /\ y.ok = ok
    OBVIOUS
  <2> QED
    BY <2>1, <2>2, <2>3
<1> HIDE DEF W, E, X
<1>11. Step(a, t, W, E, {}, X)
  <2> DEFINE N == {}
  <2>1. \A y \in N : FALSE
    OBVIOUS
  <2>2. net' \subseteq net \union SentOn(t) \union N
    BY <1>5
  <2> HIDE DEF N
  <2>3. Step(a, t, W, E, N, X)
    <3>1. agent' = [agent EXCEPT ![a] = t] /\ Local(t, a) /\ answers' \subseteq answers \union X
      BY <1>2, <1>3
    <3>2. t.params => agent[a].params \/ agent[a].gen <= agent[Peer(a)].gen
      BY <1>8
    <3>3. Moves(agent[a], t, a, W, E)
      BY <1>3
    <3>4. EnvironmentOK' /\ env'.lite = env.lite /\ env'.tcp = env.tcp /\ env'.timely = env.timely
      BY <1>7 DEF EnvironmentKept
    <3> HIDE DEF s
    <3> QED
      BY <1>4, <1>6, <1>9, <2>1, <2>2, <3>1, <3>2, <3>3, <3>4 DEF Step
  <2> QED
    BY <2>3 DEF N
<1> QED
  BY <1>2, <1>3, <1>9, <1>10, <1>11

\* What the sender of a check becomes by its answer.
Heard(s, a, x) ==
    IF x.ok THEN Answered(s, a, x.req)
    ELSE IF x.req.kind = "check"
         THEN checkStart(switchRole(s, a, ~x.req.ctl), a, x.req.path)
         ELSE Failed(s, a, x.req)

LEMMA SwitchIs ==
    ASSUME NEW s, NEW a, NEW ctl \in BOOLEAN, Shape(s), a \notin env.lite
    PROVE  Changed(s, switchRole(s, a, ctl), {"ctl"}) /\ switchRole(s, a, ctl).ctl = ctl
<1>1. switchRole(s, a, ctl) = [s EXCEPT !.ctl = ctl]
  <2>1. (ctl /\ a \notin env.lite) = ctl
    OBVIOUS
  <2> QED
    BY <2>1 DEF switchRole
<1> QED
  BY <1>1 DEF Changed, Shape, IsRecord, Fields, CheckFields, OtherFields

\* A refused check is sent again in the other role.
LEMMA SwitchedMoves ==
    ASSUME NEW s, NEW a \in Agents, Local(s, a), s.params, NEW p \in Paths, InList(s, p),
           a \notin env.lite, NEW ctl \in BOOLEAN, NEW W
    PROVE  LET t == checkStart(switchRole(s, a, ctl), a, p)
           IN  /\ Local(t, a) /\ Moves(s, t, a, W, {}) /\ t.ctl = ctl /\ t.params
               /\ t.closing = s.closing
<1> DEFINE v == switchRole(s, a, ctl)
           t == checkStart(v, a, p)
<1>1. Changed(s, v, {"ctl"}) /\ v.ctl = ctl
  BY SwitchIs DEF Local
<1> HIDE DEF v
<1>2. /\ Local(v, a) /\ v.params = s.params /\ v.closing = s.closing
      /\ \A u, V, E : Moves(v, u, a, V, E) => Moves(s, u, a, V, E)
  BY <1>1, RoleMoves
<1>3. InList(v, p)
  BY <1>1 DEF Changed, Fields, CheckFields, InList
<1>4. Handles(v, t, a, W)
  BY <1>2, <1>3, StartHandles DEF Local
<1> HIDE DEF t
<1>5. Local(t, a) /\ Moves(v, t, a, W, {}) /\ t.ctl = v.ctl
  BY <1>2, <1>4, HandlesMoves
<1>6. t.params = v.params /\ t.closing = v.closing
  BY <1>2, <1>4, HandlesShape DEF Local, OtherFields
<1> QED
  BY <1>1, <1>2, <1>5, <1>6 DEF t, v

LEMMA HeardMoves ==
    ASSUME NEW s, NEW a \in Agents, Local(s, a), NEW x, x.req \in Requests,
           x.ok \in BOOLEAN, s.tx[x.req.path] = x.req, x.req.kind # "consent", NEW W, x.ok => x.req.path \in W
    PROVE  LET t == Heard(s, a, x)
           IN  /\ Local(t, a) /\ Moves(s, t, a, W, {}) /\ t.params /\ s.params /\ a \notin env.lite
               /\ t.closing = s.closing
               /\ t.ctl = IF ~x.ok /\ x.req.kind = "check" THEN ~x.req.ctl ELSE s.ctl
<1> DEFINE r == x.req
           t == Heard(s, a, x)
<1>1. r \in Requests /\ r.path \in Paths /\ r # NoRequest /\ r.ctl \in BOOLEAN
  BY PathFacts DEF Requests
<1>2. a \notin env.lite /\ InList(s, r.path)
  BY <1>1 DEF Local
<1>3. s.params
  BY <1>1, <1>2 DEF Local
<1>4. CASE ~x.ok /\ r.kind = "check"
  <2> DEFINE ctl == ~r.ctl
  <2>1. t = checkStart(switchRole(s, a, ctl), a, r.path) /\ ctl \in BOOLEAN
    BY <1>4 DEF Heard
  <2> HIDE DEF ctl
  <2> DEFINE p == r.path
  <2>2. p \in Paths /\ InList(s, p) /\ t = checkStart(switchRole(s, a, ctl), a, p)
    BY <1>1, <1>2, <2>1
  <2> HIDE DEF t, p, r
  <2>3. /\ Local(t, a) /\ Moves(s, t, a, W, {}) /\ t.ctl = ctl /\ t.params
        /\ t.closing = s.closing
    BY <1>2, <1>3, <2>1, <2>2, SwitchedMoves
  <2>4. t.ctl = ~x.req.ctl
    BY <2>3 DEF ctl, r
  <2> QED
    BY <1>2, <1>3, <1>4, <2>3, <2>4 DEF t, r
<1>5. CASE x.ok \/ r.kind # "check"
  <2>1. Handles(s, t, a, W)
    <3>1. CASE x.ok
      BY <1>1, <1>2, <1>5, <3>1, AnsweredHandles DEF Local, Heard
    <3>2. CASE ~x.ok
      BY <1>1, <1>2, <1>5, <3>2, FailedHandles DEF Local, Heard
    <3> QED
      BY <3>1, <3>2
  <2> HIDE DEF t
  <2>2. Local(t, a) /\ Moves(s, t, a, W, {}) /\ t.ctl = s.ctl
    BY <1>3, <2>1, HandlesMoves
  <2>3. t.params = s.params /\ t.closing = s.closing
    BY <2>1, HandlesShape DEF Local, OtherFields
  <2> QED
    BY <1>2, <1>3, <1>5, <2>2, <2>3 DEF t
<1> QED
  BY <1>4, <1>5

LEMMA ResponseIs ==
    ASSUME NEW a, NEW x, responseReceived(a, x)
    PROVE  LET s == agent[a]
               waits == s.tx[x.req.path] = x.req /\ x.req.path \in s.open
               t == IF waits THEN Heard(s, a, x) ELSE s
           IN  /\ agent' = [agent EXCEPT ![a] = t] /\ net' = net \cup Emitted(s, t)
               /\ answers' = answers \ {x} /\ env' = env
               /\ x.req.from = a /\ x.req.kind # "consent"
BY DEF responseReceived, Becomes, Heard

LEMMA ResponseStep ==
    ASSUME BaseInv, NEW a \in Agents, NEW x \in answers, responseReceived(a, x)
    PROVE  \E t, W : /\ Step(a, t, W, {}, {}, {}) /\ (W # {} => x.ok)
                     /\ \/ t.ctl = agent[a].ctl
                        \/ ~x.ok /\ x.req.from = a /\ t.ctl = ~x.req.ctl /\ a \notin env.lite
<1> DEFINE s == agent[a]
           r == x.req
           waits == s.tx[r.path] = r /\ r.path \in s.open
           t == IF waits THEN Heard(s, a, x) ELSE s
           W == IF waits /\ x.ok THEN {r.path} ELSE {}
<1>1. Local(s, a) /\ x \in [req : Requests, ok : BOOLEAN] /\ r \in Requests /\ x.ok \in BOOLEAN
  BY ActorFacts DEF BaseInv, Typed
<1>2. /\ agent' = [agent EXCEPT ![a] = t] /\ net' = net \cup Emitted(s, t)
      /\ answers' \subseteq answers /\ env' = env /\ r.from = a /\ r.kind # "consent"
  BY ResponseIs
<1>3. /\ Local(t, a) /\ Moves(s, t, a, W, {}) /\ (t.params => s.params)
      /\ t.ctl = s.ctl \/ (~x.ok /\ t.ctl = ~r.ctl /\ a \notin env.lite)
  <2>1. CASE waits
    <3>1. t = Heard(s, a, x) /\ (x.ok => r.path \in W) /\ s.tx[r.path] = r
      BY <2>1
    <3> HIDE DEF s, W, t
    <3> QED
      BY <1>1, <1>2, <3>1, HeardMoves
  <2>2. CASE ~waits
    <3>1. t = s
      BY <2>2
    <3>2. Moves(s, s, a, W, {})
      BY DEF Moves
    <3> QED
      BY <1>1, <3>1, <3>2
  <2> QED
    BY <2>1, <2>2
<1>4. \A p \in W : Comparable(a) => Known(agent[Peer(a)], p)
  <2> SUFFICES ASSUME NEW p \in W, Comparable(a) PROVE Known(agent[Peer(a)], p)
    OBVIOUS
  <2>1. waits /\ x.ok /\ p = r.path
    OBVIOUS
  <2>2. r.gen = s.gen
    <3>1. r.path \in Paths /\ r # NoRequest /\ s.tx[r.path] = r
      BY <1>1, <2>1, PathFacts DEF Requests
    <3> HIDE DEF s
    <3> QED
      BY <1>1, <3>1 DEF Local
  <2>3. agent[Peer(a)].gen = s.gen
    <3>1. a = "A" \/ a = "B"
      BY DEF Agents
    <3> QED
      BY <3>1 DEF Comparable, SameGeneration, Peer
  <2> QED
    BY <1>2, <2>1, <2>2, <2>3 DEF BaseInv, AnswersKnown
<1>5. net' \subseteq net \union SentOn(t) \union {}
  BY <1>2, EmittedSent
<1>6. EnvironmentKept
  BY <1>2, EnvironmentSame
<1>7. W # {} => x.ok
  OBVIOUS
<1> HIDE DEF t, W
<1>8. Step(a, t, W, {}, {}, {})
  BY <1>2, <1>3, <1>4, <1>5, <1>6, MovesStep
<1> QED
  BY <1>2, <1>3, <1>7, <1>8


-----------------------------------------------------------------------------
(* The invariant of the two agents is inductive.                             *)

LEMMA FreshFacts ==
    ASSUME NEW c \in BOOLEAN
    PROVE  LET f == FreshAgent(c)
           IN  /\ Shape(f) /\ f.gen = 0 /\ f.ctl = c /\ f.params /\ f.lend = TRUE /\ f.phase = "idle"
               /\ f.pair = [p \in Paths |-> NewPair] /\ f.tx = [p \in Paths |-> NoRequest]
               /\ f.con = NoRequest /\ f.sel = None /\ ~f.nominating /\ ~f.done /\ f.queue = <<>>
               /\ f.early = <<>> /\ ~f.fresh /\ ~f.timer /\ ~f.closing /\ f.old = "none"
<1> DEFINE f == FreshAgent(c)
<1>1. IsRecord(f)
  BY FreshRecord
<1>2. /\ f.gen = 0 /\ f.ctl = c /\ f.params = TRUE /\ f.cands = {} /\ f.rend = FALSE /\ f.lend = TRUE
      /\ f.phase = "idle" /\ f.state = "completed"
      /\ f.pair = [p \in Paths |-> NewPair] /\ f.tx = [p \in Paths |-> NoRequest]
      /\ f.con = NoRequest /\ f.sel = None /\ f.nominating = FALSE /\ f.done = FALSE
      /\ f.queue = <<>> /\ f.early = <<>> /\ f.earlyDone = FALSE /\ f.fresh = FALSE
      /\ f.timer = FALSE /\ f.open = Paths /\ f.sent = 0 /\ f.old = "none" /\ f.closing = FALSE
  BY DEF FreshAgent
<1> HIDE DEF f
<1>3. CheckTypes(f)
  <2>1. NewPair \in Pair
    BY DEF NewPair, Pair, PairStates
  <2>2. <<>> \in Seq(Results) /\ f.sent \in Nat
    BY <1>2
  <2>3. f.pair \in [Paths -> Pair] /\ f.tx \in [Paths -> MaybeRequest] /\ f.con \in MaybeRequest
    BY <1>2, <2>1 DEF MaybeRequest
  <2>4. f.cands \subseteq Paths /\ f.sel \in Paths \union {None}
    BY <1>2
  <2> QED
    BY <1>2, <2>2, <2>3, <2>4 DEF CheckTypes
<1>4. OtherTypes(f)
  <2>1. <<>> \in Seq(Requests) /\ f.gen \in Nat /\ "completed" \in States /\ "idle" \in Phases
    BY <1>2 DEF States, Phases
  <2> QED
    BY <1>2, <2>1 DEF OtherTypes
<1> QED
  BY <1>1, <1>2, <1>3, <1>4 DEF Shape, f

\* The agent that scenario c starts with.
FirstAgent(c, a) ==
    LET s == FreshAgent(a \in c.controlling)
        t == IF c.trickle THEN s ELSE WithCandidates(s, c.paths)
    IN  IF c.begun
        THEN [t EXCEPT !.phase = IF a \in c.lite THEN "waiting" ELSE "scheduling",
                       !.earlyDone = TRUE]
        ELSE t

LEMMA FirstFacts ==
    ASSUME NEW c, NEW a \in Agents, c.paths \in SUBSET Paths, env.lite = c.lite
    PROVE  LET t == FirstAgent(c, a)
           IN  /\ Local(t, a) /\ t.gen = 0 /\ t.ctl = (a \in c.controlling) /\ t.params
               /\ t.sel = None /\ EarlyOf(t) = {} /\ t.early = <<>> /\ ~t.nominating
               /\ \A p \in Paths : /\ t.pair[p].st \in {"none", "WAITING"} /\ ~t.pair[p].nom
                                    /\ ~t.pair[p].rnom /\ t.tx[p] = NoRequest
<1> DEFINE ctl == a \in c.controlling
           s == FreshAgent(ctl)
           u == IF c.trickle THEN s ELSE WithCandidates(s, c.paths)
           phase == IF a \in c.lite THEN "waiting" ELSE "scheduling"
           t == FirstAgent(c, a)
<1>1. ctl \in BOOLEAN
  OBVIOUS
<1> HIDE DEF ctl
<1>2. /\ Shape(s) /\ s.gen = 0 /\ s.ctl = ctl /\ s.params /\ s.lend = TRUE /\ s.phase = "idle"
      /\ s.pair = [p \in Paths |-> NewPair] /\ s.tx = [p \in Paths |-> NoRequest]
      /\ s.con = NoRequest /\ s.sel = None /\ ~s.nominating /\ ~s.done /\ s.queue = <<>>
      /\ s.early = <<>> /\ ~s.fresh /\ ~s.timer /\ ~s.closing /\ s.old = "none"
  BY <1>1, FreshFacts
<1>3. t = IF c.begun THEN [u EXCEPT !.phase = phase, !.earlyDone = TRUE] ELSE u
  BY DEF FirstAgent, ctl
<1> HIDE DEF s
<1>4. [s EXCEPT !.lend = TRUE] = s
  BY <1>2 DEF Shape, IsRecord, Fields, CheckFields, OtherFields
<1>5. Described(s, u) /\ \A p \in Paths : ~u.pair[p].nom /\ ~u.pair[p].rnom
  <2>1. /\ Described(s, s) /\ Described(s, WithCandidates([s EXCEPT !.lend = TRUE], c.paths))
    BY <1>2, Describes
  <2>2. CASE c.trickle
    BY <1>2, <2>1, <2>2 DEF NewPair
  <2>3. CASE ~c.trickle
    <3>1. u = WithCandidates(s, c.paths) /\ Described(s, u)
      BY <1>4, <2>1, <2>3
    <3>2. u.pair = [p \in Paths |->
             IF p \in c.paths THEN [NewPair EXCEPT !.st = "WAITING"] ELSE s.pair[p]]
      BY <1>2, <3>1 DEF WithCandidates, Shape, IsRecord, Fields, CheckFields, OtherFields
    <3>3. LET w == [NewPair EXCEPT !.st = "WAITING"]
          IN  ~w.nom /\ ~w.rnom /\ ~NewPair.nom /\ ~NewPair.rnom
      BY DEF NewPair
    <3> HIDE DEF u
    <3> QED
      BY <1>2, <3>1, <3>2, <3>3
  <2> QED
    BY <2>2, <2>3
<1> HIDE DEF u
<1>6. /\ Shape(u) /\ Listed(u) /\ u.gen = 0 /\ u.ctl = ctl /\ u.params /\ u.phase = "idle"
      /\ u.tx = [p \in Paths |-> NoRequest] /\ u.con = NoRequest /\ u.sel = None /\ ~u.nominating
      /\ ~u.done /\ u.early = <<>> /\ ~u.fresh /\ ~u.timer /\ u.old = "none"
      /\ \A p \in Paths : u.pair[p].st \in {"none", "WAITING"}
  BY <1>2, <1>5 DEF Described, Changed, Fields, CheckFields, OtherFields
<1> DEFINE v == [u EXCEPT !.phase = phase, !.earlyDone = TRUE]
<1>7. Changed(u, t, {"phase", "earlyDone"}) /\ t.phase \in {"idle", phase} /\ t.earlyDone \in BOOLEAN
  <2>1. CASE c.begun
    <3>1. t = v
      BY <1>3, <2>1
    <3>2. v.earlyDone = TRUE /\ v.phase = phase /\ Changed(u, v, {"phase", "earlyDone"})
      BY <1>6 DEF Changed, Shape, IsRecord, Fields, CheckFields, OtherFields
    <3> QED
      BY <3>1, <3>2
  <2>2. CASE ~c.begun
    <3>1. t = u
      BY <1>3, <2>2
    <3>2. u.earlyDone \in BOOLEAN /\ Changed(u, u, {"phase", "earlyDone"})
      BY <1>6 DEF Changed, Shape, OtherTypes
    <3> QED
      BY <1>6, <3>1, <3>2
  <2> QED
    BY <2>1, <2>2
<1> HIDE DEF t
<1>8. /\ t.gen = 0 /\ t.ctl = ctl /\ t.params /\ t.tx = u.tx /\ t.con = NoRequest /\ t.sel = None
      /\ ~t.nominating /\ ~t.done /\ t.early = <<>> /\ ~t.fresh /\ ~t.timer /\ t.old = "none"
      /\ t.pair = u.pair
  BY <1>6, <1>7 DEF Changed, Fields, CheckFields, OtherFields
<1>9. Shape(t)
  <2>1. Changed(u, t, OtherFields)
    BY <1>7 DEF Changed, OtherFields
  <2>2. t.phase \in Phases
    BY <1>7 DEF Phases
  <2>3. OtherTypes(t)
    BY <1>6, <1>7, <2>2 DEF Changed, Fields, OtherFields, CheckFields, OtherTypes, Shape
  <2> QED
    BY <1>6, <2>1, <2>3, ShapeOther
<1>10. Listed(t) /\ EarlyOf(t) = {} /\ Consent(t)
  BY <1>6, <1>8 DEF Listed, InList, EarlyOf, Consent
<1>11. a \in env.lite => t.phase # "scheduling"
  BY <1>7
<1>12. Local(t, a)
  BY <1>6, <1>8, <1>9, <1>10, <1>11 DEF Local
<1> QED
  BY <1>5, <1>6, <1>8, <1>10, <1>12 DEF t, ctl

LEMMA InitBase == Init => BaseInv
<1> SUFFICES ASSUME Init PROVE BaseInv
  OBVIOUS
<1>1. PICK c \in Scenarios :
        /\ env = [lite |-> c.lite, tcp |-> c.tcp, timeouts |-> c.timeouts,
              losses |-> c.losses, restarters |-> c.restarters,
              closers |-> c.closers, consents |-> c.consents,
              trickle |-> c.trickle, used |-> c.paths, timely |-> c.timeouts = 0]
        /\ agent = [a \in Agents |-> FirstAgent(c, a)] /\ net = {} /\ answers = {}
  BY DEF Init, FirstAgent
<1>2. /\ c.lite \in SUBSET Agents /\ c.tcp \in BOOLEAN /\ c.timeouts \in Nat /\ c.losses \in Nat
      /\ c.restarters \in SUBSET Agents /\ c.closers \in SUBSET Agents /\ c.consents \in Nat
      /\ c.trickle \in BOOLEAN /\ c.paths \in SUBSET Paths
  BY IceAssumption
<1>3. EnvironmentOK /\ env.lite = c.lite
  <2> DEFINE timely == c.timeouts = 0
  <2>1. timely \in BOOLEAN /\ (timely => c.timeouts = 0)
    OBVIOUS
  <2> HIDE DEF timely
  <2>2. env = [lite |-> c.lite, tcp |-> c.tcp, timeouts |-> c.timeouts,
              losses |-> c.losses, restarters |-> c.restarters,
              closers |-> c.closers, consents |-> c.consents,
              trickle |-> c.trickle, used |-> c.paths, timely |-> timely]
    BY <1>1 DEF timely
  <2> QED
    BY <1>2, <2>1, <2>2 DEF EnvironmentOK, Environment
<1>4. ASSUME NEW a \in Agents
      PROVE  /\ Local(agent[a], a) /\ Shape(agent[a]) /\ agent[a].gen = 0 /\ agent[a].sel = None
             /\ EarlyOf(agent[a]) = {} /\ \A p \in Paths : agent[a].pair[p].st \in {"none", "WAITING"}
  <2> DEFINE t == FirstAgent(c, a)
  <2>1. agent[a] = t
    BY <1>1
  <2>2. /\ Local(t, a) /\ t.gen = 0 /\ t.sel = None /\ EarlyOf(t) = {}
        /\ \A p \in Paths : t.pair[p].st \in {"none", "WAITING"}
    BY <1>2, <1>3, FirstFacts
  <2> HIDE DEF t
  <2> QED
    BY <2>1, <2>2 DEF Local
<1>5. Typed
  <2>1. agent \in [Agents -> AgentRecord]
    <3>1. \A a \in Agents : agent[a] \in AgentRecord
      BY <1>4, ShapeIsType
    <3>2. agent = [a \in Agents |-> agent[a]]
      BY <1>1
    <3> QED
      BY <3>1, <3>2
  <2> QED
    BY <1>1, <1>3, <2>1 DEF Typed
<1>6. Around = {}
  BY <1>1, <1>4 DEF Around, Agents
<1>7. Follows
  BY <1>4, PeerFacts DEF Follows
<1>8. RequestsOK /\ AnswersKnown
  BY <1>1, <1>6 DEF RequestsOK, AnswersKnown
<1>9. SuccessKnown
  BY <1>4, PathFacts DEF SuccessKnown
<1> QED
  BY <1>4, <1>5, <1>7, <1>8, <1>9 DEF BaseInv

LEMMA NextBase == BaseInv /\ [Next]_vars => BaseInv'
<1> SUFFICES ASSUME BaseInv, [Next]_vars PROVE BaseInv'
  OBVIOUS
<1> DEFINE Keeping == \E a \in Agents : \E t : \/ Restarts(a, t)
                                             \/ \E W, E, N, X : Step(a, t, W, E, N, X)
<1>1. Keeping => BaseInv'
  BY StepKeeps, RestartKeeps
<1>2. ASSUME NEW a \in Agents, NEW t, NEW N, Quiet(a, t, N) PROVE Keeping
  BY <1>2 DEF Quiet
<1>3. ASSUME NEW a \in Agents, Progress(a) PROVE Keeping
  <2>1. CASE endOfCandidates(a)
    BY <1>2, <2>1, EndStep
  <2>2. CASE gatherCandidates(a)
    BY <1>2, <2>2, GatherStep
  <2>3. CASE setRemoteParams(a)
    BY <1>2, <2>3, ParamsStep
  <2>4. CASE connect(a)
    BY <2>4, ConnectStep
  <2>5. CASE schedulingChecks(a)
    BY <1>2, <2>5, SchedulingStep
  <2>6. CASE scheduled(a)
    BY <1>2, <2>6, ScheduledStep
  <2>7. CASE connectResumes(a)
    BY <1>2, <2>7, ResumesStep
  <2>8. CASE liteResumes(a)
    BY <1>2, <2>8, LiteStep
  <2>9. CASE closeSocket(a)
    BY <1>2, <2>9, CloseSocketStep
  <2>10. CASE \E p \in Paths : addRemoteCandidate(a, p) \/ retransmit(a, p)
    BY <1>2, <2>10, AddStep, RetransmitStep
  <2>11. CASE \E r \in net : requestReceived(a, r)
    BY <2>11, RequestStep
  <2>12. CASE \E x \in answers : responseReceived(a, x) \/ consentAnswered(a, x)
    BY <1>2, <2>12, ResponseStep, ConsentAnswerStep
  <2> QED
    BY <1>3, <2>1, <2>2, <2>3, <2>4, <2>5, <2>6, <2>7, <2>8, <2>9, <2>10, <2>11, <2>12
       DEF Progress
<1>4. ASSUME Fault PROVE Keeping
  <2>1. ASSUME NEW a \in Agents, restart(a) PROVE Keeping
    BY <2>1, RestartStep
  <2>2. ASSUME NEW a \in Agents, close(a) PROVE Keeping
    BY <1>2, <2>2, CloseStep
  <2>3. ASSUME NEW a \in Agents, consentRequest(a) PROVE Keeping
    BY <1>2, <2>3, ConsentRequestStep
  <2>4. ASSUME NEW a \in Agents, consentExpires(a) PROVE Keeping
    BY <1>2, <2>4, ExpiresStep
  <2>5. ASSUME NEW a \in Agents, NEW p \in Paths, timeout(a, p) PROVE Keeping
    BY <1>2, <2>5, TimeoutStep
  <2>6. ASSUME NEW r \in net, lose(r) PROVE Keeping
    BY <1>2, <2>6, LoseStep
  <2> QED
    BY <1>4, <2>1, <2>2, <2>3, <2>4, <2>5, <2>6 DEF Fault
<1>5. CASE UNCHANGED vars
  <2>1. Agents # {} /\ "A" \in Agents
    BY DEF Agents
  <2>2. agent' = agent /\ net' = net /\ answers' = answers /\ EnvironmentKept
    BY <1>5, EnvironmentSame DEF vars
  <2> QED
    BY <1>1, <1>2, <2>1, <2>2, NetworkStep
<1> QED
  BY <1>1, <1>3, <1>4, <1>5 DEF Next


\* The two agents, what is under way between them, and what they know of each other.
THEOREM IceInvariant == Spec => []BaseInv
<1>1. Init => BaseInv
  BY InitBase
<1>2. BaseInv /\ [Next]_vars => BaseInv'
  BY NextBase
<1> QED
  BY <1>1, <1>2, PTL DEF Spec

LEMMA BaseTypes == BaseInv => TypeOK
BY DEF BaseInv, Typed, TypeOK, AgentRecord

LEMMA BaseKnown == BaseInv => SelectedKnownToPeer
<1> SUFFICES ASSUME BaseInv, NEW a \in Agents, agent[a].sel # None, SameGeneration,
                    a \in env.lite => agent[a].gen = 0
             PROVE  LET p == agent[a].sel
                        t == agent[Peer(a)]
                    IN  InList(t, p) \/ \E r \in Range(t.early) : r.path = p
  BY DEF SelectedKnownToPeer
<1> DEFINE p == agent[a].sel
           t == agent[Peer(a)]
<1>1. p \in Paths
  BY ActorFacts DEF Shape, CheckTypes
<1>2. Known(t, p)
  BY <1>1 DEF BaseInv, SuccessKnown, Comparable
<1>3. Shape(t)
  <2>1. Peer(a) \in Agents
    BY PeerFacts
  <2> QED
    BY <2>1, ActorFacts
<1>4. EarlyOf(t) = Range(t.early)
  <2>1. t.early \in Seq(Requests)
    BY <1>3 DEF Shape, OtherTypes
  <2>2. DOMAIN t.early = 1..Len(t.early)
    BY <2>1
  <2> QED
    BY <2>2 DEF EarlyOf, Range
<1> QED
  BY <1>2, <1>4 DEF Known

LEMMA BaseConsent == BaseInv => DataNeedsConsent
<1> SUFFICES ASSUME BaseInv, NEW a \in Agents \ env.lite, CanSendApplicationData(agent[a], a)
             PROVE  agent[a].timer \/ (agent[a].state # "connected" /\ COMPLETED \in Range(agent[a].queue))
  BY DEF DataNeedsConsent
<1>1. Consent(agent[a])
  BY DEF BaseInv, Local
<1> QED
  BY <1>1 DEF Consent, CanSendApplicationData

\* Consent never lasts by itself: who may send application data has the 30 s
\* expiry timer running, or connect() is about to start it (ice.ts 1653-1666,
\* 1686-1745, 2116-2134).
THEOREM DataNeedsAConsent == Spec => []DataNeedsConsent
BY IceInvariant, BaseConsent, PTL

\* A pair is selected only when the peer, in the same generation, has been
\* checked on it, whatever is lost, delayed or restarted (ice.ts 329, 2089).
THEOREM SelectionIsKnown == Spec => [](TypeOK /\ SelectedKnownToPeer)
BY IceInvariant, BaseTypes, BaseKnown, PTL

-----------------------------------------------------------------------------
(* Who controls, in the first generation.                                    *)

First == agent["A"].gen = 0 /\ agent["B"].gen = 0
FromOf(a) == {r \in Around \union SentOn(agent["A"]) \union SentOn(agent["B"]) : r.from = a}
RefusedOf(a) == {x.req : x \in {y \in answers : ~y.ok /\ y.req.from = a}}
Blank(s) == EarlyOf(s) = {} /\ s.sel = None /\ \A p \in Paths : s.pair[p].st # "SUCCEEDED"

\* A controls, as its larger tie breaker asks for.
AControls ==
    /\ \A r \in RefusedOf("A") : ~r.ctl
    /\ \A r \in RefusedOf("B") : r.ctl

BControls ==
    /\ \A r \in FromOf("A") : ~r.ctl
    /\ \A r \in FromOf("B") : r.ctl \/ "A" \in env.lite
    /\ RefusedOf("A") = {}
    /\ \A r \in RefusedOf("B") : ~r.ctl

\* Until a conflict is repaired no check succeeds, and one agent is never refused.
BothAlike(ctl) ==
    /\ \A r \in FromOf("A") \union FromOf("B") : r.ctl = ctl
    /\ \A x \in answers : ~x.ok
    /\ Blank(agent["A"]) /\ Blank(agent["B"])
    /\ ctl => RefusedOf("A") = {}
    /\ ~ctl => IF "A" \in env.lite THEN RefusedOf("A") = {} ELSE RefusedOf("B") = {}

RolesInv ==
    First =>
      /\ agent["A"].ctl /\ ~agent["B"].ctl => AControls
      /\ ~agent["A"].ctl /\ agent["B"].ctl => BControls
      /\ agent["A"].ctl = agent["B"].ctl => BothAlike(agent["A"].ctl)

LEMMA FromAfter ==
    ASSUME BaseInv, NEW a \in Agents, NEW t, NEW W, NEW E, NEW N, NEW X,
           Step(a, t, W, E, N, X), NEW b, NEW r \in FromOf(b)'
    PROVE  r \in FromOf(b) \/ (b = a /\ r.ctl = t.ctl)
<1> DEFINE s == agent[a]
<1>1. /\ agent'[a] = t /\ agent'[Peer(a)] = agent[Peer(a)]
      /\ \A c \in Agents : c = a \/ c = Peer(a)
  BY NewAgent, PeerFacts DEF BaseInv, Step, Local
<1>2. \A c \in Agents : SentOn(agent[c]) \subseteq SentOn(agent["A"]) \union SentOn(agent["B"])
  BY DEF Agents
<1>3. r.from = b
  BY DEF FromOf
<1>4. \A q \in Around : q.from = b => q \in FromOf(b)
  BY DEF FromOf
<1>5. \A c \in Agents : \A q \in SentOn(agent[c]) : q.from = b => q \in FromOf(b)
  BY <1>2 DEF FromOf
<1>6. ASSUME r \in SentOn(t) PROVE r \in FromOf(b) \/ (b = a /\ r.ctl = t.ctl)
  <2>1. PICK p \in Paths : r = t.tx[p] /\ r # NoRequest
    BY <1>6 DEF SentOn
  <2>2. r = s.tx[p] \/ NewRequest(r, t, a, p)
    BY <2>1 DEF Step, Moves
  <2>3. CASE r = s.tx[p]
    BY <1>3, <1>5, <2>1, <2>3 DEF SentOn
  <2>4. CASE NewRequest(r, t, a, p)
    BY <1>3, <2>4 DEF NewRequest
  <2> QED
    BY <2>2, <2>3, <2>4
<1>7. CASE r \in Around'
  <2>1. r \in Around \/ r \in SentOn(t) \/ r \in N
    BY <1>7, AroundAfter
  <2>2. r \in N => b = a /\ r.ctl = t.ctl
    BY <1>3 DEF Step
  <2> QED
    BY <1>3, <1>4, <1>6, <2>1, <2>2
<1>8. CASE r \in SentOn(agent'["A"]) \/ r \in SentOn(agent'["B"])
  <2>1. PICK c \in Agents : r \in SentOn(agent'[c])
    BY <1>8 DEF Agents
  <2> QED
    BY <1>1, <1>3, <1>5, <1>6, <2>1
<1> QED
  BY <1>7, <1>8 DEF FromOf, SentOn

LEMMA RefusedAfter ==
    ASSUME BaseInv, NEW a \in Agents, NEW t, NEW W, NEW E, NEW N, NEW X,
           Step(a, t, W, E, N, X), NEW b, NEW r \in RefusedOf(b)'
    PROVE  r \in RefusedOf(b) \/ (b = Peer(a) /\ \E x \in X : x.req = r /\ ~x.ok)
<1>1. PICK x \in answers' : ~x.ok /\ x.req.from = b /\ x.req = r
  BY DEF RefusedOf
<1>2. CASE x \in answers
  BY <1>1, <1>2 DEF RefusedOf
<1>3. CASE x \in X
  BY <1>1, <1>3 DEF Step
<1> QED
  BY <1>2, <1>3 DEF Step

LEMMA FirstBefore ==
    ASSUME BaseInv, NEW a \in Agents, NEW t, NEW W, NEW E, NEW N, NEW X,
           Step(a, t, W, E, N, X), First'
    PROVE  First
<1>1. /\ agent'[a] = t /\ agent'[Peer(a)] = agent[Peer(a)] /\ t.gen = agent[a].gen
      /\ \A c \in Agents : c = a \/ c = Peer(a)
  BY NewAgent, PeerFacts DEF BaseInv, Step, Local, Moves
<1>2. \A c \in Agents : agent'[c].gen = agent[c].gen
  BY <1>1
<1> QED
  BY <1>2 DEF First, Agents

LEMMA BlankKept ==
    ASSUME BaseInv, NEW a \in Agents, NEW t, NEW N, NEW X, Step(a, t, {}, {}, N, X),
           Blank(agent["A"]), Blank(agent["B"])
    PROVE  Blank(agent'["A"]) /\ Blank(agent'["B"])
<1>1. /\ agent'[a] = t /\ agent'[Peer(a)] = agent[Peer(a)] /\ Shape(t)
      /\ \A c \in Agents : c = a \/ c = Peer(a)
  BY NewAgent, PeerFacts DEF BaseInv, Step, Local
<1>2. \A c \in Agents : Blank(agent[c])
  BY DEF Agents
<1>3. Blank(t)
  <2>1. Moves(agent[a], t, a, {}, {}) /\ Blank(agent[a])
    BY <1>2 DEF Step
  <2>2. EarlyOf(t) = {} /\ \A p \in Paths : t.pair[p].st # "SUCCEEDED"
    BY <2>1 DEF Moves, Blank
  <2>3. \A p \in Paths : t.sel # p
    BY <2>1, PathFacts DEF Moves, Blank
  <2>4. t.sel = None
    BY <1>1, <2>3 DEF Shape, CheckTypes
  <2> QED
    BY <2>2, <2>4 DEF Blank
<1>4. \A c \in Agents : Blank(agent'[c])
  BY <1>1, <1>2, <1>3
<1> QED
  BY <1>4 DEF Agents

\* A step of an agent that keeps its role.
LEMMA RoleKept ==
    ASSUME BaseInv, RolesInv, NEW a \in Agents, NEW t, NEW W, NEW E, NEW N, NEW X,
           Step(a, t, W, E, N, X), t.ctl = agent[a].ctl,
           First /\ agent["A"].ctl = agent["B"].ctl =>
               W = {} /\ E = {} /\ \A x \in X : ~x.ok,
           \A x \in X : ~x.ok => /\ x.req.ctl = agent[a].ctl
                               /\ \/ a = "A" /\ (agent[a].ctl \/ a \in env.lite)
                                  \/ a = "B" /\ ~agent[a].ctl
    PROVE  RolesInv'
<1> SUFFICES ASSUME First' PROVE RolesInv'
  BY DEF RolesInv
<1> DEFINE ca == agent["A"].ctl
           cb == agent["B"].ctl
<1>1. First
  BY FirstBefore
<1>2. \A c \in Agents : agent'[c].ctl = agent[c].ctl
  <2>1. /\ agent'[a] = t /\ agent'[Peer(a)] = agent[Peer(a)]
        /\ \A c \in Agents : c = a \/ c = Peer(a)
    BY NewAgent, PeerFacts DEF BaseInv, Step, Local
  <2> QED
    BY <2>1
<1>3. agent'["A"].ctl = ca /\ agent'["B"].ctl = cb /\ ca \in BOOLEAN /\ cb \in BOOLEAN
  <2>1. "A" \in Agents /\ "B" \in Agents
    BY DEF Agents
  <2>2. Shape(agent["A"]) /\ Shape(agent["B"])
    BY <2>1, ActorFacts
  <2> QED
    BY <1>2, <2>1, <2>2 DEF Shape, OtherTypes
<1>4. env'.lite = env.lite
  BY DEF Step
<1>5. \A b : \A r \in FromOf(b)' : r \in FromOf(b) \/ (b = a /\ r.ctl = agent[a].ctl)
  BY FromAfter
<1>6. \A b : \A r \in RefusedOf(b)' :
          r \in RefusedOf(b) \/ (b = Peer(a) /\ \E x \in X : x.req = r /\ ~x.ok)
  BY RefusedAfter
<1>7. (a = "A" /\ Peer(a) = "B") \/ (a = "B" /\ Peer(a) = "A")
  BY DEF Agents, Peer
<1>8. \A r \in RefusedOf("B")' :
          r \in RefusedOf("B") \/ (a = "A" /\ r.ctl = ca /\ (ca \/ "A" \in env.lite))
  BY <1>6, <1>7
<1>9. \A r \in RefusedOf("A")' : r \in RefusedOf("A") \/ (a = "B" /\ ~cb /\ ~r.ctl /\ "A" \notin env.lite)
  <2> SUFFICES ASSUME NEW r \in RefusedOf("A")', r \notin RefusedOf("A")
               PROVE  a = "B" /\ ~cb /\ ~r.ctl /\ "A" \notin env.lite
    OBVIOUS
  <2>1. PICK x \in X : x.req = r /\ ~x.ok /\ Peer(a) = "A" /\ a = "B"
    BY <1>6, <1>7
  <2>2. r.ctl = cb /\ ~cb
    BY <2>1
  <2>3. r \in net /\ r.from = "A"
    BY <2>1 DEF Step
  <2>4. "A" \notin env.lite
    BY <2>3 DEF BaseInv, RequestsOK, RequestOK, Around
  <2> QED
    BY <2>1, <2>2, <2>4
<1>10. ca /\ ~cb => AControls'
  <2> SUFFICES ASSUME ca, ~cb PROVE AControls'
    OBVIOUS
  <2>1. AControls
    BY <1>1 DEF RolesInv
  <2>2. \A r \in RefusedOf("A")' : ~r.ctl
    BY <1>9, <2>1 DEF AControls
  <2>3. \A r \in RefusedOf("B")' : r.ctl
    BY <1>8, <2>1 DEF AControls
  <2> QED
    BY <2>2, <2>3 DEF AControls
<1>11. ~ca /\ cb => BControls'
  <2> SUFFICES ASSUME ~ca, cb PROVE BControls'
    OBVIOUS
  <2>1. BControls
    BY <1>1 DEF RolesInv
  <2>2. \A r \in FromOf("A")' : ~r.ctl
    BY <1>5, <2>1 DEF BControls
  <2>3. \A r \in FromOf("B")' : r.ctl \/ "A" \in env.lite
    BY <1>5, <2>1 DEF BControls
  <2>4. RefusedOf("A")' = {}
    BY <1>9, <2>1 DEF BControls
  <2>5. \A r \in RefusedOf("B")' : ~r.ctl
    BY <1>8, <2>1 DEF BControls
  <2> QED
    BY <1>4, <2>2, <2>3, <2>4, <2>5 DEF BControls
<1>12. ca = cb => BothAlike(ca)'
  <2> SUFFICES ASSUME ca = cb PROVE BothAlike(ca)'
    OBVIOUS
  <2>1. BothAlike(ca) /\ W = {} /\ E = {} /\ \A x \in X : ~x.ok
    BY <1>1 DEF RolesInv
  <2>2. Blank(agent'["A"]) /\ Blank(agent'["B"])
    BY <2>1, BlankKept DEF BothAlike
  <2>3. \A x \in answers' : ~x.ok
    BY <2>1 DEF BothAlike, Step
  <2>4. \A r \in FromOf("A")' \union FromOf("B")' : r.ctl = ca
    BY <1>5, <1>7, <2>1 DEF BothAlike
  <2>5. ca => RefusedOf("A")' = {}
    BY <1>9, <2>1 DEF BothAlike
  <2>6. ~ca => IF "A" \in env.lite THEN RefusedOf("A")' = {} ELSE RefusedOf("B")' = {}
    BY <1>8, <1>9, <2>1 DEF BothAlike
  <2> QED
    BY <1>3, <1>4, <2>2, <2>3, <2>4, <2>5, <2>6 DEF BothAlike, Blank, EarlyOf
<1> QED
  BY <1>3, <1>10, <1>11, <1>12 DEF RolesInv

\* A step that repairs a role conflict.
LEMMA RoleRepaired ==
    ASSUME BaseInv, RolesInv, NEW a \in Agents, NEW t, NEW W, NEW E, NEW N, NEW X,
           Step(a, t, W, E, N, X), agent["A"].ctl = agent["B"].ctl, t.ctl = ~agent[a].ctl,
           a = "A" => ~agent[a].ctl /\ a \notin env.lite,
           a = "B" /\ ~agent[a].ctl => "A" \in env.lite,
           \A x \in X : x.ok
    PROVE  RolesInv'
<1> SUFFICES ASSUME First' PROVE RolesInv'
  BY DEF RolesInv
<1> DEFINE ca == agent["A"].ctl
<1>1. First
  BY FirstBefore
<1>2. BothAlike(ca)
  BY <1>1 DEF RolesInv
<1>3. /\ agent'[a] = t /\ agent'[Peer(a)] = agent[Peer(a)]
      /\ \A c \in Agents : c = a \/ c = Peer(a)
  BY NewAgent, PeerFacts DEF BaseInv, Step, Local
<1>4. ca \in BOOLEAN
  <2>1. "A" \in Agents
    BY DEF Agents
  <2>2. Shape(agent["A"])
    BY <2>1, ActorFacts
  <2> QED
    BY <2>2 DEF Shape, OtherTypes
<1>5. \A b : \A r \in RefusedOf(b)' : r \in RefusedOf(b)
  BY RefusedAfter
<1>6. \A b : \A r \in FromOf(b)' : r \in FromOf(b) \/ (b = a /\ r.ctl = t.ctl)
  BY FromAfter
<1>7. env'.lite = env.lite
  BY DEF Step
<1>8. \A b \in {"A", "B"} : \A r \in RefusedOf(b) : r.ctl = ca
  <2> SUFFICES ASSUME NEW b \in {"A", "B"}, NEW r \in RefusedOf(b) PROVE r.ctl = ca
    OBVIOUS
  <2>1. r \in FromOf(b)
    BY DEF RefusedOf, FromOf, Around
  <2> QED
    BY <1>2, <2>1 DEF BothAlike
<1>9. CASE a = "A"
  <2>1. agent'["A"].ctl /\ ~agent'["B"].ctl /\ ~ca
    BY <1>3, <1>4, <1>9 DEF Peer
  <2>2. RefusedOf("B")' = {}
    BY <1>2, <1>5, <1>9, <2>1 DEF BothAlike
  <2>3. \A r \in RefusedOf("A")' : ~r.ctl
    BY <1>5, <1>8, <2>1
  <2> QED
    BY <2>1, <2>2, <2>3 DEF RolesInv, AControls
<1>10. CASE a = "B" /\ ca
  <2>1. agent'["A"].ctl /\ ~agent'["B"].ctl
    BY <1>3, <1>4, <1>10 DEF Peer
  <2>2. RefusedOf("A")' = {}
    BY <1>2, <1>5, <1>10 DEF BothAlike
  <2>3. \A r \in RefusedOf("B")' : r.ctl
    BY <1>5, <1>8, <1>10
  <2> QED
    BY <2>1, <2>2, <2>3 DEF RolesInv, AControls
<1>11. CASE a = "B" /\ ~ca
  <2>1. ~agent'["A"].ctl /\ agent'["B"].ctl /\ "A" \in env.lite
    BY <1>3, <1>4, <1>11 DEF Peer
  <2>2. RefusedOf("A")' = {}
    BY <1>2, <1>5, <1>11, <2>1 DEF BothAlike
  <2>3. \A r \in RefusedOf("B")' : ~r.ctl
    BY <1>5, <1>8, <1>11
  <2>4. \A r \in FromOf("A")' : ~r.ctl
    BY <1>2, <1>6, <1>11 DEF BothAlike
  <2> QED
    BY <1>7, <2>1, <2>2, <2>3, <2>4 DEF RolesInv, BControls
<1> QED
  BY <1>9, <1>10, <1>11 DEF Agents

LEMMA BothBoolean ==
    ASSUME BaseInv
    PROVE  agent["A"].ctl \in BOOLEAN /\ agent["B"].ctl \in BOOLEAN
<1>1. "A" \in Agents /\ "B" \in Agents
  BY DEF Agents
<1>2. Shape(agent["A"]) /\ Shape(agent["B"])
  BY <1>1, ActorFacts
<1> QED
  BY <1>2 DEF Shape, OtherTypes

LEMMA AlikeBlank ==
    ASSUME RolesInv, First, agent["A"].ctl = agent["B"].ctl, NEW a \in Agents
    PROVE  Blank(agent[a])
BY DEF RolesInv, BothAlike, Agents

LEMMA QuietRoles ==
    ASSUME BaseInv, RolesInv, NEW a \in Agents, NEW t, NEW N, Quiet(a, t, N)
    PROVE  RolesInv'
<1> DEFINE none == {}
<1>1. Step(a, t, none, none, N, none) /\ t.ctl = agent[a].ctl /\ \A x \in none : FALSE
  BY DEF Quiet
<1>2. none = {}
  OBVIOUS
<1> HIDE DEF none
<1> QED
  BY <1>1, <1>2, RoleKept

LEMMA RestartRoles ==
    ASSUME BaseInv, NEW a \in Agents, NEW t, Restarts(a, t)
    PROVE  RolesInv'
<1>1. /\ agent'[a] = t /\ t.gen > agent[a].gen /\ agent[a].gen \in Nat /\ t.gen \in Nat
  <2>1. agent'[a] = t
    BY NewAgent DEF BaseInv, Restarts, Local
  <2>2. Shape(agent[a]) /\ Shape(t)
    BY ActorFacts DEF Restarts, Local
  <2> QED
    BY <2>1, <2>2 DEF Restarts, Shape, OtherTypes
<1>2. agent'[a].gen # 0
  BY <1>1
<1>3. ~First'
  BY <1>2 DEF First, Agents
<1> QED
  BY <1>3 DEF RolesInv

LEMMA ConnectRoles ==
    ASSUME BaseInv, RolesInv, NEW a \in Agents, connect(a)
    PROVE  RolesInv'
<1>1. PICK t, W : /\ Step(a, t, W, {}, {}, {}) /\ t.ctl = agent[a].ctl
                  /\ W # {} => EarlyOf(agent[a]) # {}
  BY ConnectStep
<1>2. First /\ agent["A"].ctl = agent["B"].ctl => W = {}
  BY <1>1, AlikeBlank DEF Blank
<1> DEFINE none == {}
<1>3. Step(a, t, W, none, none, none) /\ none = {} /\ \A x \in none : FALSE
  BY <1>1
<1> HIDE DEF none
<1> QED
  BY <1>1, <1>2, <1>3, RoleKept

LEMMA AroundRequests ==
    ASSUME BaseInv
    PROVE  Around \subseteq Requests
<1>1. "A" \in Agents /\ "B" \in Agents
  BY DEF Agents
<1>2. ASSUME NEW a \in Agents PROVE EarlyOf(agent[a]) \subseteq Requests
  <2>1. agent[a].early \in Seq(Requests)
    BY ActorFacts DEF Shape, OtherTypes
  <2> QED
    BY <2>1 DEF EarlyOf
<1> QED
  BY <1>1, <1>2 DEF Around, BaseInv, Typed

\* Whoever changes its role for a request, had the role of its peer.
LEMMA ClashAlike ==
    ASSUME BaseInv, RolesInv, First, NEW a \in Agents, NEW r \in Around, r.from = Peer(a),
           RoleConflict(agent[a], a, r) \in {"yield", "claim"}
    PROVE  agent["A"].ctl = agent["B"].ctl
<1> DEFINE s == agent[a]
<1>1. /\ a = "A" \/ a = "B"
      /\ r \in FromOf(Peer(a)) /\ r \in Requests /\ Shape(s)
  BY AroundRequests, ActorFacts DEF FromOf, Agents
<1>2. s.ctl \in BOOLEAN /\ r.ctl \in BOOLEAN
  BY <1>1 DEF Shape, OtherTypes, Requests
<1>3. \/ a = "B" /\ s.ctl /\ r.ctl
      \/ a = "A" /\ ~s.ctl /\ ~r.ctl /\ a \notin env.lite
  <2> HIDE DEF s
  <2>1. CASE s.ctl
    BY <1>1, <1>2, <2>1 DEF RoleConflict, s
  <2>2. CASE ~s.ctl
    BY <1>1, <1>2, <2>2 DEF RoleConflict, s
  <2> QED
    BY <2>1, <2>2
<1>4. ~agent["A"].ctl /\ agent["B"].ctl => BControls
  BY DEF RolesInv
<1>5. CASE a = "B" /\ s.ctl /\ r.ctl
  <2>1. r \in FromOf("A")
    BY <1>1, <1>5 DEF Peer
  <2> QED
    BY <1>4, <1>5, <2>1, BothBoolean DEF BControls
<1>6. CASE a = "A" /\ ~s.ctl /\ ~r.ctl /\ a \notin env.lite
  <2>1. r \in FromOf("B")
    BY <1>1, <1>6 DEF Peer
  <2> QED
    BY <1>4, <1>6, <2>1, BothBoolean DEF BControls
<1> QED
  BY <1>3, <1>5, <1>6

LEMMA RequestRoles ==
    ASSUME BaseInv, RolesInv, NEW a \in Agents, NEW r \in net, requestReceived(a, r)
    PROVE  RolesInv'
<1> DEFINE s == agent[a]
           clash == RoleConflict(s, a, r)
<1>1. /\ r.from = Peer(a)
      /\ \E t, W, E, X : /\ Step(a, t, W, E, {}, X) /\ t.ctl = Reroled(s, a, r).ctl
                         /\ clash \in {"refuse", "claim"} => W = {} /\ E = {}
                         /\ \A x \in X : x.req = r /\ clash # "claim" /\ (x.ok <=> clash # "refuse")
  BY RequestStep
<1>2. PICK t, W, E, X : /\ Step(a, t, W, E, {}, X) /\ t.ctl = Reroled(s, a, r).ctl
                        /\ clash \in {"refuse", "claim"} => W = {} /\ E = {}
                        /\ \A x \in X : x.req = r /\ clash # "claim" /\ (x.ok <=> clash # "refuse")
  BY <1>1
<1>3. /\ a = "A" \/ a = "B"
      /\ r \in FromOf(Peer(a)) /\ r \in Requests /\ Local(s, a) /\ r \in Around
  <2>1. r \in Around
    BY DEF Around
  <2>2. Local(s, a)
    BY ActorFacts
  <2> QED
    BY <1>1, <2>1, <2>2 DEF FromOf, Agents, BaseInv, Typed
<1>4. s.ctl \in BOOLEAN /\ r.ctl \in BOOLEAN
  BY <1>3 DEF Local, Shape, OtherTypes, Requests
<1>5. t.ctl = CASE clash = "yield" -> FALSE [] clash = "claim" -> a \notin env.lite [] OTHER -> s.ctl
  BY <1>2, <1>3, ReroledIs
<1>6. /\ clash = "yield" <=> s.ctl /\ r.ctl /\ a # "A"
      /\ clash = "claim" <=> ~s.ctl /\ ~r.ctl /\ a \notin env.lite /\ a # "B"
      /\ clash = "refuse" <=> ((s.ctl /\ r.ctl /\ a = "A")
                                \/ (~s.ctl /\ ~r.ctl /\ (a \in env.lite \/ a = "B")))
  <2> HIDE DEF s
  <2>1. CASE s.ctl
    BY <1>4, <2>1 DEF RoleConflict
  <2>2. CASE ~s.ctl
    BY <1>4, <2>2 DEF RoleConflict
  <2> QED
    BY <2>1, <2>2
<1>7. First /\ agent["A"].ctl = agent["B"].ctl => r.ctl = s.ctl
  <2> SUFFICES ASSUME First, agent["A"].ctl = agent["B"].ctl PROVE r.ctl = s.ctl
    OBVIOUS
  <2>1. \A q \in FromOf("A") \union FromOf("B") : q.ctl = agent["A"].ctl
    BY DEF RolesInv, BothAlike
  <2> QED
    BY <1>3, <2>1 DEF Peer
<1> DEFINE none == {}
<1>9. Step(a, t, W, E, none, X)
  BY <1>2
<1> HIDE DEF none, clash
<1>10. CASE clash \notin {"yield", "claim"}
  <2>1. t.ctl = s.ctl
    BY <1>5, <1>10
  <2>2. \A x \in X : ~x.ok => clash = "refuse" /\ x.req = r
    BY <1>2
  <2>3. clash = "refuse" => /\ r.ctl = s.ctl
                            /\ \/ a = "A" /\ (s.ctl \/ a \in env.lite)
                               \/ a = "B" /\ ~s.ctl
    BY <1>3, <1>4, <1>6
  <2>4. First /\ agent["A"].ctl = agent["B"].ctl => W = {} /\ E = {} /\ \A x \in X : ~x.ok
    <3> SUFFICES ASSUME First, agent["A"].ctl = agent["B"].ctl
                 PROVE  clash = "refuse"
      BY <1>2
    <3>1. r.ctl = s.ctl
      BY <1>7
    <3> QED
      BY <1>3, <1>4, <1>6, <1>10, <3>1
  <2>5. \A x \in X : ~x.ok => /\ x.req.ctl = agent[a].ctl
                               /\ \/ a = "A" /\ (agent[a].ctl \/ a \in env.lite)
                                  \/ a = "B" /\ ~agent[a].ctl
    BY <2>2, <2>3
  <2> QED
    BY <1>9, <2>1, <2>4, <2>5, RoleKept
<1>11. CASE clash \in {"yield", "claim"} /\ First
  <2>1. agent["A"].ctl = agent["B"].ctl
    BY <1>1, <1>3, <1>11, ClashAlike DEF clash
  <2>2. t.ctl = ~s.ctl
    BY <1>4, <1>5, <1>6, <1>11
  <2>3. a = "A" => ~s.ctl /\ a \notin env.lite
    BY <1>6, <1>11
  <2>4. ~(a = "B" /\ ~s.ctl)
    BY <1>6, <1>11
  <2>5. \A x \in X : x.ok
    BY <1>2, <1>6, <1>11
  <2> QED
    BY <1>9, <2>1, <2>2, <2>3, <2>4, <2>5, RoleRepaired
<1>12. CASE ~First
  BY <1>9, <1>12, FirstBefore DEF RolesInv
<1> QED
  BY <1>10, <1>11, <1>12

\* A refusal finds an agent in the role of its peer, or in the other one already.
LEMMA RefusedAlike ==
    ASSUME BaseInv, RolesInv, First, NEW a \in Agents, NEW x \in answers, ~x.ok,
           x.req.from = a, agent[a].ctl # ~x.req.ctl
    PROVE  agent["A"].ctl = agent["B"].ctl
<1> DEFINE s == agent[a]
           r == x.req
<1>1. r \in RefusedOf(a) /\ (a = "A" \/ a = "B")
  BY DEF RefusedOf, Agents
<1>2. r.ctl \in BOOLEAN /\ s.ctl \in BOOLEAN /\ r.ctl = s.ctl
  <2>1. r \in Requests /\ Shape(s)
    BY ActorFacts DEF BaseInv, Typed
  <2>2. r.ctl \in BOOLEAN /\ s.ctl \in BOOLEAN
    BY <2>1 DEF Requests, Shape, OtherTypes
  <2> QED
    BY <2>2
<1>3. CASE agent["A"].ctl /\ ~agent["B"].ctl
  BY <1>1, <1>2, <1>3 DEF RolesInv, AControls
<1>4. CASE ~agent["A"].ctl /\ agent["B"].ctl
  BY <1>1, <1>2, <1>4 DEF RolesInv, BControls
<1> QED
  BY <1>3, <1>4, BothBoolean

LEMMA ResponseRoles ==
    ASSUME BaseInv, RolesInv, NEW a \in Agents, NEW x \in answers, responseReceived(a, x)
    PROVE  RolesInv'
<1> DEFINE s == agent[a]
           r == x.req
<1>1. PICK t, W : /\ Step(a, t, W, {}, {}, {}) /\ (W # {} => x.ok)
                  /\ \/ t.ctl = agent[a].ctl
                     \/ ~x.ok /\ x.req.from = a /\ t.ctl = ~x.req.ctl /\ a \notin env.lite
  BY ResponseStep
<1> DEFINE none == {}
<1>2. Step(a, t, W, none, none, none) /\ none = {} /\ \A y \in none : FALSE
  BY <1>1
<1> HIDE DEF none
<1>3. a = "A" \/ a = "B"
  BY DEF Agents
<1>4. CASE t.ctl = s.ctl
  <2>1. First /\ agent["A"].ctl = agent["B"].ctl => W = {}
    BY <1>1 DEF RolesInv, BothAlike
  <2> QED
    BY <1>2, <1>4, <2>1, RoleKept
<1>5. CASE t.ctl # s.ctl /\ First
  <2>1. ~x.ok /\ r.from = a /\ t.ctl = ~r.ctl /\ a \notin env.lite /\ r \in RefusedOf(a)
    BY <1>1, <1>5 DEF RefusedOf
  <2>2. r.ctl \in BOOLEAN /\ s.ctl \in BOOLEAN /\ r.ctl = s.ctl
    <3>1. r \in Requests /\ Shape(s)
      BY ActorFacts DEF BaseInv, Typed
    <3>2. r.ctl \in BOOLEAN /\ s.ctl \in BOOLEAN
      BY <3>1 DEF Requests, Shape, OtherTypes
    <3> QED
      BY <1>5, <2>1, <3>2
  <2>3. agent["A"].ctl = agent["B"].ctl
    BY <1>5, <2>1, <2>2, RefusedAlike
  <2>4. BothAlike(agent["A"].ctl)
    BY <1>5, <2>3 DEF RolesInv
  <2>5. a = "A" => ~s.ctl /\ a \notin env.lite
    BY <2>1, <2>4 DEF BothAlike
  <2>6. a = "B" /\ ~s.ctl => "A" \in env.lite
    BY <2>1, <2>3, <2>4 DEF BothAlike
  <2>7. t.ctl = ~s.ctl
    BY <2>1, <2>2
  <2> QED
    BY <1>2, <2>3, <2>5, <2>6, <2>7, RoleRepaired
<1>6. CASE ~First
  BY <1>2, <1>6, FirstBefore DEF RolesInv
<1> QED
  BY <1>4, <1>5, <1>6

LEMMA InitRoles == Init => RolesInv
<1> SUFFICES ASSUME Init PROVE RolesInv
  OBVIOUS
<1>0. PICK c \in Scenarios :
        /\ env = [lite |-> c.lite, tcp |-> c.tcp, timeouts |-> c.timeouts,
              losses |-> c.losses, restarters |-> c.restarters,
              closers |-> c.closers, consents |-> c.consents,
              trickle |-> c.trickle, used |-> c.paths, timely |-> c.timeouts = 0]
        /\ agent = [a \in Agents |-> FirstAgent(c, a)] /\ net = {} /\ answers = {}
  BY DEF Init, FirstAgent
<1>1. /\ env.lite = c.lite /\ agent = [a \in Agents |-> FirstAgent(c, a)] /\ net = {}
      /\ answers = {}
  BY <1>0
<1>2. c.paths \in SUBSET Paths
  BY IceAssumption
<1>3. ASSUME NEW a \in Agents
      PROVE  Blank(agent[a]) /\ EarlyOf(agent[a]) = {} /\ SentOn(agent[a]) = {}
  <2> DEFINE t == FirstAgent(c, a)
  <2>1. agent[a] = t
    BY <1>1
  <2>2. /\ t.sel = None /\ EarlyOf(t) = {}
        /\ \A p \in Paths : t.pair[p].st \in {"none", "WAITING"} /\ t.tx[p] = NoRequest
    BY <1>1, <1>2, FirstFacts
  <2> HIDE DEF t
  <2> QED
    BY <2>1, <2>2 DEF Blank, SentOn
<1>4. Around = {} /\ \A b : FromOf(b) = {} /\ RefusedOf(b) = {}
  BY <1>1, <1>3 DEF Around, Agents, FromOf, RefusedOf
<1> QED
  BY <1>1, <1>3, <1>4 DEF RolesInv, AControls, BControls, BothAlike, Agents

LEMMA NextRoles == BaseInv /\ RolesInv /\ [Next]_vars => RolesInv'
<1> SUFFICES ASSUME BaseInv, RolesInv, [Next]_vars PROVE RolesInv'
  OBVIOUS
<1>1. ASSUME NEW a \in Agents, NEW t, NEW N, Quiet(a, t, N) PROVE RolesInv'
  BY <1>1, QuietRoles
<1>2. ASSUME NEW a \in Agents, Progress(a) PROVE RolesInv'
  <2>1. CASE endOfCandidates(a)
    BY <1>1, <2>1, EndStep
  <2>2. CASE gatherCandidates(a)
    BY <1>1, <2>2, GatherStep
  <2>3. CASE setRemoteParams(a)
    BY <1>1, <2>3, ParamsStep, RestartRoles
  <2>4. CASE connect(a)
    BY <2>4, ConnectRoles
  <2>5. CASE schedulingChecks(a)
    BY <1>1, <2>5, SchedulingStep
  <2>6. CASE scheduled(a)
    BY <1>1, <2>6, ScheduledStep
  <2>7. CASE connectResumes(a)
    BY <1>1, <2>7, ResumesStep
  <2>8. CASE liteResumes(a)
    BY <1>1, <2>8, LiteStep
  <2>9. CASE closeSocket(a)
    BY <1>1, <2>9, CloseSocketStep
  <2>10. CASE \E p \in Paths : addRemoteCandidate(a, p) \/ retransmit(a, p)
    BY <1>1, <2>10, AddStep, RetransmitStep
  <2>11. CASE \E r \in net : requestReceived(a, r)
    BY <2>11, RequestRoles
  <2>12. CASE \E x \in answers : responseReceived(a, x) \/ consentAnswered(a, x)
    BY <1>1, <2>12, ResponseRoles, ConsentAnswerStep
  <2> QED
    BY <1>2, <2>1, <2>2, <2>3, <2>4, <2>5, <2>6, <2>7, <2>8, <2>9, <2>10, <2>11, <2>12
       DEF Progress
<1>3. ASSUME Fault PROVE RolesInv'
  <2>1. ASSUME NEW a \in Agents, restart(a) PROVE RolesInv'
    BY <2>1, RestartStep, RestartRoles
  <2>2. ASSUME NEW a \in Agents, close(a) PROVE RolesInv'
    BY <1>1, <2>2, CloseStep
  <2>3. ASSUME NEW a \in Agents, consentRequest(a) PROVE RolesInv'
    BY <1>1, <2>3, ConsentRequestStep
  <2>4. ASSUME NEW a \in Agents, consentExpires(a) PROVE RolesInv'
    BY <1>1, <2>4, ExpiresStep
  <2>5. ASSUME NEW a \in Agents, NEW p \in Paths, timeout(a, p) PROVE RolesInv'
    BY <1>1, <2>5, TimeoutStep
  <2>6. ASSUME NEW r \in net, lose(r) PROVE RolesInv'
    BY <1>1, <2>6, LoseStep
  <2> QED
    BY <1>3, <2>1, <2>2, <2>3, <2>4, <2>5, <2>6 DEF Fault
<1>4. CASE UNCHANGED vars
  <2>1. "A" \in Agents
    BY DEF Agents
  <2>2. agent' = agent /\ net' = net /\ answers' = answers /\ EnvironmentKept
    BY <1>4, EnvironmentSame DEF vars
  <2> QED
    BY <1>1, <2>1, <2>2, NetworkStep
<1> QED
  BY <1>2, <1>3, <1>4 DEF Next

LEMMA RolesDiffer == BaseInv /\ RolesInv => OneController
<1> SUFFICES ASSUME BaseInv, RolesInv, BothSelected, First, agent["A"].ctl = agent["B"].ctl
             PROVE  FALSE
  BY DEF OneController, SameGeneration, First
<1>1. "A" \in Agents /\ Blank(agent["A"])
  BY AlikeBlank DEF Agents
<1> QED
  BY <1>1 DEF BothSelected, Blank

\* Role conflict repair (ice.ts 983-1017, 2293-2302): two agents that selected a
\* pair in the first generation have different roles.
THEOREM RolesAreRepaired == Spec => []OneController
<1>1. Init => BaseInv /\ RolesInv
  BY InitBase, InitRoles
<1>2. BaseInv /\ RolesInv /\ [Next]_vars => (BaseInv /\ RolesInv)'
  BY NextBase, NextRoles
<1>3. BaseInv /\ RolesInv => OneController
  BY RolesDiffer
<1> QED
  BY <1>1, <1>2, <1>3, PTL DEF Spec

-----------------------------------------------------------------------------
(* Nomination over TCP, in the first generation.                             *)

HasUc(s, p) == s.tx[p] # NoRequest /\ s.tx[p].uc

\* The controlling agent nominates pair p, or has selected it.
Claim(s, p) == s.ctl /\ (s.sel = p \/ HasUc(s, p))

\* What an agent without a lite peer keeps to over TCP.
TcpOK(s) ==
    /\ \A p \in Paths : s.tx[p] # NoRequest =>
          /\ s.tx[p].kind \in {"check", "tcpnom"}
          /\ s.tx[p].uc <=> s.tx[p].kind = "tcpnom"
          /\ s.tx[p].uc => s.tx[p].ctl
          /\ ~s.tx[p].uc => s.pair[p].st = "IN_PROGRESS"
    /\ \A p \in Paths : HasUc(s, p) =>
          s.nominating /\ s.ctl /\ s.sel = None /\ s.pair[p].st = "SUCCEEDED"
    /\ \A p, q \in Paths : HasUc(s, p) /\ HasUc(s, q) => p = q
    /\ \A p \in Paths : s.pair[p].nom => IF s.ctl THEN s.sel = p ELSE s.pair[p].rnom
    /\ \A p \in Paths : s.pair[p].rnom => ~s.ctl
    /\ s.sel # None => s.pair[s.sel].nom

\* An agent handles checks over TCP; the pairs in R are nominated by the peer.
TcpHandles(s, t, R) ==
    TcpOK(s) =>
      /\ TcpOK(t) /\ t.ctl = s.ctl
      /\ \A p \in Paths : Claim(s, p) => Claim(t, p)
      /\ \A p \in Paths : t.pair[p].rnom => s.pair[p].rnom \/ p \in R

LEMMA TcpSame ==
    ASSUME NEW s, NEW R
    PROVE  TcpHandles(s, s, R)
BY DEF TcpHandles

LEMMA TcpTrans ==
    ASSUME NEW s, NEW t, NEW u, NEW R, TcpHandles(s, t, R), TcpHandles(t, u, R)
    PROVE  TcpHandles(s, u, R)
BY DEF TcpHandles

LEMMA TcpMore ==
    ASSUME NEW s, NEW t, NEW R, NEW S, TcpHandles(s, t, R), R \subseteq S
    PROVE  TcpHandles(s, t, S)
BY DEF TcpHandles

\* Pairs may be formed or given up; what is nominated stays.
LEMMA PairsTcp ==
    ASSUME NEW s, NEW t, NEW R, t.ctl = s.ctl, t.tx = s.tx, t.sel = s.sel,
           t.nominating = s.nominating, s.sel \in Paths \union {None},
           \A q \in Paths : /\ t.pair[q].nom = s.pair[q].nom /\ t.pair[q].rnom = s.pair[q].rnom
                            /\ s.pair[q].st \in {"IN_PROGRESS", "SUCCEEDED"} =>
                                 t.pair[q].st = s.pair[q].st
    PROVE  TcpHandles(s, t, R)
<1>1. \A p \in Paths : HasUc(t, p) <=> HasUc(s, p)
  BY DEF HasUc
<1>2. \A p \in Paths : Claim(s, p) => Claim(t, p)
  BY <1>1 DEF Claim
<1>3. TcpOK(s) => TcpOK(t)
  BY <1>1 DEF TcpOK
<1> QED
  BY <1>2, <1>3 DEF TcpHandles

\* A request may be given up, unless it nominates.
LEMMA CoreTcp ==
    ASSUME NEW s, NEW t, NEW R, CoreKept(s, t)
    PROVE  TcpHandles(s, t, R)
<1>1. /\ t.ctl = s.ctl /\ t.pair = s.pair /\ t.sel = s.sel /\ t.nominating = s.nominating
      /\ \A p \in Paths : t.tx[p] = s.tx[p] \/ (t.tx[p] = NoRequest /\ s.tx[p].kind # "tcpnom")
  BY DEF CoreKept, CoreFields
<1> SUFFICES ASSUME TcpOK(s)
             PROVE  /\ TcpOK(t)
                    /\ \A p \in Paths : Claim(s, p) => Claim(t, p)
  BY <1>1 DEF TcpHandles
<1>2. ASSUME NEW p \in Paths PROVE HasUc(t, p) <=> HasUc(s, p)
  BY <1>1 DEF HasUc, TcpOK
<1>3. \A p \in Paths : Claim(s, p) => Claim(t, p)
  BY <1>1, <1>2 DEF Claim
<1>4. TcpOK(t)
  BY <1>1, <1>2 DEF TcpOK
<1> QED
  BY <1>3, <1>4

\* A check without USE-CANDIDATE, on a pair that is not being nominated.
LEMMA StartTcp ==
    ASSUME NEW s, NEW a \in Agents, NEW p \in Paths, NEW R, Shape(s), env.tcp, env.lite = {},
           ~HasUc(s, p)
    PROVE  TcpHandles(s, checkStart(s, a, p), R)
<1> DEFINE t == checkStart(s, a, p)
           aggressive == s.ctl /\ Peer(a) \notin env.lite /\ ~env.tcp
           r == buildRequest(s, a, p, "check", aggressive)
<1>0. a \notin env.lite
  OBVIOUS
<1>1. /\ Changed(s, t, {"pair", "tx", "sent"})
      /\ t.pair = [s.pair EXCEPT ![p].st = "IN_PROGRESS"]
      /\ t.tx = [s.tx EXCEPT ![p] = r]
  BY <1>0, StartHandles
<1>2. r.kind = "check" /\ r.uc = FALSE
  BY DEF buildRequest
<1> HIDE DEF t, r
<1>3. /\ t.ctl = s.ctl /\ t.sel = s.sel /\ t.nominating = s.nominating
      /\ s.pair \in [Paths -> Pair] /\ s.tx \in [Paths -> MaybeRequest]
      /\ s.sel \in Paths \union {None}
  BY <1>1 DEF Changed, Fields, CheckFields, OtherFields, Shape, CheckTypes
<1>4. /\ t.tx[p] = r /\ \A q \in Paths : q # p => t.tx[q] = s.tx[q] /\ t.pair[q] = s.pair[q]
      /\ t.pair[p].st = "IN_PROGRESS" /\ t.pair[p].nom = s.pair[p].nom
      /\ t.pair[p].rnom = s.pair[p].rnom
  BY <1>1, <1>3 DEF Pair
<1>5. ASSUME NEW q \in Paths PROVE HasUc(t, q) <=> HasUc(s, q)
  <2>1. ~HasUc(t, p)
    BY <1>2, <1>4 DEF HasUc
  <2> QED
    BY <1>4, <2>1 DEF HasUc
<1>6. \A q \in Paths : t.pair[q].nom = s.pair[q].nom /\ t.pair[q].rnom = s.pair[q].rnom
  BY <1>4
<1> SUFFICES ASSUME TcpOK(s)
             PROVE  /\ TcpOK(t)
                    /\ \A q \in Paths : Claim(s, q) => Claim(t, q)
  BY <1>3, <1>6 DEF TcpHandles, t
<1>7. \A q \in Paths : Claim(s, q) => Claim(t, q)
  BY <1>3, <1>5 DEF Claim
<1>8. ASSUME NEW q \in Paths, t.tx[q] # NoRequest
      PROVE  /\ t.tx[q].kind \in {"check", "tcpnom"}
             /\ t.tx[q].uc <=> t.tx[q].kind = "tcpnom"
             /\ t.tx[q].uc => t.tx[q].ctl
             /\ ~t.tx[q].uc => t.pair[q].st = "IN_PROGRESS"
  <2>1. CASE q = p
    BY <1>2, <1>4, <2>1
  <2>2. CASE q # p
    BY <1>4, <1>8, <2>2 DEF TcpOK
  <2> QED
    BY <2>1, <2>2
<1>9. ASSUME NEW q \in Paths, HasUc(t, q)
      PROVE  t.nominating /\ t.ctl /\ t.sel = None /\ t.pair[q].st = "SUCCEEDED"
  BY <1>3, <1>4, <1>5, <1>9 DEF TcpOK
<1>10. TcpOK(t)
  BY <1>3, <1>5, <1>6, <1>8, <1>9 DEF TcpOK
<1> QED
  BY <1>7, <1>10

\* The nomination itself: the request with USE-CANDIDATE claims the pair.
LEMMA NominateTcp ==
    ASSUME NEW s, NEW t, NEW a \in Agents, NEW p \in Paths, NEW R, Shape(s),
           NominatesTcp(s, t, a, p)
    PROVE  TcpHandles(s, t, R)
<1> DEFINE yes == TRUE
           r == buildRequest(s, a, p, "tcpnom", yes)
<1>1. /\ s.ctl /\ s.sel = None /\ ~s.nominating /\ s.pair[p].st = "SUCCEEDED" /\ t.nominating
      /\ t.tx = [s.tx EXCEPT ![p] = r]
      /\ t.ctl = s.ctl /\ t.sel = s.sel /\ t.pair = s.pair
      /\ s.tx \in [Paths -> MaybeRequest]
  BY DEF NominatesTcp, Changed, Fields, CheckFields, OtherFields, Shape, CheckTypes
<1>2. r # NoRequest /\ r.kind = "tcpnom" /\ r.uc = TRUE /\ r.ctl = TRUE
  <2>1. "tcpnom" \in {"check", "nominate", "tcpnom", "consent"} /\ yes \in BOOLEAN
    OBVIOUS
  <2>2. s.ctl = TRUE
    BY <1>1 DEF Shape, OtherTypes
  <2> HIDE DEF yes
  <2>3. r # NoRequest /\ r.ctl = s.ctl /\ r.kind = "tcpnom" /\ r.uc = (yes /\ s.ctl)
    BY <2>1, RequestType
  <2> QED
    BY <2>2, <2>3 DEF yes
<1> HIDE DEF r
<1>3. t.tx[p] = r /\ \A q \in Paths : q # p => t.tx[q] = s.tx[q]
  BY <1>1
<1> SUFFICES ASSUME TcpOK(s)
             PROVE  /\ TcpOK(t)
                    /\ \A q \in Paths : Claim(s, q) => Claim(t, q)
  BY <1>1 DEF TcpHandles
<1>4. \A q \in Paths : ~HasUc(s, q)
  BY <1>1 DEF TcpOK
<1>5. \A q \in Paths : HasUc(t, q) <=> q = p
  BY <1>2, <1>3, <1>4 DEF HasUc
<1>6. \A q \in Paths : Claim(s, q) => Claim(t, q)
  BY <1>1, <1>4 DEF Claim
<1>7. ASSUME NEW q \in Paths, t.tx[q] # NoRequest
      PROVE  /\ t.tx[q].kind \in {"check", "tcpnom"}
             /\ t.tx[q].uc <=> t.tx[q].kind = "tcpnom"
             /\ t.tx[q].uc => t.tx[q].ctl
             /\ ~t.tx[q].uc => t.pair[q].st = "IN_PROGRESS"
  <2>1. CASE q = p
    BY <1>2, <1>3, <2>1
  <2>2. CASE q # p
    BY <1>1, <1>3, <1>7, <2>2 DEF TcpOK
  <2> QED
    BY <2>1, <2>2
<1>8. TcpOK(t)
  BY <1>1, <1>5, <1>7 DEF TcpOK
<1> QED
  BY <1>6, <1>8

\* A controlled agent selects what its peer nominated.
LEMMA SelectTcp ==
    ASSUME NEW s, NEW t, NEW a, NEW p \in Paths, NEW R, Shape(s), Selects(s, t, a, p),
           s.sel = None, s.pair[p].nom
    PROVE  TcpHandles(s, t, R)
<1>1. /\ t.ctl = s.ctl /\ t.sel = p /\ t.tx = s.tx /\ p # None /\ PairsEnd(s, t)
      /\ s.pair \in [Paths -> Pair]
  BY PathFacts DEF Selects, Changed, Fields, CheckFields, OtherFields, Shape, CheckTypes
<1>2. \A q \in Paths : t.pair[q].nom = s.pair[q].nom /\ t.pair[q].rnom = s.pair[q].rnom
  BY <1>1, PairsEndKeeps
<1>3. \A q \in Paths : s.pair[q].st = "IN_PROGRESS" => t.pair[q].st = "IN_PROGRESS"
  BY <1>1 DEF PairsEnd
<1> SUFFICES ASSUME TcpOK(s)
             PROVE  /\ TcpOK(t)
                    /\ \A q \in Paths : Claim(s, q) => Claim(t, q)
  BY <1>1, <1>2 DEF TcpHandles
<1>4. ~s.ctl /\ \A q \in Paths : ~HasUc(s, q)
  BY <1>1 DEF TcpOK
<1>5. \A q \in Paths : ~HasUc(t, q)
  BY <1>1, <1>4 DEF HasUc
<1>6. \A q \in Paths : Claim(s, q) => Claim(t, q)
  BY <1>4 DEF Claim
<1>7. ASSUME NEW q \in Paths, t.tx[q] # NoRequest
      PROVE  /\ t.tx[q].kind \in {"check", "tcpnom"}
             /\ t.tx[q].uc <=> t.tx[q].kind = "tcpnom"
             /\ t.tx[q].uc => t.tx[q].ctl
             /\ ~t.tx[q].uc => t.pair[q].st = "IN_PROGRESS"
  BY <1>1, <1>3, <1>7 DEF TcpOK
<1>8. TcpOK(t)
  <2>1. \A q \in Paths : t.pair[q].nom => IF t.ctl THEN t.sel = q ELSE t.pair[q].rnom
    BY <1>1, <1>2, <1>4 DEF TcpOK
  <2>2. \A q \in Paths : t.pair[q].rnom => ~t.ctl
    BY <1>1, <1>4
  <2>3. t.sel # None => t.pair[t.sel].nom
    BY <1>1, <1>2
  <2> QED
    BY <1>5, <1>7, <2>1, <2>2, <2>3 DEF TcpOK
<1> QED
  BY <1>6, <1>8

LEMMA PutTcp ==
    ASSUME NEW s, NEW t, NEW res, NEW R, Shape(s), Puts(s, t, res)
    PROVE  TcpHandles(s, t, R)
<1>1. /\ t.ctl = s.ctl /\ t.pair = s.pair /\ t.tx = s.tx /\ t.sel = s.sel
      /\ t.nominating = s.nominating /\ s.sel \in Paths \union {None}
  BY DEF Puts, Changed, Fields, CheckFields, OtherFields, Shape, CheckTypes
<1> QED
  BY <1>1, PairsTcp

LEMMA CompleteTcp ==
    ASSUME NEW s, NEW a \in Agents, NEW p \in Paths, NEW R, Shape(s), env.lite = {}
    PROVE  TcpHandles(s, checkComplete(s, a, p), R)
<1> DEFINE x == checkComplete(s, a, p)
<1>0. a \notin env.lite
  OBVIOUS
<1>1. Completes(s, x, a, p) \/ GoesOn(s, x, a, p)
  BY <1>0, CompleteCases
<1> HIDE DEF x
<1>2. CASE Completes(s, x, a, p)
  <2>1. PICK t : /\ t = s \/ (s.sel = None /\ s.pair[p].nom /\ Selects(s, t, a, p))
                 /\ x = t \/ Puts(t, x, COMPLETED)
    BY <1>2 DEF Completes
  <2>2. TcpHandles(s, t, R) /\ Shape(t)
    <3>1. CASE t = s
      BY <3>1, TcpSame
    <3>2. CASE s.sel = None /\ s.pair[p].nom /\ Selects(s, t, a, p)
      BY <3>2, SelectTcp, SelectsShape
    <3> QED
      BY <2>1, <3>1, <3>2
  <2>3. TcpHandles(t, x, R)
    BY <2>1, <2>2, PutTcp, TcpSame
  <2> QED
    BY <2>2, <2>3, TcpTrans DEF x
<1>3. CASE GoesOn(s, x, a, p)
  <2> DEFINE none == {}
             t == nominateTcpPairIfReady(s, a)
  <2>1. x = t \/ Puts(t, x, FAILED)
    BY <1>3 DEF GoesOn
  <2>2. Handles(s, t, a, none) /\ (t = s \/ \E q \in Paths : NominatesTcp(s, t, a, q))
    <3> HIDE DEF none
    <3> QED
      BY <1>0, NominateHandles
  <2> HIDE DEF t, none
  <2>3. Shape(t) /\ TcpHandles(s, t, R)
    BY <2>2, HandlesShape, NominateTcp, TcpSame
  <2>4. TcpHandles(t, x, R)
    BY <2>1, <2>3, PutTcp, TcpSame
  <2> QED
    BY <2>3, <2>4, TcpTrans DEF x
<1> QED
  BY <1>1, <1>2, <1>3

\* The success of a check.
LEMMA WonTcp ==
    ASSUME NEW s, NEW a \in Agents, NEW p \in Paths, NEW R, Shape(s), env.lite = {},
           s.tx[p] = NoRequest
    PROVE  TcpHandles(s, CheckWon(s, a, p), R)
<1> DEFINE t == SetPair(s, p, "SUCCEEDED")
           st == "SUCCEEDED"
           all == Paths
<1>1. CheckWon(s, a, p) = checkComplete(t, a, p)
  BY DEF CheckWon
<1>2. st \in PairStates \ {"none"} /\ p \in all /\ t = SetPair(s, p, st)
  BY DEF PairStates
<1>3. Handles(s, t, a, all) /\ Changed(s, t, {"pair"}) /\ t.pair = [s.pair EXCEPT ![p].st = st]
  <2> HIDE DEF st, all, t
  <2> QED
    BY <1>2, SetPairHandles
<1> HIDE DEF t
<1>4. Shape(t)
  BY <1>3, HandlesShape
<1>5. /\ t.ctl = s.ctl /\ t.tx = s.tx /\ t.sel = s.sel /\ t.nominating = s.nominating
      /\ s.pair \in [Paths -> Pair]
  BY <1>3 DEF Changed, Fields, CheckFields, OtherFields, Shape, CheckTypes
<1>6. /\ \A q \in Paths : q # p => t.pair[q] = s.pair[q]
      /\ t.pair[p].st = "SUCCEEDED" /\ t.pair[p].nom = s.pair[p].nom
      /\ t.pair[p].rnom = s.pair[p].rnom
  BY <1>3, <1>5 DEF Pair
<1>7. \A q \in Paths : t.pair[q].nom = s.pair[q].nom /\ t.pair[q].rnom = s.pair[q].rnom
  BY <1>6
<1>8. \A q \in Paths : HasUc(t, q) <=> HasUc(s, q)
  BY <1>5 DEF HasUc
<1>9. TcpHandles(s, t, R)
  <2> SUFFICES ASSUME TcpOK(s)
               PROVE  /\ TcpOK(t)
                      /\ \A q \in Paths : Claim(s, q) => Claim(t, q)
    BY <1>5, <1>7 DEF TcpHandles
  <2>1. \A q \in Paths : Claim(s, q) => Claim(t, q)
    BY <1>5, <1>8 DEF Claim
  <2>2. ASSUME NEW q \in Paths, t.tx[q] # NoRequest
        PROVE  /\ t.tx[q].kind \in {"check", "tcpnom"}
               /\ t.tx[q].uc <=> t.tx[q].kind = "tcpnom"
               /\ t.tx[q].uc => t.tx[q].ctl
               /\ ~t.tx[q].uc => t.pair[q].st = "IN_PROGRESS"
    BY <1>5, <1>6, <2>2 DEF TcpOK
  <2>3. ASSUME NEW q \in Paths, HasUc(t, q)
        PROVE  t.nominating /\ t.ctl /\ t.sel = None /\ t.pair[q].st = "SUCCEEDED"
    BY <1>5, <1>6, <1>8, <2>3 DEF TcpOK, HasUc
  <2>4. TcpOK(t)
    <3>1. s.sel # None => t.pair[s.sel].nom
      BY <1>5, <1>7 DEF TcpOK, Shape, CheckTypes
    <3> QED
      BY <1>5, <1>7, <1>8, <2>2, <2>3, <3>1 DEF TcpOK
  <2> QED
    BY <2>1, <2>4
<1>10. TcpHandles(t, checkComplete(t, a, p), R)
  BY <1>4, CompleteTcp
<1> QED
  BY <1>1, <1>9, <1>10, TcpTrans

\* The peer's nomination is noted.
LEMMA NotedTcp ==
    ASSUME NEW s, NEW p \in Paths, NEW noted \in BOOLEAN, NEW R, Shape(s),
           noted => ~s.ctl /\ p \in R
    PROVE  LET t == Noted(s, p, noted)
           IN  TcpHandles(s, t, R) /\ (noted => t.pair[p].rnom)
<1> DEFINE t == Noted(s, p, noted)
<1>1. /\ MarkHandles(s, t, p)
      /\ t.pair[p] = [s.pair[p] EXCEPT !.rnom = s.pair[p].rnom \/ noted]
  BY NotedMarks
<1> HIDE DEF t
<1>2. /\ t.ctl = s.ctl /\ t.tx = s.tx /\ t.sel = s.sel /\ t.nominating = s.nominating
      /\ \A q \in Paths : q # p => t.pair[q] = s.pair[q]
      /\ s.pair \in [Paths -> Pair] /\ t.pair[p].st = s.pair[p].st
      /\ s.sel \in Paths \union {None}
  BY <1>1 DEF MarkHandles, Changed, Fields, CheckFields, OtherFields, Shape, CheckTypes
<1>3. t.pair[p].nom = s.pair[p].nom /\ (t.pair[p].rnom <=> s.pair[p].rnom \/ noted)
  BY <1>1, <1>2 DEF Pair
<1>4. /\ \A q \in Paths : t.pair[q].nom = s.pair[q].nom /\ t.pair[q].st = s.pair[q].st
      /\ \A q \in Paths : s.pair[q].rnom => t.pair[q].rnom
      /\ \A q \in Paths : t.pair[q].rnom => s.pair[q].rnom \/ (q \in R /\ ~s.ctl)
  BY <1>2, <1>3
<1>5. \A q \in Paths : HasUc(t, q) <=> HasUc(s, q)
  BY <1>2 DEF HasUc
<1>6. TcpHandles(s, t, R)
  <2> SUFFICES ASSUME TcpOK(s)
               PROVE  /\ TcpOK(t)
                      /\ \A q \in Paths : Claim(s, q) => Claim(t, q)
    BY <1>2, <1>4 DEF TcpHandles
  <2>1. \A q \in Paths : Claim(s, q) => Claim(t, q)
    BY <1>2, <1>5 DEF Claim
  <2>2. /\ \A q \in Paths : t.pair[q].nom => IF t.ctl THEN t.sel = q ELSE t.pair[q].rnom
        /\ \A q \in Paths : t.pair[q].rnom => ~t.ctl
        /\ t.sel # None => t.pair[t.sel].nom
    BY <1>2, <1>4 DEF TcpOK
  <2>3. TcpOK(t)
    BY <1>2, <1>4, <1>5, <2>2 DEF TcpOK
  <2> QED
    BY <2>1, <2>3
<1> QED
  BY <1>3, <1>6 DEF t

\* A pair that the peer nominated is marked.
LEMMA NominatedTcp ==
    ASSUME NEW s, NEW p \in Paths, NEW R, Shape(s), ~s.ctl, s.pair[p].rnom
    PROVE  TcpHandles(s, Nominated(s, p), R)
<1> DEFINE t == Nominated(s, p)
<1>1. MarkHandles(s, t, p) /\ t.pair[p] = [s.pair[p] EXCEPT !.nom = TRUE]
  BY NominatedMarks
<1> HIDE DEF t
<1>2. /\ t.ctl = s.ctl /\ t.tx = s.tx /\ t.sel = s.sel /\ t.nominating = s.nominating
      /\ \A q \in Paths : q # p => t.pair[q] = s.pair[q]
      /\ s.pair \in [Paths -> Pair] /\ t.pair[p].st = s.pair[p].st
      /\ s.sel \in Paths \union {None}
  BY <1>1 DEF MarkHandles, Changed, Fields, CheckFields, OtherFields, Shape, CheckTypes
<1>3. t.pair[p].nom = TRUE /\ t.pair[p].rnom = s.pair[p].rnom
  <2>1. s.pair[p] \in Pair /\ t.pair[p] = [s.pair[p] EXCEPT !.nom = TRUE]
    BY <1>1, <1>2
  <2> QED
    BY <2>1 DEF Pair
<1>4. \A q \in Paths : t.pair[q].rnom = s.pair[q].rnom /\ t.pair[q].st = s.pair[q].st
  BY <1>2, <1>3
<1>5. \A q \in Paths : HasUc(t, q) <=> HasUc(s, q)
  BY <1>2 DEF HasUc
<1> SUFFICES ASSUME TcpOK(s)
             PROVE  /\ TcpOK(t)
                    /\ \A q \in Paths : Claim(s, q) => Claim(t, q)
  BY <1>2, <1>4 DEF TcpHandles, t
<1>6. \A q \in Paths : Claim(s, q) => Claim(t, q)
  BY <1>2, <1>5 DEF Claim
<1>7. ASSUME NEW q \in Paths
      PROVE  t.pair[q].nom => IF t.ctl THEN t.sel = q ELSE t.pair[q].rnom
  BY <1>2, <1>4 DEF TcpOK
<1>8. /\ \A q \in Paths : t.pair[q].rnom => ~t.ctl
      /\ t.sel # None => t.pair[t.sel].nom
  BY <1>2, <1>3, <1>4 DEF TcpOK
<1>9. TcpOK(t)
  BY <1>2, <1>4, <1>5, <1>7, <1>8 DEF TcpOK
<1> QED
  BY <1>6, <1>9

\* The pairs of the candidates in C are formed.
LEMMA FormingTcp ==
    ASSUME NEW s, NEW t, NEW C, NEW R, Shape(s), Changed(s, t, {"cands", "pair"}),
           t.pair = [q \in Paths |-> IF q \in C THEN Waits(s.pair[q]) ELSE s.pair[q]]
    PROVE  TcpHandles(s, t, R)
<1>1. /\ t.ctl = s.ctl /\ t.tx = s.tx /\ t.sel = s.sel /\ t.nominating = s.nominating
      /\ s.pair \in [Paths -> Pair] /\ s.sel \in Paths \union {None}
  BY DEF Changed, Fields, CheckFields, OtherFields, Shape, CheckTypes
<1>2. ASSUME NEW q \in Paths
      PROVE  /\ t.pair[q].nom = s.pair[q].nom /\ t.pair[q].rnom = s.pair[q].rnom
             /\ s.pair[q].st \in {"IN_PROGRESS", "SUCCEEDED"} => t.pair[q].st = s.pair[q].st
  BY <1>1, WaitsPair DEF Waits
<1> QED
  BY <1>1, <1>2, PairsTcp

\* The pairs that the request r of the peer nominates.
Nominates(s, r) == IF r.uc /\ ~s.ctl THEN {r.path} ELSE {}

LEMMA IncomingTcp ==
    ASSUME NEW s, NEW a \in Agents, NEW r \in Requests, Shape(s), env.tcp, env.lite = {}
    PROVE  TcpHandles(s, checkIncoming(s, a, r), Nominates(s, r))
<1> DEFINE p == r.path
           t == Learned(s, p)
           noted == r.uc /\ ~s.ctl
           u == Started(t, a, p)
           v == Noted(u, p, noted)
           w == Nominated(v, p)
           x == checkIncoming(s, a, r)
           R == Nominates(s, r)
           all == Paths
<1>1. p \in Paths /\ noted \in BOOLEAN /\ a \notin env.lite /\ (noted => p \in R)
  BY DEF Requests, Shape, OtherTypes, Nominates
<1>2. x = IF noted /\ v.pair[p].st = "SUCCEEDED" THEN checkComplete(w, a, p) ELSE v
  BY <1>1, IncomingIs
<1>3. /\ Changed(s, t, {"cands", "pair"}) /\ t.cands \subseteq Paths
      /\ t.pair = [q \in Paths |-> IF q \in {p} THEN Waits(s.pair[q]) ELSE s.pair[q]]
  BY <1>1, LearnedForms
<1>4. Handles(s, t, a, all) /\ Shape(t) /\ InList(t, p) /\ TcpHandles(s, t, R) /\ t.ctl = s.ctl
  <2> DEFINE C == {p}
  <2>1. p \in Paths \intersect C
    BY <1>1
  <2>2. /\ Changed(s, t, {"cands", "pair"}) /\ t.cands \subseteq Paths
        /\ t.pair = [q \in Paths |-> IF q \in C THEN Waits(s.pair[q]) ELSE s.pair[q]]
    BY <1>3
  <2>3. t.ctl = s.ctl
    BY <1>3 DEF Changed, Fields, CheckFields, OtherFields
  <2> HIDE DEF t, p, C, all, R
  <2>4. Handles(s, t, a, all) /\ Shape(t) /\ \A q \in Paths \intersect C : InList(t, q)
    BY <2>2, FormingHandles
  <2>5. TcpHandles(s, t, R)
    BY <2>2, FormingTcp
  <2> QED
    BY <2>1, <2>3, <2>4, <2>5
<1> HIDE DEF t, p, all, R
<1>5. Handles(t, u, a, all) /\ Shape(u) /\ InList(u, p)
  BY <1>1, <1>4, StartedHandles
<1>6. TcpHandles(t, u, R) /\ u.ctl = s.ctl
  <2>1. u.ctl = t.ctl
    BY <1>4, <1>5, HandlesShape DEF OtherFields
  <2>2. ASSUME t.pair[p].st \in {"WAITING", "FAILED"} PROVE TcpHandles(t, u, R)
    <3>1. u = checkStart(t, a, p)
      BY <2>2 DEF Started
    <3> HIDE DEF u
    <3>2. TcpOK(t) => ~HasUc(t, p)
      BY <1>1, <2>2 DEF TcpOK
    <3>3. ~HasUc(t, p) => TcpHandles(t, u, R)
      BY <1>1, <1>4, <3>1, StartTcp
    <3> QED
      BY <3>2, <3>3 DEF TcpHandles
  <2>3. ASSUME t.pair[p].st \notin {"WAITING", "FAILED"} PROVE TcpHandles(t, u, R)
    <3>1. u = t
      BY <2>3 DEF Started
    <3> QED
      BY <3>1, TcpSame
  <2> QED
    BY <1>4, <2>1, <2>2, <2>3
<1> HIDE DEF u
<1>7. TcpHandles(u, v, R) /\ (noted => v.pair[p].rnom)
  BY <1>1, <1>5, <1>6, NotedTcp
<1>8. Shape(v) /\ InList(v, p) /\ v.ctl = s.ctl
  <2>1. MarkHandles(u, v, p)
    BY <1>1, <1>5, NotedMarks
  <2> HIDE DEF v
  <2>2. Handles(u, v, a, all) /\ Shape(v) /\ InList(v, p)
    BY <1>1, <1>5, <2>1, MarkingHandles
  <2> QED
    BY <1>5, <1>6, <2>2, HandlesShape DEF OtherFields
<1>9. TcpHandles(s, v, R)
  BY <1>4, <1>6, <1>7, TcpTrans
<1>10. CASE ~(noted /\ v.pair[p].st = "SUCCEEDED")
  BY <1>2, <1>9, <1>10 DEF R
<1>11. CASE noted /\ v.pair[p].st = "SUCCEEDED"
  <2> HIDE DEF v
  <2>1. TcpHandles(v, w, R)
    BY <1>1, <1>7, <1>8, <1>11, NominatedTcp
  <2>2. Shape(w)
    BY <1>1, <1>8, NominatedMarks, MarkingHandles
  <2>3. x = checkComplete(w, a, p)
    BY <1>2, <1>11
  <2> HIDE DEF w, x, noted
  <2>4. TcpHandles(w, x, R)
    BY <1>1, <2>2, <2>3, CompleteTcp
  <2>5. TcpHandles(s, w, R)
    BY <1>9, <2>1, TcpTrans
  <2>6. TcpHandles(s, x, R)
    BY <2>4, <2>5, TcpTrans
  <2> QED
    BY <2>6 DEF x, R
<1> QED
  BY <1>10, <1>11

\* The early checks, one after the other.
LEMMA ReplayTcp ==
    ASSUME NEW s, NEW a \in Agents, NEW R, Shape(s), env.tcp, env.lite = {},
           \A i \in 1..Len(s.early) : s.early[i].uc /\ ~s.ctl => s.early[i].path \in R
    PROVE  TcpHandles(s, replay(s, a), R)
<1> DEFINE n == Len(s.early)
           all == Paths
<1>1. s.early \in Seq(Requests) /\ n \in Nat /\ \A i \in 1..n : s.early[i] \in Requests
  BY DEF Shape, OtherTypes
<1>2. PICK f : Replays(f, s, a, n) /\ replay(s, a) = f[n]
  BY <1>1, ReplayIs
<1> DEFINE Good(i) == TcpHandles(s, f[i], R) /\ Shape(f[i]) /\ f[i].ctl = s.ctl
           bad == {i \in 0..n : ~Good(i)}
<1>3. bad = {}
  <2> SUFFICES ASSUME bad # {} PROVE FALSE
    OBVIOUS
  <2>1. bad \in SUBSET Nat
    OBVIOUS
  <2>2. PICK m \in bad : \A k \in bad : m <= k
    <3> HIDE DEF bad
    <3> QED
      BY <2>1, LeastNumber
  <2>3. m \in 0..n /\ ~Good(m)
    BY <2>2
  <2>4. f[m] = IF m = 0 THEN s ELSE checkIncoming(f[m - 1], a, s.early[m])
    BY <1>2, <2>3 DEF Replays
  <2>5. CASE m = 0
    BY <2>3, <2>4, <2>5, TcpSame
  <2>6. CASE m # 0
    <3>1. m - 1 \in 0..n /\ ~(m <= m - 1) /\ m \in 1..n
      BY <1>1, <2>3, <2>6
    <3>2. Good(m - 1)
      <4>1. m - 1 \notin bad
        <5> HIDE DEF bad
        <5> QED
          BY <2>2, <3>1
      <4> HIDE DEF Good
      <4> QED
        BY <3>1, <4>1
    <3> DEFINE t == f[m - 1]
               r == s.early[m]
               x == checkIncoming(t, a, r)
    <3>3. TcpHandles(s, t, R) /\ Shape(t) /\ t.ctl = s.ctl /\ r \in Requests
      BY <1>1, <3>1, <3>2
    <3>4. Nominates(t, r) \subseteq R
      BY <3>1, <3>3 DEF Nominates
    <3>5. f[m] = x
      BY <2>4, <2>6
    <3> HIDE DEF t, r
    <3>6. Shape(x) /\ x.ctl = t.ctl
      <4>1. a \in env.lite /\ r.uc => r.path \in all
        OBVIOUS
      <4> HIDE DEF all, x
      <4>2. Handles(t, x, a, all) /\ Shape(x)
        BY <3>3, <4>1, IncomingHandles DEF x
      <4> QED
        BY <3>3, <4>2, HandlesShape DEF OtherFields
    <3>7. TcpHandles(t, x, R)
      BY <3>3, <3>4, IncomingTcp, TcpMore
    <3>8. Good(m)
      BY <3>3, <3>5, <3>6, <3>7, TcpTrans
    <3> QED
      BY <2>3, <3>8
  <2> QED
    BY <2>5, <2>6
<1>4. n \in 0..n
  BY <1>1
<1>5. Good(n)
  <2> HIDE DEF Good
  <2> QED
    BY <1>3, <1>4
<1> QED
  BY <1>2, <1>5

\* The answer to the nomination: the pair is selected at once.
NomineeSelected(s, t, p) ==
    /\ t.ctl = s.ctl /\ t.sel = p /\ t.tx = [s.tx EXCEPT ![p] = NoRequest]
    /\ t.pair[p].nom
    /\ \A q \in Paths : /\ q # p => t.pair[q].nom = s.pair[q].nom
                        /\ t.pair[q].rnom = s.pair[q].rnom
                        /\ s.pair[q].st = "IN_PROGRESS" => t.pair[q].st = "IN_PROGRESS"

LEMMA NomineeTcp ==
    ASSUME NEW s, NEW t, NEW p \in Paths, NEW R, Shape(s), HasUc(s, p), NomineeSelected(s, t, p)
    PROVE  TcpHandles(s, t, R)
<1> SUFFICES ASSUME TcpOK(s)
             PROVE  /\ TcpOK(t)
                    /\ \A q \in Paths : Claim(s, q) => Claim(t, q)
  BY DEF TcpHandles, NomineeSelected
<1>1. s.tx \in [Paths -> MaybeRequest] /\ p # None
  BY PathFacts DEF Shape, CheckTypes
<1>2. s.ctl /\ s.sel = None /\ \A q \in Paths : HasUc(s, q) => q = p
  BY DEF TcpOK
<1>3. t.tx[p] = NoRequest /\ \A q \in Paths : q # p => t.tx[q] = s.tx[q]
  BY <1>1 DEF NomineeSelected
<1>4. \A q \in Paths : ~HasUc(t, q)
  BY <1>2, <1>3 DEF HasUc
<1>5. \A q \in Paths : ~s.pair[q].nom /\ ~s.pair[q].rnom
  BY <1>2, PathFacts DEF TcpOK
<1>6. \A q \in Paths : Claim(s, q) => Claim(t, q)
  BY <1>1, <1>2, PathFacts DEF Claim, NomineeSelected
<1>7. ASSUME NEW q \in Paths, t.tx[q] # NoRequest
      PROVE  /\ t.tx[q].kind \in {"check", "tcpnom"}
             /\ t.tx[q].uc <=> t.tx[q].kind = "tcpnom"
             /\ t.tx[q].uc => t.tx[q].ctl
             /\ ~t.tx[q].uc => t.pair[q].st = "IN_PROGRESS"
  BY <1>3, <1>7 DEF TcpOK, NomineeSelected
<1>8. /\ \A q \in Paths : t.pair[q].nom => IF t.ctl THEN t.sel = q ELSE t.pair[q].rnom
      /\ \A q \in Paths : t.pair[q].rnom => ~t.ctl
      /\ t.sel # None => t.pair[t.sel].nom
  BY <1>2, <1>5 DEF NomineeSelected
<1>9. TcpOK(t)
  BY <1>4, <1>7, <1>8 DEF TcpOK
<1> QED
  BY <1>6, <1>9

\* The answer to a nomination.
LEMMA NominationTcp ==
    ASSUME NEW s, NEW a \in Agents, NEW p \in Paths, NEW R, Shape(s), env.lite = {},
           HasUc(s, p)
    PROVE  TcpHandles(s, checkComplete(SetNominating(Nominated(Cleared(s, p), p), FALSE), a, p), R)
<1> SUFFICES ASSUME TcpOK(s)
             PROVE  TcpHandles(s, checkComplete(SetNominating(Nominated(Cleared(s, p), p), FALSE), a, p), R)
  BY DEF TcpHandles
<1> DEFINE no == FALSE
           all == Paths
           t == Cleared(s, p)
           n == Nominated(t, p)
           o == SetNominating(n, no)
           x == checkComplete(o, a, p)
<1>0. a \notin env.lite /\ no \in BOOLEAN
  OBVIOUS
<1>1. Shape(t) /\ Changed(s, t, {"tx"}) /\ t.tx = [s.tx EXCEPT ![p] = NoRequest]
  <2> HIDE DEF t
  <2> QED
    BY <1>0, ClearedHandles DEF t
<1> HIDE DEF t, no
<1>2. t.pair = s.pair /\ t.ctl = s.ctl /\ t.sel = s.sel
  BY <1>1 DEF Changed, Fields, CheckFields, OtherFields
<1>3. s.pair[p].st = "SUCCEEDED" /\ s.sel = None /\ s.pair \in [Paths -> Pair]
  BY DEF TcpOK, Shape, CheckTypes
<1>4. InList(t, p)
  BY <1>2, <1>3 DEF InList
<1>5. MarkHandles(t, n, p) /\ n.pair[p] = [t.pair[p] EXCEPT !.nom = TRUE]
  BY <1>1, NominatedMarks
<1> HIDE DEF n
<1>6. Shape(n)
  BY <1>1, <1>4, <1>5, MarkingHandles
<1>7. Shape(o) /\ Changed(n, o, {"nominating"})
  <2> HIDE DEF o
  <2> QED
    BY <1>0, <1>6, NominatingHandles DEF o
<1> HIDE DEF o
<1>8. /\ o.ctl = s.ctl /\ o.sel = None /\ o.tx = [s.tx EXCEPT ![p] = NoRequest]
      /\ o.pair = n.pair
  <2>1. n.ctl = t.ctl /\ n.sel = t.sel /\ n.tx = t.tx
    BY <1>5 DEF MarkHandles, Changed, Fields, CheckFields, OtherFields
  <2>2. o.ctl = n.ctl /\ o.sel = n.sel /\ o.tx = n.tx /\ o.pair = n.pair
    BY <1>7 DEF Changed, Fields, CheckFields, OtherFields
  <2> QED
    BY <1>1, <1>2, <1>3, <2>1, <2>2
<1>9. /\ o.pair[p].nom /\ o.pair[p].st = "SUCCEEDED" /\ o.pair[p].rnom = s.pair[p].rnom
      /\ \A q \in Paths : q # p => o.pair[q] = s.pair[q]
  <2>1. \A q \in Paths : q # p => n.pair[q] = t.pair[q]
    BY <1>5 DEF MarkHandles
  <2> QED
    BY <1>2, <1>3, <1>5, <1>8, <2>1 DEF Pair
<1>10. Completes(o, x, a, p)
  <2>1. ~GoesOn(o, x, a, p)
    BY <1>9 DEF GoesOn
  <2> QED
    BY <1>0, <1>7, <2>1, CompleteCases
<1> HIDE DEF x
<1>11. PICK u : u.sel # None /\ (u = o \/ Selects(o, u, a, p)) /\ (x = u \/ Puts(u, x, COMPLETED))
  BY <1>10 DEF Completes
<1>12. Selects(o, u, a, p) /\ Shape(u)
  BY <1>7, <1>8, <1>11, SelectsShape
<1>13. NomineeSelected(s, u, p)
  <2>1. u.ctl = o.ctl /\ u.sel = p /\ u.tx = o.tx /\ PairsEnd(o, u) /\ o.pair \in [Paths -> Pair]
    BY <1>7, <1>12 DEF Selects, Changed, Fields, CheckFields, OtherFields, Shape, CheckTypes
  <2>2. \A q \in Paths : u.pair[q].nom = o.pair[q].nom /\ u.pair[q].rnom = o.pair[q].rnom
    BY <2>1, PairsEndKeeps
  <2>3. \A q \in Paths : o.pair[q].st = "IN_PROGRESS" => u.pair[q].st = "IN_PROGRESS"
    BY <2>1 DEF PairsEnd
  <2>4. /\ \A q \in Paths : s.pair[q].st = "IN_PROGRESS" => u.pair[q].st = "IN_PROGRESS"
        /\ \A q \in Paths : u.pair[q].rnom = s.pair[q].rnom
        /\ \A q \in Paths : q # p => u.pair[q].nom = s.pair[q].nom
    BY <1>3, <1>9, <2>2, <2>3
  <2> QED
    BY <1>8, <1>9, <2>1, <2>2, <2>4 DEF NomineeSelected
<1>14. TcpHandles(s, u, R)
  BY <1>13, NomineeTcp
<1>15. TcpHandles(u, x, R)
  BY <1>11, <1>12, PutTcp, TcpSame
<1> QED
  BY <1>14, <1>15, TcpTrans DEF x, o, n, t, no

LEMMA ClearedTcp ==
    ASSUME NEW s, NEW a \in Agents, NEW p \in Paths, NEW R, Shape(s), env.lite = {},
           s.tx[p].kind # "tcpnom"
    PROVE  LET t == Cleared(s, p)
           IN  /\ TcpHandles(s, t, R) /\ Shape(t) /\ t.tx[p] = NoRequest
               /\ t.ctl = s.ctl /\ t.pair = s.pair
<1> DEFINE t == Cleared(s, p)
           all == Paths
<1>0. a \notin env.lite
  OBVIOUS
<1>1. Shape(t) /\ Changed(s, t, {"tx"}) /\ t.tx = [s.tx EXCEPT ![p] = NoRequest]
  <2> HIDE DEF t
  <2> QED
    BY <1>0, ClearedHandles DEF t
<1> HIDE DEF t
<1>2. \A f \in CoreFields \ {"tx"} : t[f] = s[f]
  BY <1>1 DEF Changed, CoreFields, Fields, CheckFields, OtherFields
<1>3. s.tx \in [Paths -> MaybeRequest]
  BY DEF Shape, CheckTypes
<1>4. CoreKept(s, t) /\ t.tx[p] = NoRequest
  BY <1>1, <1>2, <1>3 DEF CoreKept
<1> QED
  BY <1>1, <1>2, <1>4, CoreTcp DEF CoreFields, t

LEMMA AnsweredTcp ==
    ASSUME NEW s, NEW a \in Agents, NEW r \in Requests, NEW R, Shape(s), env.tcp, env.lite = {},
           s.tx[r.path] = r, r.kind # "consent"
    PROVE  TcpHandles(s, Answered(s, a, r), R)
<1> SUFFICES ASSUME TcpOK(s) PROVE TcpHandles(s, Answered(s, a, r), R)
  BY DEF TcpHandles
<1> DEFINE p == r.path
           t == Cleared(s, p)
           n == Nominated(t, p)
           x == Answered(s, a, r)
<1>1. p \in Paths /\ r # NoRequest
  BY PathFacts DEF Requests
<1>2. r.kind \in {"check", "tcpnom"} /\ (r.uc <=> r.kind = "tcpnom")
  BY <1>1 DEF TcpOK
<1>3. CASE r.kind = "tcpnom"
  <2>1. x = checkComplete(SetNominating(Nominated(Cleared(s, p), p), FALSE), a, p)
    BY <1>3, AnsweredIs
  <2>2. HasUc(s, p)
    BY <1>1, <1>2, <1>3 DEF HasUc
  <2> HIDE DEF p, x
  <2> QED
    BY <1>1, <2>1, <2>2, NominationTcp DEF x
<1>4. CASE r.kind = "check"
  <2>1. Peer(a) \notin env.lite
    OBVIOUS
  <2>2. x = IF s.pair[p].rnom THEN CheckWon(n, a, p) ELSE CheckWon(t, a, p)
    <3>1. ~r.uc
      BY <1>2, <1>4
    <3> QED
      BY <1>4, <2>1, <3>1, AnsweredIs
  <2>3. TcpHandles(s, t, R) /\ Shape(t) /\ t.tx[p] = NoRequest /\ t.ctl = s.ctl /\ t.pair = s.pair
    <3>1. s.tx[p].kind # "tcpnom"
      BY <1>4
    <3> HIDE DEF p, t
    <3> QED
      BY <1>1, <3>1, ClearedTcp DEF t
  <2>4. CASE s.pair[p].rnom
    <3>1. ~t.ctl /\ t.pair[p].rnom
      BY <1>1, <2>3, <2>4 DEF TcpOK
    <3>2. InList(t, p)
      <4>1. t.pair[p].st = "IN_PROGRESS"
        BY <1>1, <1>2, <1>4, <2>3 DEF TcpOK
      <4> QED
        BY <4>1 DEF InList
    <3> HIDE DEF t, p, x
    <3>3. TcpHandles(t, n, R) /\ MarkHandles(t, n, p)
      BY <1>1, <2>3, <3>1, NominatedTcp, NominatedMarks
    <3> HIDE DEF n
    <3>4. Shape(n) /\ n.tx[p] = NoRequest
      <4>1. n.tx = t.tx
        BY <3>3 DEF MarkHandles, Changed, Fields, CheckFields, OtherFields
      <4> QED
        BY <1>1, <2>3, <3>2, <3>3, <4>1, MarkingHandles
    <3>5. TcpHandles(n, CheckWon(n, a, p), R)
      BY <1>1, <3>4, WonTcp
    <3> QED
      BY <2>2, <2>3, <2>4, <3>3, <3>5, TcpTrans DEF x
  <2>5. CASE ~s.pair[p].rnom
    <3> HIDE DEF t, p, x
    <3>1. TcpHandles(t, CheckWon(t, a, p), R)
      BY <1>1, <2>3, WonTcp
    <3> QED
      BY <2>2, <2>3, <2>5, <3>1, TcpTrans DEF x
  <2> QED
    BY <2>4, <2>5
<1> QED
  BY <1>2, <1>3, <1>4

-----------------------------------------------------------------------------
(* The two agents over TCP.                                                  *)

Tcp == env.tcp /\ env.timely /\ env.lite = {} /\ First /\ \A a \in Agents : Live(a)

\* What an agent nominates stays nominated, and its peer never refuses it.
TcpInv ==
    Tcp =>
      /\ \A a \in Agents : TcpOK(agent[a]) /\ agent[a].params
      /\ \A r \in Around : r.uc => r.ctl /\ Claim(agent[r.from], r.path)
      /\ \A a \in Agents : \A p \in Paths :
            agent[a].pair[p].rnom => Claim(agent[Peer(a)], p)
      /\ \A x \in answers : x.req.uc => x.ok

\* Agent a moves to t, and keeps to what it nominated.
KeepsWord(a, t) ==
    /\ agent[a].closing => t.closing
    /\ Tcp =>
         /\ TcpOK(t) /\ t.params
         /\ \A p \in Paths : Claim(agent[a], p) => Claim(t, p)
         /\ \A p \in Paths :
               t.pair[p].rnom => agent[a].pair[p].rnom \/ Claim(agent[Peer(a)], p)

LEMMA TcpBefore ==
    ASSUME BaseInv, NEW a \in Agents, NEW t, NEW W, NEW E, NEW N, NEW X,
           Step(a, t, W, E, N, X), agent[a].closing => t.closing, Tcp'
    PROVE  Tcp
<1>1. /\ agent'[a] = t /\ \A b \in Agents : b # a => agent'[b] = agent[b]
  BY NewAgent DEF BaseInv, Step, Local
<1>2. First
  BY FirstBefore DEF Tcp
<1>3. env.tcp /\ env.timely /\ env.lite = {}
  BY DEF Tcp, Step
<1>4. ASSUME NEW b \in Agents PROVE Live(b)
  <2>1. ~agent'[b].closing
    BY DEF Tcp, Live
  <2> QED
    BY <1>1, <2>1 DEF Live
<1> QED
  BY <1>2, <1>3, <1>4 DEF Tcp

LEMMA TcpStep ==
    ASSUME BaseInv, TcpInv, NEW a \in Agents, NEW t, NEW W, NEW E, NEW N, NEW X,
           Step(a, t, W, E, N, X), KeepsWord(a, t),
           Tcp => (\A r \in N : ~r.uc) /\ (\A x \in X : x.req.uc => x.ok)
    PROVE  TcpInv'
<1>1. /\ agent'[a] = t /\ agent'[Peer(a)] = agent[Peer(a)] /\ Local(t, a)
      /\ \A b \in Agents : b # a => agent'[b] = agent[b]
  BY NewAgent DEF BaseInv, Step, Local
<1> SUFFICES ASSUME Tcp'
             PROVE  /\ \A b \in Agents : TcpOK(agent'[b]) /\ agent'[b].params
                    /\ \A r \in Around' : r.uc => r.ctl /\ Claim(agent'[r.from], r.path)
                    /\ \A b \in Agents : \A p \in Paths :
                          agent'[b].pair[p].rnom => Claim(agent'[Peer(b)], p)
                    /\ \A x \in answers' : x.req.uc => x.ok
  BY DEF TcpInv
<1>2. Tcp
  BY TcpBefore DEF KeepsWord
<1>3. /\ TcpOK(t) /\ t.params
      /\ \A p \in Paths : Claim(agent[a], p) => Claim(t, p)
      /\ \A p \in Paths : t.pair[p].rnom => agent[a].pair[p].rnom \/ Claim(agent[Peer(a)], p)
      /\ \A r \in N : ~r.uc
      /\ \A x \in X : x.req.uc => x.ok
  BY <1>2 DEF KeepsWord
<1>4. /\ \A b \in Agents : TcpOK(agent[b]) /\ agent[b].params
      /\ \A r \in Around : r.uc => r.ctl /\ Claim(agent[r.from], r.path)
      /\ \A b \in Agents : \A p \in Paths :
            agent[b].pair[p].rnom => Claim(agent[Peer(b)], p)
      /\ \A x \in answers : x.req.uc => x.ok
  BY <1>2 DEF TcpInv
<1>5. \A b \in Agents : TcpOK(agent'[b]) /\ agent'[b].params
  BY <1>1, <1>3, <1>4
<1>6. \A b \in Agents : \A p \in Paths : Claim(agent[b], p) => Claim(agent'[b], p)
  BY <1>1, <1>3
<1>7. ASSUME NEW r \in Around', r.uc PROVE r.ctl /\ Claim(agent'[r.from], r.path)
  <2>1. CASE r \in Around
    <3>1. r.from \in Agents /\ r.path \in Paths
      BY <2>1, AroundRequests DEF Requests
    <3> QED
      BY <1>4, <1>6, <1>7, <2>1, <3>1
  <2>2. CASE r \in SentOn(t)
    <3>1. PICK p \in Paths : r = t.tx[p] /\ r # NoRequest
      BY <2>2 DEF SentOn
    <3>2. r.from = a /\ r.path = p
      BY <1>1, <3>1 DEF Local
    <3>3. HasUc(t, p)
      BY <1>7, <3>1 DEF HasUc
    <3>4. t.ctl /\ r.ctl
      BY <1>3, <1>7, <3>1, <3>3 DEF TcpOK
    <3> QED
      BY <1>1, <3>2, <3>3, <3>4 DEF Claim
  <2>3. CASE r \in N
    BY <1>3, <1>7, <2>3
  <2> QED
    BY <2>1, <2>2, <2>3, AroundAfter
<1>8. ASSUME NEW b \in Agents, NEW p \in Paths, agent'[b].pair[p].rnom
      PROVE  Claim(agent'[Peer(b)], p)
  <2>1. CASE b = a
    BY <1>1, <1>3, <1>4, <1>8, <2>1
  <2>2. CASE b # a
    <3>1. agent[b].pair[p].rnom /\ Peer(b) \in Agents
      BY <1>1, <1>8, <2>2, PeerFacts
    <3> QED
      BY <1>4, <1>6, <3>1
  <2> QED
    BY <2>1, <2>2
<1>9. \A x \in answers' : x.req.uc => x.ok
  BY <1>3, <1>4 DEF Step
<1> QED
  BY <1>5, <1>7, <1>8, <1>9

\* A step that handles checks.
LEMMA HandledWord ==
    ASSUME BaseInv, TcpInv, NEW a \in Agents, NEW t, NEW R,
           t.params = agent[a].params, t.closing = agent[a].closing,
           Tcp => TcpHandles(agent[a], t, R) /\ \A p \in R : Claim(agent[Peer(a)], p)
    PROVE  KeepsWord(a, t)
BY DEF KeepsWord, TcpHandles, TcpInv

LEMMA QuietTcp ==
    ASSUME BaseInv, TcpInv, NEW a \in Agents, NEW t, NEW N, Quiet(a, t, N), KeepsWord(a, t),
           Tcp => \A r \in N : ~r.uc
    PROVE  TcpInv'
<1> DEFINE none == {}
<1>1. Step(a, t, none, none, N, none) /\ \A x \in none : FALSE
  BY DEF Quiet
<1> HIDE DEF none
<1> QED
  BY <1>1, TcpStep

LEMMA CoreQuietTcp ==
    ASSUME BaseInv, TcpInv, NEW a \in Agents, NEW t, NEW N, Quiet(a, t, N),
           CoreSame(agent[a], t) \/ CoreKept(agent[a], t), Tcp => \A r \in N : ~r.uc
    PROVE  TcpInv'
<1> DEFINE none == {}
<1>1. CoreKept(agent[a], t)
  BY DEF CoreSame, CoreKept, CoreFields
<1>2. t.params = agent[a].params /\ t.closing = agent[a].closing
  BY <1>1 DEF CoreKept, CoreFields
<1>3. TcpHandles(agent[a], t, none) /\ \A p \in none : Claim(agent[Peer(a)], p)
  <2>1. \A p \in none : Claim(agent[Peer(a)], p)
    OBVIOUS
  <2> HIDE DEF none
  <2> QED
    BY <1>1, <2>1, CoreTcp
<1> HIDE DEF none
<1> QED
  BY <1>2, <1>3, HandledWord, QuietTcp

LEMMA NotTcp ==
    ASSUME ~Tcp'
    PROVE  TcpInv'
BY DEF TcpInv

LEMMA CloseTcp ==
    ASSUME BaseInv, NEW a \in Agents, NEW t, Quiet(a, t, {}), Closes(agent[a], t)
    PROVE  TcpInv'
<1>1. agent'[a] = t
  BY NewAgent DEF BaseInv, Quiet, Step, Local
<1>2. ~Live(a)'
  BY <1>1 DEF Live, Closes
<1> QED
  BY <1>2, NotTcp DEF Tcp

LEMMA RestartTcp ==
    ASSUME BaseInv, NEW a \in Agents, NEW t, Restarts(a, t)
    PROVE  TcpInv'
<1>1. /\ agent'[a] = t /\ t.gen > agent[a].gen /\ agent[a].gen \in Nat /\ t.gen \in Nat
  <2>1. agent'[a] = t
    BY NewAgent DEF BaseInv, Restarts, Local
  <2>2. Shape(agent[a]) /\ Shape(t)
    BY ActorFacts DEF Restarts, Local
  <2> QED
    BY <2>1, <2>2 DEF Restarts, Shape, OtherTypes
<1>2. agent'[a].gen # 0
  BY <1>1
<1>3. ~First'
  BY <1>2 DEF First, Agents
<1> QED
  BY <1>3, NotTcp DEF Tcp

\* A step of one agent that handles checks, and hears of no nomination.
LEMMA QuietHandlesTcp ==
    ASSUME BaseInv, TcpInv, NEW a \in Agents, NEW t, Quiet(a, t, {}),
           t.params = agent[a].params, t.closing = agent[a].closing,
           Tcp => TcpHandles(agent[a], t, {})
    PROVE  TcpInv'
<1> DEFINE none == {}
<1>1. /\ Quiet(a, t, none) /\ (Tcp => TcpHandles(agent[a], t, none))
      /\ \A p \in none : FALSE
  OBVIOUS
<1> HIDE DEF none
<1>2. KeepsWord(a, t)
  BY <1>1, HandledWord
<1> QED
  BY <1>1, <1>2, QuietTcp

LEMMA AddTcp ==
    ASSUME BaseInv, TcpInv, NEW a \in Agents, NEW p \in Paths, addRemoteCandidate(a, p)
    PROVE  TcpInv'
<1> DEFINE t == Learned(agent[a], p)
           C == {p}
           none == {}
<1>1. Quiet(a, t, {}) /\ Shape(agent[a])
  BY AddStep, ActorFacts
<1>2. /\ Changed(agent[a], t, {"cands", "pair"})
      /\ t.pair = [q \in Paths |-> IF q \in C THEN Waits(agent[a].pair[q]) ELSE agent[a].pair[q]]
  BY <1>1, LearnedForms
<1> HIDE DEF t, C
<1>3. TcpHandles(agent[a], t, none)
  <2> HIDE DEF none
  <2> QED
    BY <1>1, <1>2, FormingTcp
<1>4. t.params = agent[a].params /\ t.closing = agent[a].closing
  BY <1>2 DEF Changed, Fields, CheckFields, OtherFields
<1> QED
  BY <1>1, <1>3, <1>4, QuietHandlesTcp

LEMMA SchedulingTcp ==
    ASSUME BaseInv, TcpInv, NEW a \in Agents, schedulingChecks(a)
    PROVE  TcpInv'
<1> DEFINE s == agent[a]
           none == {}
<1>1. PICK p \in Paths : /\ Quiet(a, checkStart(s, a, p), {}) /\ s.pair[p].st = "WAITING"
                         /\ a \notin env.lite /\ Local(s, a)
  BY SchedulingStep
<1> DEFINE t == checkStart(s, a, p)
<1>2. Changed(s, t, {"pair", "tx", "sent"})
  <2> HIDE DEF s
  <2> QED
    BY <1>1, StartHandles DEF Local
<1>3. t.params = s.params /\ t.closing = s.closing
  <2> HIDE DEF s, t
  <2> QED
    BY <1>2 DEF Changed, Fields, CheckFields, OtherFields
<1>4. ASSUME Tcp PROVE TcpHandles(s, t, none)
  <2>1. TcpOK(s) /\ env.tcp /\ env.lite = {}
    BY <1>4 DEF TcpInv, Tcp
  <2> HIDE DEF s, none
  <2>2. ~HasUc(s, p)
    BY <1>1, <2>1 DEF TcpOK
  <2> QED
    BY <1>1, <2>1, <2>2, StartTcp DEF Local
<1> HIDE DEF t
<1> QED
  BY <1>1, <1>3, <1>4, QuietHandlesTcp DEF t

LEMMA TimeoutTcp ==
    ASSUME BaseInv, NEW a \in Agents, NEW p \in Paths, timeout(a, p)
    PROVE  TcpInv'
<1>1. ~env.timely /\ \E t : Quiet(a, t, {})
  BY TimeoutStep
<1>2. env'.timely = env.timely
  BY <1>1 DEF Quiet, Step
<1> QED
  BY <1>1, <1>2, NotTcp DEF Tcp

LEMMA ConsentRequestTcp ==
    ASSUME BaseInv, TcpInv, NEW a \in Agents, consentRequest(a)
    PROVE  TcpInv'
<1>1. PICK t, N : /\ Quiet(a, t, N) /\ CoreSame(agent[a], t)
                  /\ \A r \in N : r.uc => Peer(a) \in env.lite
  BY ConsentRequestStep
<1>2. Tcp => \A r \in N : ~r.uc
  BY <1>1 DEF Tcp
<1> QED
  BY <1>1, <1>2, CoreQuietTcp

\* In the first generation nobody needs the peer's description.
LEMMA ParamsTcp ==
    ASSUME BaseInv, TcpInv, NEW a \in Agents, setRemoteParams(a)
    PROVE  TcpInv'
<1>1. PICK t : (Quiet(a, t, {}) /\ t.closing = agent[a].closing) \/ Restarts(a, t)
  BY ParamsStep
<1>2. CASE Restarts(a, t)
  BY <1>2, RestartTcp
<1>3. CASE Quiet(a, t, {}) /\ t.closing = agent[a].closing
  <2> DEFINE none == {}
  <2>1. Step(a, t, none, none, none, none)
    BY <1>3 DEF Quiet
  <2> HIDE DEF none
  <2>2. Tcp' => Tcp
    BY <1>3, <2>1, TcpBefore
  <2>3. Tcp => agent[a].params /\ First
    BY DEF TcpInv, Tcp
  <2>4. ~(agent[a].params /\ First)
    <3>1. a = "A" \/ a = "B"
      BY DEF Agents
    <3>2. /\ agent[a].gen < agent[Peer(a)].gen
             \/ (agent[a].gen = agent[Peer(a)].gen /\ ~agent[a].params)
      BY DEF setRemoteParams
    <3> QED
      BY <3>1, <3>2 DEF First, Peer
  <2> QED
    BY <2>2, <2>3, <2>4, NotTcp
<1> QED
  BY <1>1, <1>2, <1>3

\* Nominations that reach agent a are claims of its peer.
LEMMA NominationKnown ==
    ASSUME BaseInv, TcpInv, Tcp, NEW r \in Around, r.uc
    PROVE  /\ r.ctl /\ r.from \in Agents /\ r.path \in Paths /\ Claim(agent[r.from], r.path)
           /\ agent[r.from].ctl
<1>1. r \in Requests
  BY AroundRequests
<1> QED
  BY <1>1 DEF TcpInv, Requests, Claim

LEMMA ConnectTcp ==
    ASSUME BaseInv, TcpInv, NEW a \in Agents, connect(a)
    PROVE  TcpInv'
<1> DEFINE s == agent[a]
           R == {p \in Paths : Claim(agent[Peer(a)], p)}
           none == {}
<1>1. PICK t, W : /\ Step(a, t, W, {}, {}, {}) /\ t.ctl = s.ctl /\ Replayed(s, t, a)
  BY ConnectStep
<1>2. Local(s, a) /\ Shape(s)
  BY ActorFacts
<1>3. PICK u, x : /\ Shape(u) /\ Changed(s, u, {"cands", "pair"}) /\ u.early = s.early
                  /\ u.pair = [q \in Paths |-> IF q \in s.cands THEN Waits(s.pair[q]) ELSE s.pair[q]]
                  /\ x = replay(u, a) /\ Shape(x) /\ Changed(x, t, {"early", "earlyDone", "phase"})
  BY <1>1 DEF Replayed
<1>4. t.params = s.params /\ t.closing = s.closing
  BY <1>1 DEF Replayed
<1>5. ASSUME Tcp PROVE TcpHandles(s, t, R)
  <2>1. TcpHandles(s, u, R)
    <3> DEFINE C == s.cands
    <3>1. u.pair = [q \in Paths |-> IF q \in C THEN Waits(s.pair[q]) ELSE s.pair[q]]
      BY <1>3
    <3> HIDE DEF s, C, R
    <3> QED
      BY <1>2, <1>3, <3>1, FormingTcp
  <2>2. TcpHandles(u, x, R)
    <3>1. \A i \in 1..Len(u.early) : u.early[i].uc /\ ~u.ctl => u.early[i].path \in R
      <4> SUFFICES ASSUME NEW i \in 1..Len(s.early), s.early[i].uc
                   PROVE  s.early[i].path \in R
        BY <1>3
      <4> DEFINE r == s.early[i]
      <4>1. r \in Around /\ r.from = Peer(a)
        BY <1>2, EarlyIn DEF EarlyOf, Local
      <4>2. r.path \in Paths /\ Claim(agent[r.from], r.path)
        <5> HIDE DEF r
        <5> QED
          BY <1>5, <4>1, NominationKnown DEF r
      <4> QED
        BY <4>1, <4>2
    <3>2. env.tcp /\ env.lite = {}
      BY <1>5 DEF Tcp
    <3> HIDE DEF R
    <3> QED
      BY <1>3, <3>1, <3>2, ReplayTcp
  <2>3. TcpHandles(x, t, R)
    <3>1. /\ t.ctl = x.ctl /\ t.pair = x.pair /\ t.tx = x.tx /\ t.sel = x.sel
          /\ t.nominating = x.nominating /\ x.sel \in Paths \union {None}
      BY <1>3 DEF Changed, Fields, CheckFields, OtherFields, Shape, CheckTypes
    <3> HIDE DEF R
    <3> QED
      BY <3>1, PairsTcp
  <2> HIDE DEF s, R
  <2> QED
    BY <2>1, <2>2, <2>3, TcpTrans
<1>6. \A p \in R : Claim(agent[Peer(a)], p)
  OBVIOUS
<1> HIDE DEF R
<1>7. KeepsWord(a, t)
  BY <1>4, <1>5, <1>6, HandledWord
<1>8. Step(a, t, W, none, none, none) /\ \A y \in none : FALSE
  BY <1>1
<1> HIDE DEF none, s
<1> QED
  BY <1>7, <1>8, TcpStep

\* While both agents believe in the same role, nothing is nominated.
LEMMA AlikeTcp ==
    ASSUME BaseInv, RolesInv, TcpInv, Tcp, agent["A"].ctl = agent["B"].ctl, NEW a \in Agents
    PROVE  /\ agent[a].sel = None /\ \A p \in Paths : /\ ~HasUc(agent[a], p)
                                                      /\ ~Claim(agent[a], p)
                                                      /\ ~agent[a].pair[p].rnom
                                                      /\ ~agent[a].pair[p].nom
<1>1. ASSUME NEW b \in Agents
      PROVE  agent[b].sel = None /\ \A p \in Paths : ~HasUc(agent[b], p) /\ ~Claim(agent[b], p)
  <2>1. Blank(agent[b])
    BY AlikeBlank DEF Tcp
  <2>2. TcpOK(agent[b])
    BY DEF TcpInv
  <2>3. \A p \in Paths : ~HasUc(agent[b], p)
    BY <2>1, <2>2 DEF Blank, TcpOK
  <2> QED
    BY <2>1, <2>3, PathFacts DEF Blank, Claim
<1>2. \A p \in Paths : ~agent[a].pair[p].rnom
  BY <1>1, PeerFacts DEF TcpInv
<1>3. TcpOK(agent[a])
  BY DEF TcpInv
<1>4. \A p \in Paths : ~agent[a].pair[p].nom
  BY <1>1, <1>2, <1>3, PathFacts DEF TcpOK
<1> QED
  BY <1>1, <1>2, <1>4

\* An agent that changes its role has nothing to take back.
LEMMA RoleTcp ==
    ASSUME BaseInv, RolesInv, TcpInv, Tcp, NEW a \in Agents, NEW v,
           Changed(agent[a], v, {"ctl"}),
           v.ctl # agent[a].ctl => agent["A"].ctl = agent["B"].ctl
    PROVE  /\ TcpOK(v) /\ \A p \in Paths : Claim(agent[a], p) => Claim(v, p)
           /\ v.pair = agent[a].pair
<1> DEFINE s == agent[a]
<1>1. /\ v.pair = s.pair /\ v.tx = s.tx /\ v.sel = s.sel /\ v.nominating = s.nominating
  BY DEF Changed, Fields, CheckFields, OtherFields
<1>2. \A p \in Paths : HasUc(v, p) <=> HasUc(s, p)
  BY <1>1 DEF HasUc
<1>3. TcpOK(s)
  BY DEF TcpInv
<1>4. CASE v.ctl = s.ctl
  <2>1. TcpOK(v)
    <3> HIDE DEF s
    <3> QED
      BY <1>1, <1>2, <1>3, <1>4 DEF TcpOK
  <2> QED
    BY <1>1, <1>2, <1>4, <2>1 DEF Claim
<1>5. CASE v.ctl # s.ctl
  <2>1. /\ s.sel = None /\ \A p \in Paths : /\ ~HasUc(s, p) /\ ~Claim(s, p)
                                            /\ ~s.pair[p].rnom /\ ~s.pair[p].nom
    BY <1>5, AlikeTcp
  <2>2. TcpOK(v)
    <3> HIDE DEF s
    <3> QED
      BY <1>1, <1>2, <1>3, <2>1 DEF TcpOK
  <2> QED
    BY <1>1, <2>1, <2>2
<1> QED
  BY <1>4, <1>5

\* What an agent does in its role keeps to what it nominated.
LEMMA RoledWord ==
    ASSUME BaseInv, RolesInv, TcpInv, NEW a \in Agents, NEW v, NEW t, NEW R,
           t.params = agent[a].params, t.closing = agent[a].closing,
           Changed(agent[a], v, {"ctl"}),
           First /\ v.ctl # agent[a].ctl => agent["A"].ctl = agent["B"].ctl,
           Tcp => TcpHandles(v, t, R) /\ \A p \in R : Claim(agent[Peer(a)], p)
    PROVE  KeepsWord(a, t)
<1>1. ASSUME Tcp
      PROVE  /\ TcpOK(t) /\ t.params
             /\ \A p \in Paths : Claim(agent[a], p) => Claim(t, p)
             /\ \A p \in Paths :
                   t.pair[p].rnom => agent[a].pair[p].rnom \/ Claim(agent[Peer(a)], p)
  <2>1. /\ TcpOK(v) /\ v.pair = agent[a].pair
        /\ \A p \in Paths : Claim(agent[a], p) => Claim(v, p)
    BY <1>1, RoleTcp DEF Tcp
  <2>2. agent[a].params
    BY <1>1 DEF TcpInv
  <2> QED
    BY <1>1, <2>1, <2>2 DEF TcpHandles
<1> QED
  BY <1>1 DEF KeepsWord

LEMMA KeepsTcp ==
    ASSUME NEW v, NEW r, NEW R, Shape(v)
    PROVE  TcpHandles(v, Keeps(v, r), R)
<1> DEFINE t == Keeps(v, r)
<1>1. \A f \in Fields \ {"early"} : t[f] = v[f]
  BY DEF Keeps, Shape, IsRecord, Fields, CheckFields, OtherFields
<1> HIDE DEF t
<1>2. /\ t.ctl = v.ctl /\ t.pair = v.pair /\ t.tx = v.tx /\ t.sel = v.sel
      /\ t.nominating = v.nominating /\ v.sel \in Paths \union {None}
  BY <1>1 DEF Fields, CheckFields, OtherFields, Shape, CheckTypes
<1> QED
  BY <1>2, PairsTcp DEF t

LEMMA ReceivedTcp ==
    ASSUME NEW s, NEW a \in Agents, NEW r \in Requests, Local(s, a), env.tcp, env.lite = {}
    PROVE  TcpHandles(Reroled(s, a, r), Received(s, a, r), Nominates(Reroled(s, a, r), r))
<1> DEFINE v == Reroled(s, a, r)
           t == Received(s, a, r)
           R == Nominates(v, r)
<1>1. Shape(v)
  <2>1. Changed(s, v, {"ctl"}) /\ v.ctl \in BOOLEAN
    BY ReroledIs
  <2> HIDE DEF v
  <2>2. Local(v, a)
    BY <2>1, RoleMoves
  <2> QED
    BY <2>2 DEF Local
<1>2. CASE t = v
  BY <1>2, TcpSame
<1>3. CASE t = Keeps(v, r)
  BY <1>1, <1>3, KeepsTcp
<1>4. CASE t = checkIncoming(v, a, r)
  BY <1>1, <1>4, IncomingTcp
<1>5. t = v \/ t = Keeps(v, r) \/ t = checkIncoming(v, a, r)
  BY DEF Received
<1> QED
  BY <1>2, <1>3, <1>4, <1>5

LEMMA RequestTcp ==
    ASSUME BaseInv, RolesInv, TcpInv, NEW a \in Agents, NEW r \in net, requestReceived(a, r)
    PROVE  TcpInv'
<1> DEFINE s == agent[a]
           clash == RoleConflict(s, a, r)
           v == Reroled(s, a, r)
           u == Received(s, a, r)
           R == Nominates(v, r)
           none == {}
<1>1. /\ r.from = Peer(a)
      /\ \E t, W, E, X : /\ Step(a, t, W, E, {}, X) /\ t.ctl = v.ctl
                         /\ clash \in {"refuse", "claim"} => W = {} /\ E = {}
                         /\ \A x \in X : x.req = r /\ clash # "claim" /\ (x.ok <=> clash # "refuse")
  BY RequestStep
<1>2. PICK t, W, E, X : /\ Step(a, t, W, E, {}, X)
                        /\ \A x \in X : x.req = r /\ (x.ok <=> clash # "refuse")
  BY <1>1
<1>3. Local(s, a) /\ r \in Around /\ r \in Requests
  BY ActorFacts, AroundRequests DEF Around
<1>4. /\ Changed(s, v, {"ctl"}) /\ v.ctl \in BOOLEAN
      /\ v.ctl # s.ctl => clash \in {"yield", "claim"}
  BY <1>3, ReroledIs
<1>5. u.params = s.params /\ u.closing = s.closing
  <2> DEFINE W0 == Paths
             E0 == {r}
  <2>1. RoleConflict(s, a, r) \notin {"refuse", "claim"} =>
               r \in E0 /\ (a \in env.lite => r.path \in W0)
    BY <1>3 DEF Requests
  <2> HIDE DEF W0, E0, s
  <2> QED
    BY <1>1, <1>3, <2>1, ReceivedMoves
<1>6. t = u
  <2>1. agent' = [agent EXCEPT ![a] = u] /\ agent' = [agent EXCEPT ![a] = t]
    BY <1>2, RequestIs DEF Step
  <2> HIDE DEF u
  <2>2. a \in DOMAIN agent
    BY DEF BaseInv, Typed
  <2> QED
    BY <2>1, <2>2
<1>7. First /\ v.ctl # s.ctl => agent["A"].ctl = agent["B"].ctl
  BY <1>1, <1>3, <1>4, ClashAlike
<1>8. ASSUME Tcp PROVE TcpHandles(v, u, R) /\ \A p \in R : Claim(agent[Peer(a)], p)
  <2>1. TcpHandles(v, u, R)
    BY <1>3, <1>8, ReceivedTcp DEF Tcp
  <2>2. R # {} => R = {r.path} /\ r.uc
    BY DEF Nominates
  <2>3. r.uc => Claim(agent[Peer(a)], r.path)
    BY <1>1, <1>3, <1>8, NominationKnown
  <2> QED
    BY <2>1, <2>2, <2>3
<1> HIDE DEF R, v, u
<1>9. KeepsWord(a, t)
  BY <1>4, <1>5, <1>6, <1>7, <1>8, RoledWord
<1>10. ASSUME Tcp, r.uc PROVE clash # "refuse"
  <2> SUFFICES ASSUME clash = "refuse" PROVE FALSE
    OBVIOUS
  <2>1. /\ r.ctl /\ Claim(agent[Peer(a)], r.path) /\ agent[Peer(a)].ctl /\ r.path \in Paths
    BY <1>1, <1>3, <1>10, NominationKnown
  <2>2. s.ctl
    <3> HIDE DEF s
    <3> QED
      BY <2>1 DEF RoleConflict
  <2>3. agent["A"].ctl = agent["B"].ctl
    <3>1. a = "A" \/ a = "B"
      BY DEF Agents
    <3> QED
      BY <2>1, <2>2, <3>1, BothBoolean DEF Peer
  <2>4. ~Claim(agent[Peer(a)], r.path)
    BY <1>10, <2>1, <2>3, AlikeTcp, PeerFacts
  <2> QED
    BY <2>1, <2>4
<1>11. Step(a, t, W, E, none, X) /\ \A y \in none : FALSE
  BY <1>2
<1> HIDE DEF none, clash
<1>12. Tcp => \A x \in X : x.req.uc => x.ok
  BY <1>2, <1>10
<1> QED
  BY <1>9, <1>11, <1>12, TcpStep

LEMMA ResponseTcp ==
    ASSUME BaseInv, RolesInv, TcpInv, NEW a \in Agents, NEW x \in answers, responseReceived(a, x)
    PROVE  TcpInv'
<1> DEFINE s == agent[a]
           r == x.req
           p == r.path
           waits == s.tx[p] = r /\ p \in s.open
           u == IF waits THEN Heard(s, a, x) ELSE s
           none == {}
<1>1. PICK t, W : Step(a, t, W, {}, {}, {})
  BY ResponseStep
<1>2. /\ Local(s, a) /\ r \in Requests /\ x.ok \in BOOLEAN /\ p \in Paths /\ r # NoRequest
      /\ r.ctl \in BOOLEAN /\ s.tx \in [Paths -> MaybeRequest]
  <2>1. x \in [req : Requests, ok : BOOLEAN] /\ Local(s, a)
    BY ActorFacts DEF BaseInv, Typed
  <2>2. r \in Requests /\ x.ok \in BOOLEAN
    BY <2>1
  <2> QED
    BY <2>1, <2>2, PathFacts DEF Requests, Local, Shape, CheckTypes
<1>3. agent' = [agent EXCEPT ![a] = u] /\ r.from = a /\ r.kind # "consent"
  BY ResponseIs
<1>4. t = u
  <2>1. agent' = [agent EXCEPT ![a] = t]
    BY <1>1 DEF Step
  <2> HIDE DEF u
  <2>2. a \in DOMAIN agent
    BY DEF BaseInv, Typed
  <2> QED
    BY <1>3, <2>1, <2>2
<1>5. Step(a, t, W, none, none, none) /\ \A y \in none : FALSE
  BY <1>1
<1>6. u.params = s.params /\ u.closing = s.closing
  <2>1. CASE waits
    <3> DEFINE all == Paths
    <3>1. x.ok => x.req.path \in all
      BY <1>2
    <3>2. s.tx[x.req.path] = x.req /\ u = Heard(s, a, x)
      BY <2>1
    <3>3. Local(s, a) /\ x.req \in Requests /\ x.req.kind # "consent"
      BY <1>2, <1>3
    <3> HIDE DEF s, u, all, r, p
    <3>4. u.params /\ s.params /\ u.closing = s.closing
      BY <1>2, <3>1, <3>2, <3>3, HeardMoves
    <3>5. s.params \in BOOLEAN /\ u.params \in BOOLEAN
      <4>1. Local(u, a)
        BY <1>2, <3>1, <3>2, <3>3, HeardMoves
      <4> QED
        BY <3>3, <4>1 DEF Local, Shape, OtherTypes
    <3> QED
      BY <3>4, <3>5
  <2>2. CASE ~waits
    BY <2>2
  <2> QED
    BY <2>1, <2>2
<1>7. TcpHandles(s, s, none)
  BY TcpSame
<1>8. CASE ~waits
  <2>1. u = s
    BY <1>8
  <2> HIDE DEF none, u, s
  <2>2. KeepsWord(a, t)
    BY <1>4, <1>5, <1>6, <1>7, <2>1, HandledWord DEF s
  <2> QED
    BY <1>5, <2>2, TcpStep
<1>9. CASE waits /\ x.ok
  <2>1. u = Answered(s, a, r) /\ s.tx[r.path] = r
    BY <1>9 DEF Heard
  <2>2. Tcp => TcpHandles(s, u, none)
    <3> HIDE DEF s, u, none, r
    <3> QED
      BY <1>2, <1>3, <2>1, AnsweredTcp DEF Tcp, Local, r
  <2> HIDE DEF none, u, s
  <2>3. KeepsWord(a, t)
    BY <1>4, <1>5, <1>6, <2>2, HandledWord DEF s
  <2> QED
    BY <1>5, <2>3, TcpStep
<1>10. CASE waits /\ ~x.ok
  <2>1. ASSUME Tcp PROVE r.kind = "check" /\ ~HasUc(s, p)
    <3>1. ~r.uc
      BY <1>10, <2>1 DEF TcpInv
    <3>2. TcpOK(s)
      BY <2>1 DEF TcpInv
    <3>3. r.kind \in {"check", "tcpnom"} /\ (r.uc <=> r.kind = "tcpnom") /\ ~HasUc(s, p)
      <4>1. s.tx[p] = r
        BY <1>10
      <4> HIDE DEF s, p, r
      <4> QED
        BY <1>2, <3>1, <3>2, <4>1 DEF TcpOK, HasUc
    <3> QED
      BY <3>1, <3>3
  <2>2. CASE Tcp
    <3> DEFINE ctl == ~r.ctl
               v == switchRole(s, a, ctl)
    <3>1. ctl \in BOOLEAN /\ u = checkStart(v, a, p)
      BY <1>10, <2>1, <2>2 DEF Heard
    <3>2. a \notin env.lite /\ env.lite = {} /\ env.tcp /\ First
      BY <2>2 DEF Tcp
    <3>3. Changed(s, v, {"ctl"}) /\ v.ctl = ctl
      <4> HIDE DEF ctl, s
      <4> QED
        BY <1>2, <3>1, <3>2, SwitchIs DEF Local
    <3>4. v.ctl # s.ctl => agent["A"].ctl = agent["B"].ctl
      <4> SUFFICES ASSUME v.ctl # s.ctl PROVE agent["A"].ctl = agent["B"].ctl
        OBVIOUS
      <4>1. s.ctl # ~r.ctl
        BY <3>3
      <4> QED
        BY <1>3, <1>10, <3>2, <4>1, RefusedAlike
    <3> HIDE DEF v
    <3>5. Shape(v)
      <4>1. v.ctl \in BOOLEAN
        BY <3>1, <3>3
      <4> HIDE DEF s
      <4>2. Local(v, a)
        BY <1>2, <3>3, <4>1, RoleMoves
      <4> QED
        BY <4>2 DEF Local
    <3>6. ~HasUc(v, p)
      <4>1. v.tx = s.tx
        BY <3>3 DEF Changed, Fields, CheckFields
      <4> QED
        BY <2>1, <2>2, <4>1 DEF HasUc
    <3>7. TcpHandles(v, u, none)
      <4> HIDE DEF u, p, none
      <4> QED
        BY <1>2, <3>1, <3>2, <3>5, <3>6, StartTcp
    <3> HIDE DEF none, u
    <3>8. KeepsWord(a, t)
      BY <1>4, <1>5, <1>6, <3>3, <3>4, <3>7, RoledWord
    <3> QED
      BY <1>5, <3>8, TcpStep
  <2>3. CASE ~Tcp
    <3>1. agent[a].closing => t.closing
      BY <1>4, <1>6
    <3> HIDE DEF none
    <3> QED
      BY <1>5, <2>3, <3>1, TcpBefore, NotTcp
  <2> QED
    BY <2>2, <2>3
<1> QED
  BY <1>2, <1>8, <1>9, <1>10

LEMMA InitTcp == Init => TcpInv
<1> SUFFICES ASSUME Init PROVE TcpInv
  OBVIOUS
<1>0. PICK c \in Scenarios :
        /\ env = [lite |-> c.lite, tcp |-> c.tcp, timeouts |-> c.timeouts,
              losses |-> c.losses, restarters |-> c.restarters,
              closers |-> c.closers, consents |-> c.consents,
              trickle |-> c.trickle, used |-> c.paths, timely |-> c.timeouts = 0]
        /\ agent = [a \in Agents |-> FirstAgent(c, a)] /\ net = {} /\ answers = {}
  BY DEF Init, FirstAgent
<1>1. /\ env.lite = c.lite /\ agent = [a \in Agents |-> FirstAgent(c, a)] /\ net = {}
      /\ answers = {}
  BY <1>0
<1>2. c.paths \in SUBSET Paths
  BY IceAssumption
<1>3. ASSUME NEW a \in Agents
      PROVE  /\ EarlyOf(agent[a]) = {} /\ TcpOK(agent[a]) /\ agent[a].params
             /\ \A p \in Paths : ~agent[a].pair[p].rnom
  <2> DEFINE t == FirstAgent(c, a)
  <2>1. agent[a] = t
    BY <1>1
  <2>2. /\ t.params /\ t.sel = None /\ EarlyOf(t) = {}
        /\ \A p \in Paths : /\ ~t.pair[p].nom /\ ~t.pair[p].rnom /\ t.tx[p] = NoRequest
    BY <1>1, <1>2, FirstFacts
  <2> HIDE DEF t
  <2> QED
    BY <2>1, <2>2 DEF TcpOK, HasUc
<1>4. Around = {}
  BY <1>1, <1>3 DEF Around, Agents
<1> QED
  BY <1>1, <1>3, <1>4 DEF TcpInv

LEMMA NextTcp == BaseInv /\ RolesInv /\ TcpInv /\ [Next]_vars => TcpInv'
<1> SUFFICES ASSUME BaseInv, RolesInv, TcpInv, [Next]_vars PROVE TcpInv'
  OBVIOUS
<1> DEFINE none == {}
<1>1. ASSUME NEW a \in Agents, NEW t, Quiet(a, t, none),
             CoreSame(agent[a], t) \/ CoreKept(agent[a], t)
      PROVE  TcpInv'
  <2>1. Tcp => \A r \in none : ~r.uc
    OBVIOUS
  <2> HIDE DEF none
  <2> QED
    BY <1>1, <2>1, CoreQuietTcp
<1>2. ASSUME NEW a \in Agents, Progress(a) PROVE TcpInv'
  <2>1. CASE endOfCandidates(a)
    BY <1>1, <2>1, EndStep
  <2>2. CASE gatherCandidates(a)
    BY <1>1, <2>2, GatherStep
  <2>3. CASE setRemoteParams(a)
    BY <2>3, ParamsTcp
  <2>4. CASE connect(a)
    BY <2>4, ConnectTcp
  <2>5. CASE schedulingChecks(a)
    BY <2>5, SchedulingTcp
  <2>6. CASE scheduled(a)
    BY <1>1, <2>6, ScheduledStep
  <2>7. CASE connectResumes(a)
    BY <1>1, <2>7, ResumesStep
  <2>8. CASE liteResumes(a)
    BY <1>1, <2>8, LiteStep
  <2>9. CASE closeSocket(a)
    BY <2>9, CloseSocketStep, CloseTcp
  <2>10. CASE \E p \in Paths : addRemoteCandidate(a, p) \/ retransmit(a, p)
    BY <1>1, <2>10, AddTcp, RetransmitStep
  <2>11. CASE \E r \in net : requestReceived(a, r)
    BY <2>11, RequestTcp
  <2>12. CASE \E x \in answers : responseReceived(a, x) \/ consentAnswered(a, x)
    BY <1>1, <2>12, ResponseTcp, ConsentAnswerStep
  <2> QED
    BY <1>2, <2>1, <2>2, <2>3, <2>4, <2>5, <2>6, <2>7, <2>8, <2>9, <2>10, <2>11, <2>12
       DEF Progress
<1>3. ASSUME Fault PROVE TcpInv'
  <2>1. ASSUME NEW a \in Agents, restart(a) PROVE TcpInv'
    BY <2>1, RestartStep, RestartTcp
  <2>2. ASSUME NEW a \in Agents, close(a) PROVE TcpInv'
    BY <2>2, CloseStep, CloseTcp
  <2>3. ASSUME NEW a \in Agents, consentRequest(a) PROVE TcpInv'
    BY <2>3, ConsentRequestTcp
  <2>4. ASSUME NEW a \in Agents, consentExpires(a) PROVE TcpInv'
    BY <1>1, <2>4, ExpiresStep
  <2>5. ASSUME NEW a \in Agents, NEW p \in Paths, timeout(a, p) PROVE TcpInv'
    BY <2>5, TimeoutTcp
  <2>6. ASSUME NEW r \in net, lose(r) PROVE TcpInv'
    BY <1>1, <2>6, LoseStep
  <2> QED
    BY <1>3, <2>1, <2>2, <2>3, <2>4, <2>5, <2>6 DEF Fault
<1>4. CASE UNCHANGED vars
  <2>1. "A" \in Agents
    BY DEF Agents
  <2>2. agent' = agent /\ net' = net /\ answers' = answers /\ EnvironmentKept
    BY <1>4, EnvironmentSame DEF vars
  <2> QED
    BY <1>1, <2>1, <2>2, NetworkStep
<1> QED
  BY <1>2, <1>3, <1>4 DEF Next

\* The controlled agent selected what the controlling one nominated.
LEMMA TcpAgree ==
    ASSUME BaseInv, RolesInv, TcpInv
    PROVE  TcpAgentsAgree
<1> SUFFICES ASSUME Tcp, BothSelected PROVE agent["A"].sel = agent["B"].sel
  BY DEF TcpAgentsAgree, Tcp, SameGeneration, First
<1>1. agent["A"].ctl # agent["B"].ctl
  BY RolesDiffer DEF OneController, SameGeneration, Tcp, First
<1>2. ASSUME NEW a \in Agents, agent[a].ctl, ~agent[Peer(a)].ctl
      PROVE  agent[a].sel = agent[Peer(a)].sel
  <2> DEFINE b == Peer(a)
             q == agent[b].sel
  <2>1. b \in Agents /\ Peer(b) = a
    BY PeerFacts
  <2>2. q # None /\ q \in Paths /\ agent[a].sel # None
    <3>1. Shape(agent[b])
      BY <2>1, ActorFacts
    <3> QED
      BY <2>1, <3>1 DEF BothSelected, Shape, CheckTypes
  <2>3. TcpOK(agent[a]) /\ TcpOK(agent[b])
    BY <2>1 DEF TcpInv
  <2>4. agent[b].pair[q].nom /\ agent[b].pair[q].rnom
    BY <1>2, <2>2, <2>3 DEF TcpOK
  <2>5. Claim(agent[a], q)
    BY <2>1, <2>2, <2>4 DEF TcpInv
  <2>6. ~HasUc(agent[a], q)
    BY <2>2, <2>3 DEF TcpOK
  <2> QED
    BY <2>5, <2>6 DEF Claim
<1> QED
  BY <1>1, <1>2, BothBoolean DEF Agents, Peer

LEMMA TcpInductive ==
    /\ Init => BaseInv /\ RolesInv /\ TcpInv
    /\ BaseInv /\ RolesInv /\ TcpInv /\ [Next]_vars => (BaseInv /\ RolesInv /\ TcpInv)'
BY InitBase, InitRoles, InitTcp, NextBase, NextRoles, NextTcp

\* Over TCP both agents select the same pair (ice.ts 2395-2403, 2427-2493): in
\* the first generation, and unless a nomination the peer took times out.
THEOREM TcpNominationsAgree == Spec => []TcpAgentsAgree
<1>1. BaseInv /\ RolesInv /\ TcpInv => TcpAgentsAgree
  BY TcpAgree
<1> QED
  BY <1>1, TcpInductive, PTL DEF Spec

\* The agents fit each other: what they selected is known to the peer, the same
\* over TCP, and one of them controls.
THEOREM TheAgentsAgree == Spec => []AgentsAgree
<1>1. BaseInv /\ RolesInv /\ TcpInv => AgentsAgree
  BY BaseTypes, BaseKnown, TcpAgree, RolesDiffer DEF AgentsAgree, PairsAgree
<1> QED
  BY <1>1, TcpInductive, PTL DEF Spec
=============================================================================
