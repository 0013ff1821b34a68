----------------------- MODULE TransportActivationProofs -----------------------
(* Proofs about TransportActivation for every set of transports and every     *)
(* number of answers, restarts, rollbacks and failures.                       *)
EXTENDS TransportActivation, SequenceTheorems, TLAPS

-----------------------------------------------------------------------------
(* The invariant.                                                            *)

Pcs == Waiting \union Released \union Ended
IceStates == {"new", "checking", "connected", "completed", "failed", "closed"}
DtlsStates == {"new", "connecting", "connected", "failed", "closed"}

Transport ==
    [inc : Nat, gen : Nat, ice : IceStates, params : BOOLEAN, checksStarted : BOOLEAN,
     wait : Nat, dtls : DtlsStates, iceStarts : Nat, dtlsStarts : Nat]

Sctp == [state : {"none", "idle", "started", "connected", "stopped"}, starts : Nat]

Place == [pc : Pcs, inc : Nat, gen : Nat]
Call == [epoch : Nat, done : BOOLEAN, at : [Transports -> Place]]

Fields == {"tr", "live", "sctp", "port", "conn", "iceConn", "session", "connectEpoch", "op",
           "closing", "calls", "answers", "restarts", "rollbacks", "failures"}

IsCalls(q) == \E n \in Nat : q \in [1..n -> Call]

Shape(x) ==
    /\ DOMAIN x = Fields
    /\ x.tr \in [Transports -> Transport]
    /\ x.live \subseteq Transports
    /\ x.sctp \in Sctp
    /\ x.conn \in {"new", "connecting", "connected", "failed", "closed"}
    /\ x.iceConn \in IceStates
    /\ x.session \in {"none", "provisional", "current"}
    /\ x.connectEpoch \in Nat
    /\ x.op \in {"idle", "applying", "stoppingSctp", "stopping"}
    /\ x.closing \in {"open", "stopping", "closed"}
    /\ IsCalls(x.calls)

\* The checks of a generation start once, and nothing runs before its parameters.
Sound(r) ==
    /\ r.gen > 0 /\ r.wait \in {0, r.gen}
    /\ r.iceStarts <= r.gen /\ r.dtlsStarts <= 1
    /\ ~r.checksStarted => r.iceStarts < r.gen
    /\ r.checksStarted => r.params /\ r.iceStarts > 0
    /\ r.ice \in {"checking", "connected", "failed"} => r.checksStarted
    /\ r.dtls = "new" => r.dtlsStarts = 0
    /\ r.dtls \in {"connecting", "connected"} => r.params /\ r.iceStarts > 0

TransportsSound(x) == \A t \in Transports : Sound(x.tr[t]) /\ (x.tr[t].params => t \in x.live)

SctpSound(x) ==
    /\ x.sctp.starts <= 1
    /\ x.sctp.state \in {"none", "idle"} => x.sctp.starts = 0

\* A call that may still change the transport it began on.
Active(x, c, t) == At(x, c, t).pc \notin Ended /\ OnCurrent(x, c, t)

CallsSound(x) ==
    \A c \in DOMAIN x.calls :
        /\ x.calls[c].epoch <= x.connectEpoch
        /\ \A t \in Transports :
              /\ At(x, c, t).inc <= x.tr[t].inc
              /\ x.calls[c].done => At(x, c, t).pc \in Ended
              /\ Active(x, c, t) => x.tr[t].params /\ x.tr[t].iceStarts > 0

StatesSound(x) ==
    x.closing # "closed" => x.conn # "closed" /\ x.iceConn = IceConnectionState(x)

\* A call that will say how it ends.
Speaks(x, c) ==
    /\ ~x.calls[c].done /\ x.calls[c].epoch = x.connectEpoch
    /\ \E t \in Transports : At(x, c, t).pc \notin {"none", "idle"}

Usual(x) == x.closing = "open" /\ x.op \in {"idle", "applying"}

ReportSound(x) ==
    Usual(x) =>
        /\ \A c \in DOMAIN x.calls, t \in Transports :
              Active(x, c, t) => x.calls[c].epoch = x.connectEpoch
        /\ x.conn = "connecting" => \E c \in DOMAIN x.calls : Speaks(x, c)

\* Behind a rollback of the first session.
SessionSound(x) ==
    /\ x.op = "applying" => x.session # "none"
    /\ x.session = "none" => \A c \in DOMAIN x.calls : x.calls[c].epoch < x.connectEpoch
    /\ x.session = "none" /\ x.op = "idle" /\ x.closing = "open" =>
          x.conn = "new" /\ \A t \in Transports : ~x.tr[t].params

Invariant(x) ==
    /\ Shape(x) /\ TransportsSound(x) /\ SctpSound(x) /\ CallsSound(x)
    /\ StatesSound(x) /\ ReportSound(x) /\ SessionSound(x)

-----------------------------------------------------------------------------
(* Changes of the state.                                                     *)

\* The fields in F change only.
Changed(x, y, F) == DOMAIN y = Fields /\ \A f \in Fields \ F : y[f] = x[f]

LEMMA IcsSame ==
    ASSUME NEW x, NEW y, y.live = x.live, \A t \in x.live : y.tr[t].ice = x.tr[t].ice,
           (x.conn = "closed") <=> (y.conn = "closed")
    PROVE  IceConnectionState(y) = IceConnectionState(x)
<1>1. {y.tr[t].ice : t \in y.live} = {x.tr[t].ice : t \in x.live}
  OBVIOUS
<1> QED
  BY <1>1 DEF IceConnectionState

LEMMA IcsType ==
    ASSUME NEW x
    PROVE  /\ IceConnectionState(x) \in IceStates
           /\ x.conn # "closed" => (IceConnectionState(x) = "failed" <=>
                                        \E t \in x.live : x.tr[t].ice = "failed")
<1>1. IceConnectionState(x) \in IceStates
  BY DEF IceConnectionState, IceStates
<1>2. ("failed" \in {x.tr[t].ice : t \in x.live}) <=> \E t \in x.live : x.tr[t].ice = "failed"
  OBVIOUS
<1>3. x.conn # "closed" => (IceConnectionState(x) = "failed" <=>
                                "failed" \in {x.tr[t].ice : t \in x.live})
  BY DEF IceConnectionState
<1> QED
  BY <1>1, <1>2, <1>3

\* updateIceConnectionState: the ICE state, and "failed" when it fails.
LEMMA Updated ==
    ASSUME NEW x, DOMAIN x = Fields
    PROVE  LET y == updateIceConnectionState(x)
           IN  /\ Changed(x, y, {"conn", "iceConn"})
               /\ y.iceConn = IceConnectionState(x)
               /\ \/ y.conn = x.conn
                  \/ y.conn = "failed" /\ IceConnectionState(x) = "failed"
<1> DEFINE state == IceConnectionState(x)
           y == [x EXCEPT !.iceConn = state]
<1>1. /\ Changed(x, y, {"iceConn"}) /\ y.iceConn = state
  BY DEF Changed, Fields
<1>2. LET z == setConnectionState(y, "failed")
      IN  Changed(x, z, {"conn", "iceConn"}) /\ z.iceConn = state /\ z.conn = "failed"
  BY DEF Changed, Fields, setConnectionState
<1>3. updateIceConnectionState(x) =
          IF state # x.iceConn /\ state = "failed" THEN setConnectionState(y, "failed") ELSE y
  BY DEF updateIceConnectionState
<1>4. Changed(x, y, {"conn", "iceConn"}) /\ y.conn = x.conn
  BY <1>1 DEF Changed, Fields
<1> HIDE DEF y, state
<1>5. CASE state # x.iceConn /\ state = "failed"
  BY <1>2, <1>3, <1>5 DEF state
<1>6. CASE ~(state # x.iceConn /\ state = "failed")
  BY <1>1, <1>3, <1>4, <1>6 DEF state
<1> QED
  BY <1>5, <1>6

SetIce(r, state) == IF r.ice = "closed" THEN r ELSE [r EXCEPT !.ice = state]

\* What setIceStates leaves: the transports' states, the connection's, and nothing else.
IceSet(x, y, T, state) ==
    /\ Changed(x, y, {"tr", "conn", "iceConn"})
    /\ y.tr = [t \in Transports |-> IF t \in T THEN SetIce(x.tr[t], state) ELSE x.tr[t]]
    /\ \/ y.conn = x.conn
       \/ y.conn = "failed" /\ \E t \in x.live : y.tr[t].ice = "failed"
    /\ x.conn # "closed" /\ x.iceConn = IceConnectionState(x) => y.iceConn = IceConnectionState(y)
    /\ y.iceConn \in IceStates

LEMMA IceStatesSet ==
    ASSUME NEW x, NEW T, NEW state, DOMAIN x = Fields, x.live \subseteq Transports,
           T \subseteq Transports, x.tr \in [Transports -> Transport], x.iceConn \in IceStates
    PROVE  IceSet(x, setIceStates(x, T, state), T, state)
<1> DEFINE new == [t \in Transports |-> IF t \in T THEN SetIce(x.tr[t], state) ELSE x.tr[t]]
           changing == {t \in T : x.tr[t].ice # "closed"}
           y == setIceStates(x, T, state)
<1>1. CASE changing = {}
  <2>1. y = x
    BY <1>1 DEF setIceStates
  <2>2. new = x.tr
    BY <1>1 DEF SetIce
  <2> QED
    BY <2>1, <2>2 DEF IceSet, Changed
<1>2. CASE changing # {}
  <2> DEFINE z == [x EXCEPT !.tr = new]
  <2>1. y = updateIceConnectionState(z)
    <3>1. [t \in Transports |-> IF t \in changing THEN [x.tr[t] EXCEPT !.ice = state] ELSE x.tr[t]] = new
      BY DEF SetIce
    <3> QED
      BY <1>2, <3>1 DEF setIceStates
  <2>2. Changed(x, z, {"tr"}) /\ z.tr = new /\ DOMAIN z = Fields
    BY DEF Changed, Fields
  <2> HIDE DEF z, new, y
  <2>3. /\ Changed(z, y, {"conn", "iceConn"}) /\ y.iceConn = IceConnectionState(z)
        /\ y.conn = z.conn \/ (y.conn = "failed" /\ IceConnectionState(z) = "failed")
    BY <2>1, <2>2, Updated
  <2>4. /\ Changed(x, y, {"tr", "conn", "iceConn"}) /\ y.tr = new /\ z.conn = x.conn
        /\ y.live = z.live /\ y.tr = z.tr /\ y.live = x.live
    BY <2>2, <2>3 DEF Changed, Fields
  <2>5. IceConnectionState(z) \in IceStates
    BY IcsType
  <2>6. y.conn = x.conn \/ (y.conn = "failed" /\ \E t \in x.live : y.tr[t].ice = "failed")
    <3>1. CASE x.conn = "closed"
      <4>1. IceConnectionState(z) = "closed"
        BY <2>4, <3>1 DEF IceConnectionState
      <4> QED
        BY <2>3, <2>4, <4>1
    <3>2. CASE x.conn # "closed"
      BY <2>3, <2>4, <3>2, IcsType
    <3> QED
      BY <3>1, <3>2
  <2>7. x.conn # "closed" => y.iceConn = IceConnectionState(y)
    <3>1. x.conn # "closed" => y.conn # "closed"
      BY <2>6
    <3>2. x.conn # "closed" => IceConnectionState(y) = IceConnectionState(z)
      BY <2>4, <3>1, IcsSame
    <3> QED
      BY <2>3, <3>2
  <2> QED
    BY <2>3, <2>4, <2>5, <2>6, <2>7 DEF IceSet, new, y
<1> QED
  BY <1>1, <1>2

-----------------------------------------------------------------------------
(* Calls go on.                                                              *)

Forward == Pcs \ {"none", "idle"}

\* Calls of p are those of q, and whoever moved was not at its end.
Moved(p, q) ==
    /\ IsCalls(q) /\ DOMAIN q = DOMAIN p
    /\ \A c \in DOMAIN p :
          /\ q[c].epoch = p[c].epoch /\ q[c].done = p[c].done
          /\ \A t \in Transports :
                /\ q[c].at[t].inc = p[c].at[t].inc
                /\ \/ q[c].at[t].pc = p[c].at[t].pc
                   \/ p[c].at[t].pc \notin Ended /\ q[c].at[t].pc \in Forward

LEMMA MovedTrans ==
    ASSUME NEW p, NEW q, NEW r, Moved(p, q), Moved(q, r)
    PROVE  Moved(p, r)
<1>1. IsCalls(r) /\ DOMAIN r = DOMAIN p /\ DOMAIN q = DOMAIN p
  BY DEF Moved
<1>2. ASSUME NEW c \in DOMAIN p
      PROVE  r[c].epoch = p[c].epoch /\ r[c].done = p[c].done
  BY <1>1 DEF Moved
<1>3. ASSUME NEW c \in DOMAIN p, NEW t \in Transports
      PROVE  /\ r[c].at[t].inc = p[c].at[t].inc
             /\ \/ r[c].at[t].pc = p[c].at[t].pc
                \/ p[c].at[t].pc \notin Ended /\ r[c].at[t].pc \in Forward
  <2>1. /\ q[c].at[t].inc = p[c].at[t].inc
        /\ \/ q[c].at[t].pc = p[c].at[t].pc
           \/ p[c].at[t].pc \notin Ended /\ q[c].at[t].pc \in Forward
    BY DEF Moved
  <2>2. /\ r[c].at[t].inc = q[c].at[t].inc
        /\ \/ r[c].at[t].pc = q[c].at[t].pc
           \/ q[c].at[t].pc \notin Ended /\ r[c].at[t].pc \in Forward
    BY <1>1 DEF Moved
  <2> QED
    BY <2>1, <2>2
<1> QED
  BY <1>1, <1>2, <1>3 DEF Moved

LEMMA MovedSame ==
    ASSUME NEW p, IsCalls(p)
    PROVE  Moved(p, p)
BY DEF Moved

\* A change of one place of every call.
LEMMA PlaceMoves ==
    ASSUME NEW p, IsCalls(p), NEW q \in [DOMAIN p -> Call],
           \A c \in DOMAIN p :
              /\ q[c].epoch = p[c].epoch /\ q[c].done = p[c].done
              /\ \A t \in Transports :
                    /\ q[c].at[t].inc = p[c].at[t].inc
                    /\ \/ q[c].at[t].pc = p[c].at[t].pc
                       \/ p[c].at[t].pc \notin Ended /\ q[c].at[t].pc \in Forward
    PROVE  Moved(p, q)
<1>1. PICK n \in Nat : p \in [1..n -> Call]
  BY DEF IsCalls
<1>2. q \in [1..n -> Call]
  BY <1>1
<1> QED
  BY <1>2 DEF Moved, IsCalls

LEMMA CallType ==
    ASSUME NEW p, IsCalls(p), NEW c \in DOMAIN p
    PROVE  p[c] \in Call
<1>1. PICK n \in Nat : p \in [1..n -> Call]
  BY DEF IsCalls
<1> QED
  BY <1>1

LEMMA GoMoves ==
    ASSUME NEW x, DOMAIN x = Fields, IsCalls(x.calls), NEW c \in DOMAIN x.calls,
           NEW t \in Transports, NEW pc \in Forward, At(x, c, t).pc \notin Ended
    PROVE  LET y == Go(x, c, t, pc)
           IN  /\ Changed(x, y, {"calls"}) /\ Moved(x.calls, y.calls)
               /\ At(y, c, t).pc = pc
<1> DEFINE y == Go(x, c, t, pc)
           new == [x.calls[c] EXCEPT !.at[t].pc = pc]
           q == [x.calls EXCEPT ![c] = new]
<1>1. x.calls[c] \in Call
  BY CallType
<1>2. /\ new \in Call /\ new.epoch = x.calls[c].epoch /\ new.done = x.calls[c].done
      /\ new.at[t].pc = pc /\ new.at[t].inc = x.calls[c].at[t].inc
      /\ \A u \in Transports : u # t => new.at[u] = x.calls[c].at[u]
  BY <1>1 DEF Call, Place, Forward
<1>3. y = [x EXCEPT !.calls = q]
  BY DEF Go
<1>4. Changed(x, y, {"calls"}) /\ y.calls = q
  BY <1>3 DEF Changed, Fields
<1>5. /\ DOMAIN q = DOMAIN x.calls /\ q[c] = new
      /\ \A d \in DOMAIN x.calls : d # c => q[d] = x.calls[d]
  OBVIOUS
<1>6. \A d \in DOMAIN x.calls : x.calls[d] \in Call
  BY CallType
<1>7. q \in [DOMAIN x.calls -> Call]
  BY <1>2, <1>6
<1> HIDE DEF new, q, y
<1>8. ASSUME NEW d \in DOMAIN x.calls
      PROVE  /\ q[d].epoch = x.calls[d].epoch /\ q[d].done = x.calls[d].done
             /\ \A u \in Transports :
                   /\ q[d].at[u].inc = x.calls[d].at[u].inc
                   /\ \/ q[d].at[u].pc = x.calls[d].at[u].pc
                      \/ x.calls[d].at[u].pc \notin Ended /\ q[d].at[u].pc \in Forward
  BY <1>2, <1>5, <1>6 DEF At
<1>9. Moved(x.calls, q)
  BY <1>7, <1>8, PlaceMoves
<1>10. At(y, c, t).pc = pc
  BY <1>2, <1>4, <1>5 DEF At
<1> QED
  BY <1>4, <1>9, <1>10 DEF y

\* Calls go on that are at one of pcs.
Frees(x, y, pcs) ==
    /\ Changed(x, y, {"calls"}) /\ Moved(x.calls, y.calls)
    /\ \A c \in DOMAIN x.calls, u \in Transports :
          At(x, c, u).pc \notin pcs => At(y, c, u).pc = At(x, c, u).pc

LEMMA ReleaseMoves ==
    ASSUME NEW x, DOMAIN x = Fields, IsCalls(x.calls), NEW t \in Transports, NEW pcs,
           \A pc \in pcs : pc \notin Ended, NEW gens, NEW next \in Forward
    PROVE  Frees(x, ReleaseAll(x, t, pcs, gens, next), pcs)
<1> DEFINE y == ReleaseAll(x, t, pcs, gens, next)
           out(c) == c \in OnTransport(x, t, pcs) /\ At(x, c, t).gen \in gens
           new(c) == [x.calls[c] EXCEPT !.at[t].pc = next]
           q == [c \in DOMAIN x.calls |-> IF out(c) THEN new(c) ELSE x.calls[c]]
<1>1. ASSUME NEW c \in DOMAIN x.calls
      PROVE  /\ x.calls[c] \in Call
             /\ new(c) \in Call /\ new(c).epoch = x.calls[c].epoch /\ new(c).done = x.calls[c].done
             /\ new(c).at[t].pc = next /\ new(c).at[t].inc = x.calls[c].at[t].inc
             /\ \A u \in Transports : u # t => new(c).at[u] = x.calls[c].at[u]
  <2>1. x.calls[c] \in Call
    BY CallType
  <2> QED
    BY <2>1 DEF Call, Place, Forward
<1>2. Changed(x, y, {"calls"}) /\ y.calls = q
  <2>1. y = [x EXCEPT !.calls = q]
    BY DEF ReleaseAll
  <2> QED
    BY <2>1 DEF Changed, Fields
<1>3. \A c : out(c) => At(x, c, t).pc \in pcs
  BY DEF OnTransport, Entries
<1> HIDE DEF y, out, new
<1>4. ASSUME NEW c \in DOMAIN x.calls
      PROVE  /\ q[c] \in Call /\ q[c].epoch = x.calls[c].epoch /\ q[c].done = x.calls[c].done
             /\ \A u \in Transports :
                   /\ q[c].at[u].inc = x.calls[c].at[u].inc
                   /\ q[c].at[u].pc = x.calls[c].at[u].pc
                      \/ (At(x, c, u).pc \in pcs /\ q[c].at[u].pc = next)
  BY <1>1, <1>3 DEF At
<1>5. Moved(x.calls, q)
  <2>1. ASSUME NEW c \in DOMAIN x.calls
        PROVE  /\ q[c].epoch = x.calls[c].epoch /\ q[c].done = x.calls[c].done
               /\ \A u \in Transports :
                     /\ q[c].at[u].inc = x.calls[c].at[u].inc
                     /\ \/ q[c].at[u].pc = x.calls[c].at[u].pc
                        \/ x.calls[c].at[u].pc \notin Ended /\ q[c].at[u].pc \in Forward
    BY <1>4 DEF At
  <2>2. q \in [DOMAIN x.calls -> Call]
    BY <1>4
  <2> HIDE DEF q
  <2> QED
    BY <2>1, <2>2, PlaceMoves
<1> HIDE DEF q
<1>6. \A c \in DOMAIN x.calls, u \in Transports :
          At(x, c, u).pc \notin pcs => At(y, c, u).pc = At(x, c, u).pc
  BY <1>2, <1>4 DEF At
<1> QED
  BY <1>2, <1>5, <1>6 DEF y, Frees

-----------------------------------------------------------------------------
(* What calls and agents do to the invariant.                                *)

\* A transport goes on: it stays of its m-line, with its parameters.
Fares(r, q) ==
    /\ q \in Transport /\ Sound(q)
    /\ q.inc = r.inc /\ q.params = r.params
    /\ r.iceStarts > 0 => q.iceStarts > 0

\* A step of calls and transports, none of which begins or ends a session.
Moves(x, y) ==
    /\ Shape(y) /\ SctpSound(y) /\ StatesSound(y)
    /\ \A t \in Transports : Fares(x.tr[t], y.tr[t])
    /\ Moved(x.calls, y.calls)
    /\ y.live = x.live /\ y.session = x.session /\ y.connectEpoch = x.connectEpoch
    /\ y.closing = "open" => x.closing = "open"
    /\ y.op \in {"idle", "applying"} => y.op = x.op
    /\ y.closing = "open" =>
          \/ y.conn = x.conn
          \/ /\ y.conn = "connecting"
             /\ \E c \in DOMAIN x.calls, t \in Transports :
                   Active(x, c, t) /\ At(y, c, t).pc \in Forward
          \/ y.conn = "failed" /\ \E t \in Transports : x.tr[t].params

LEMMA MovesInv ==
    ASSUME NEW x, NEW y, Invariant(x), Moves(x, y)
    PROVE  Invariant(y)
<1>1. DOMAIN y.calls = DOMAIN x.calls
  BY DEF Moves, Moved
<1>2. ASSUME NEW c \in DOMAIN x.calls, NEW t \in Transports
      PROVE  /\ y.calls[c].epoch = x.calls[c].epoch /\ y.calls[c].done = x.calls[c].done
             /\ At(y, c, t).inc = At(x, c, t).inc
             /\ \/ At(y, c, t).pc = At(x, c, t).pc
                \/ At(x, c, t).pc \notin Ended /\ At(y, c, t).pc \in Forward
  BY DEF Moves, Moved, At
<1>3. ASSUME NEW t \in Transports
      PROVE  /\ Sound(y.tr[t]) /\ y.tr[t].inc = x.tr[t].inc /\ y.tr[t].params = x.tr[t].params
             /\ x.tr[t].iceStarts > 0 => y.tr[t].iceStarts > 0
  BY DEF Moves, Fares
<1>4. ASSUME NEW c \in DOMAIN x.calls, NEW t \in Transports
      PROVE  Active(y, c, t) => Active(x, c, t)
  BY <1>2, <1>3 DEF Active, OnCurrent
<1>5. TransportsSound(y)
  BY <1>3 DEF TransportsSound, Invariant, Moves
<1>6. CallsSound(y)
  <2>1. ASSUME NEW c \in DOMAIN y.calls
        PROVE  y.calls[c].epoch <= y.connectEpoch
    BY <1>1, <1>2, TransportsAssumption DEF Invariant, CallsSound, Moves, Moved
  <2>2. ASSUME NEW c \in DOMAIN y.calls, NEW t \in Transports
        PROVE  /\ At(y, c, t).inc <= y.tr[t].inc
               /\ y.calls[c].done => At(y, c, t).pc \in Ended
               /\ Active(y, c, t) => y.tr[t].params /\ y.tr[t].iceStarts > 0
    <3>1. /\ At(x, c, t).inc <= x.tr[t].inc
          /\ x.calls[c].done => At(x, c, t).pc \in Ended
          /\ Active(x, c, t) => x.tr[t].params /\ x.tr[t].iceStarts > 0
      BY <1>1 DEF Invariant, CallsSound
    <3> QED
      BY <1>1, <1>2, <1>3, <1>4, <3>1
  <2> QED
    BY <2>1, <2>2 DEF CallsSound
<1>7. Usual(y) => Usual(x) /\ y.op = x.op
  BY DEF Usual, Moves
<1>8. ReportSound(y)
  <2> SUFFICES ASSUME Usual(y)
               PROVE  /\ \A c \in DOMAIN y.calls, t \in Transports :
                            Active(y, c, t) => y.calls[c].epoch = y.connectEpoch
                      /\ y.conn = "connecting" => \E c \in DOMAIN y.calls : Speaks(y, c)
    BY DEF ReportSound
  <2>1. /\ \A c \in DOMAIN x.calls, t \in Transports :
              Active(x, c, t) => x.calls[c].epoch = x.connectEpoch
        /\ x.conn = "connecting" => \E c \in DOMAIN x.calls : Speaks(x, c)
    BY <1>7 DEF Invariant, ReportSound
  <2>2. y.connectEpoch = x.connectEpoch /\ y.closing = "open"
    BY DEF Moves, Usual
  <2>3. ASSUME y.conn = "connecting"
        PROVE  \E c \in DOMAIN y.calls : Speaks(y, c)
    <3>1. CASE y.conn = x.conn
      <4>1. PICK c \in DOMAIN x.calls : Speaks(x, c)
        BY <2>1, <2>3, <3>1
      <4>2. PICK t \in Transports : At(x, c, t).pc \notin {"none", "idle"}
        BY <4>1 DEF Speaks
      <4>3. At(y, c, t).pc \notin {"none", "idle"}
        BY <1>2, <4>2 DEF Forward
      <4> QED
        BY <1>1, <1>2, <2>2, <4>1, <4>3 DEF Speaks
    <3>2. CASE \E c \in DOMAIN x.calls, t \in Transports :
                  Active(x, c, t) /\ At(y, c, t).pc \in Forward
      <4>1. PICK c \in DOMAIN x.calls, t \in Transports :
                Active(x, c, t) /\ At(y, c, t).pc \in Forward
        BY <3>2
      <4>2. x.calls[c].epoch = x.connectEpoch
        BY <2>1, <4>1
      <4>3. ~x.calls[c].done
        BY <4>1 DEF Invariant, CallsSound, Active
      <4> QED
        BY <1>1, <1>2, <2>2, <4>1, <4>2, <4>3 DEF Speaks, Forward
    <3> QED
      BY <2>2, <2>3, <3>1, <3>2 DEF Moves
  <2> QED
    BY <1>1, <1>2, <1>4, <2>1, <2>2, <2>3
<1>9. SessionSound(y)
  <2>1. y.op = "applying" => y.session # "none"
    BY DEF Moves, Invariant, SessionSound
  <2>2. y.session = "none" => \A c \in DOMAIN y.calls : y.calls[c].epoch < y.connectEpoch
    <3>1. x.session = "none" => \A c \in DOMAIN x.calls : x.calls[c].epoch < x.connectEpoch
      BY DEF Invariant, SessionSound
    <3> QED
      BY <1>1, <1>2, <3>1, TransportsAssumption DEF Moves, Moved
  <2>3. ASSUME y.session = "none", y.op = "idle", y.closing = "open"
        PROVE  y.conn = "new" /\ \A t \in Transports : ~y.tr[t].params
    <3>1. x.conn = "new" /\ \A t \in Transports : ~x.tr[t].params
      BY <2>3 DEF Moves, Invariant, SessionSound
    <3>2. \A c \in DOMAIN x.calls, t \in Transports : ~Active(x, c, t)
      BY <3>1 DEF Invariant, CallsSound
    <3> QED
      BY <1>3, <2>3, <3>1, <3>2 DEF Moves
  <2> QED
    BY <2>1, <2>2, <2>3 DEF SessionSound
<1> QED
  BY <1>5, <1>6, <1>8, <1>9 DEF Moves, Invariant

LEMMA FaresSame ==
    ASSUME NEW r \in Transport, Sound(r)
    PROVE  Fares(r, r)
BY DEF Fares

\* An association that starts has not started before.
LEMMA Started ==
    ASSUME NEW x, DOMAIN x = Fields, x.sctp \in Sctp, SctpSound(x)
    PROVE  LET y == startSctp(x)
           IN  Changed(x, y, {"sctp"}) /\ y.sctp \in Sctp /\ SctpSound(y)
<1>1. CASE x.sctp.state = "idle"
  <2> DEFINE z == [x.sctp EXCEPT !.state = "started", !.starts = @ + 1]
             y == [x EXCEPT !.sctp = [state |-> "started", starts |-> @.starts + 1]]
  <2>1. y = startSctp(x)
    BY <1>1 DEF startSctp
  <2>2. Changed(x, y, {"sctp"}) /\ y.sctp = [state |-> "started", starts |-> x.sctp.starts + 1]
    BY DEF Changed, Fields
  <2>3. y.sctp \in Sctp /\ SctpSound(y)
    BY <1>1, <2>2 DEF Sctp, SctpSound
  <2> QED
    BY <2>1, <2>2, <2>3
<1>2. CASE x.sctp.state # "idle"
  BY <1>2 DEF startSctp, Changed
<1> QED
  BY <1>1, <1>2

LEMMA Joined ==
    ASSUME NEW x, DOMAIN x = Fields, x.sctp \in Sctp, SctpSound(x), NEW d
    PROVE  LET y == Joins(x, d)
           IN  Changed(x, y, {"sctp"}) /\ y.sctp \in Sctp /\ SctpSound(y)
<1>1. Joins(x, d) = startSctp(x) \/ Joins(x, d) = x
  BY DEF Joins, startJoinedSctp
<1>2. Changed(x, x, {"sctp"})
  BY DEF Changed
<1> QED
  BY <1>1, <1>2, Started

LEMMA Reported ==
    ASSUME NEW x, DOMAIN x = Fields, NEW d
    PROVE  LET y == Report(x, d)
           IN  /\ Changed(x, y, {"conn"})
               /\ y.conn = IF \E t \in DOMAIN d : d[t].connecting THEN "connecting" ELSE x.conn
BY DEF Report, setConnectionState, Changed, Fields

\* What a call does with a transport: it starts what had not started.
Sensible(r, does) ==
    /\ DOMAIN does = {"pc", "transport", "connecting", "joins"}
    /\ does.pc \in Pcs /\ does.connecting \in BOOLEAN
    /\ Fares(r, does.transport) /\ does.transport.ice = r.ice
    /\ does.connecting => does.pc \in Forward
    /\ does.pc \notin Ended => does.transport.params /\ does.transport.iceStarts > 0
    /\ does.pc = "start" => does.transport.checksStarted

WithDtls(r, dtls, n) == [r EXCEPT !.dtls = dtls, !.dtlsStarts = n]

LEMMA NewDtls ==
    ASSUME NEW r \in Transport, NEW dtls \in DtlsStates, NEW n \in Nat
    PROVE  LET q == WithDtls(r, dtls, n)
           IN  /\ q \in Transport /\ q.dtls = dtls /\ q.dtlsStarts = n
               /\ q.inc = r.inc /\ q.gen = r.gen /\ q.ice = r.ice /\ q.params = r.params
               /\ q.checksStarted = r.checksStarted /\ q.wait = r.wait /\ q.iceStarts = r.iceStarts
<1> DEFINE q == [r EXCEPT !.dtls = dtls, !.dtlsStarts = n]
<1>1. q \in Transport
  BY DEF Transport
<1>2. q.dtls = dtls /\ q.dtlsStarts = n
  BY DEF Transport
<1>3. /\ q.inc = r.inc /\ q.gen = r.gen /\ q.ice = r.ice /\ q.params = r.params
      /\ q.checksStarted = r.checksStarted /\ q.wait = r.wait /\ q.iceStarts = r.iceStarts
  BY DEF Transport
<1>4. q = WithDtls(r, dtls, n)
  BY DEF WithDtls
<1> HIDE DEF q
<1> QED
  BY <1>1, <1>2, <1>3, <1>4

\* The records of Does.
LEMMA Doing ==
    ASSUME NEW pc, NEW r
    PROVE  LET w == [Does(pc, r) EXCEPT !.connecting = TRUE]
           IN  /\ DOMAIN w = {"pc", "transport", "connecting", "joins"}
               /\ w.pc = pc /\ w.transport = r /\ w.connecting = TRUE
BY DEF Does

LEMMA DtlsStarts ==
    ASSUME NEW x, NEW t, x.tr[t] \in Transport, Sound(x.tr[t]), x.tr[t].dtls = "new",
           x.tr[t].params, x.tr[t].iceStarts > 0
    PROVE  LET does == startDtls(x, t)
           IN  Sensible(x.tr[t], does) /\ does.pc = "dtls"
<1> DEFINE r == x.tr[t]
           n == r.dtlsStarts + 1
           q == WithDtls(r, "connecting", n)
           does == [Does("dtls", q) EXCEPT !.connecting = TRUE]
<1>1. n \in Nat /\ n = 1
  BY DEF Transport, Sound
<1>2. startDtls(x, t) = does
  BY DEF startDtls, WithDtls
<1>3. DOMAIN does = {"pc", "transport", "connecting", "joins"} /\ does.pc = "dtls"
      /\ does.transport = q /\ does.connecting = TRUE
  BY Doing
<1> HIDE DEF does, n
<1>4. /\ q \in Transport /\ q.dtls = "connecting" /\ q.dtlsStarts = n
      /\ q.inc = r.inc /\ q.gen = r.gen /\ q.ice = r.ice /\ q.params = r.params
      /\ q.checksStarted = r.checksStarted /\ q.wait = r.wait /\ q.iceStarts = r.iceStarts
  <2>1. "connecting" \in DtlsStates /\ q = WithDtls(r, "connecting", n) /\ r \in Transport
    BY DEF DtlsStates
  <2> HIDE DEF q, r
  <2> QED
    BY <1>1, <2>1, NewDtls
<1> HIDE DEF q
<1>5. Sound(q)
  BY <1>1, <1>4 DEF Sound
<1>6. Fares(r, q)
  BY <1>4, <1>5 DEF Fares
<1>7. "dtls" \in Pcs /\ "dtls" \in Forward
  BY DEF Pcs, Waiting, Released, Ended, Forward
<1> QED
  BY <1>2, <1>3, <1>4, <1>6, <1>7 DEF Sensible

LEMMA Idles ==
    ASSUME NEW r \in Transport, Sound(r), NEW pc \in Pcs,
           pc \in Ended \/ (r.params /\ r.iceStarts > 0), pc # "start",
           NEW does, does.pc = pc, does.transport = r, does.connecting = FALSE,
           DOMAIN does = {"pc", "transport", "connecting", "joins"}
    PROVE  Sensible(r, does)
BY FaresSame DEF Sensible

LEMMA DtlsGoesOn ==
    ASSUME NEW x, NEW t, x.tr[t] \in Transport, Sound(x.tr[t]), NEW progressed \in BOOLEAN,
           NEW iceReady \in BOOLEAN, x.tr[t].params, x.tr[t].iceStarts > 0
    PROVE  LET does == ConnectDtls(x, t, progressed, iceReady)
           IN  /\ Sensible(x.tr[t], does) /\ does.pc # "start"
               /\ progressed => does.pc \in Forward
<1> DEFINE end == IF progressed THEN "ok" ELSE "idle"
           does == ConnectDtls(x, t, progressed, iceReady)
<1>1. /\ end \in Pcs /\ end \in Ended /\ end # "start" /\ (progressed => end \in Forward)
      /\ "dtlsJoin" \in Forward /\ "dtlsJoin" \in Pcs /\ "dtls" \in Forward
  BY DEF Pcs, Waiting, Released, Ended, Forward
<1>2. \/ x.tr[t].dtls = "connecting" /\ does = Does("dtlsJoin", x.tr[t])
      \/ x.tr[t].dtls = "connected" /\ does = [Does(end, x.tr[t]) EXCEPT !.joins = TRUE]
      \/ x.tr[t].dtls = "new" /\ does = startDtls(x, t)
      \/ does = Does(end, x.tr[t])
  BY DEF ConnectDtls
<1> HIDE DEF end, does
<1>3. CASE does = Does("dtlsJoin", x.tr[t])
  <2>1. /\ DOMAIN does = {"pc", "transport", "connecting", "joins"}
        /\ does.pc = "dtlsJoin" /\ does.transport = x.tr[t] /\ does.connecting = FALSE
    BY <1>3 DEF Does
  <2> QED
    BY <1>1, <2>1, Idles DEF does
<1>4. CASE does = Does(end, x.tr[t]) \/ does = [Does(end, x.tr[t]) EXCEPT !.joins = TRUE]
  <2>1. /\ DOMAIN does = {"pc", "transport", "connecting", "joins"}
        /\ does.pc = end /\ does.transport = x.tr[t] /\ does.connecting = FALSE
    BY <1>4 DEF Does
  <2> QED
    BY <1>1, <2>1, Idles DEF does
<1>5. CASE x.tr[t].dtls = "new" /\ does = startDtls(x, t)
  BY <1>1, <1>5, DtlsStarts DEF does
<1> QED
  BY <1>2, <1>3, <1>4, <1>5

LEMMA GoesOnMoves ==
    ASSUME NEW x, Invariant(x), NEW c \in DOMAIN x.calls, NEW t \in Transports, Active(x, c, t),
           NEW does, Sensible(x.tr[t], does), does.pc \in Forward
    PROVE  Moves(x, GoesOn(x, c, t, does))
<1> DEFINE d == [u \in {t} |-> does]
           tr == [x.tr EXCEPT ![t] = does.transport]
           x1 == [x EXCEPT !.tr[t] = does.transport]
           x2 == Go(x1, c, t, does.pc)
           x3 == Report(x2, d)
           y == Joins(x3, d)
<1>0. /\ DOMAIN x = Fields /\ x.tr \in [Transports -> Transport] /\ IsCalls(x.calls)
      /\ x.sctp \in Sctp /\ SctpSound(x) /\ x.live \subseteq Transports
  BY DEF Invariant, Shape
<1>1. Changed(x, x1, {"tr"}) /\ x1.tr = tr
  BY <1>0 DEF Changed, Fields
<1>2. /\ tr \in [Transports -> Transport]
      /\ \A u \in Transports : Fares(x.tr[u], tr[u]) /\ tr[u].ice = x.tr[u].ice
  <2>1. \A u \in Transports : Sound(x.tr[u])
    BY DEF Invariant, TransportsSound
  <2>2. \A u \in Transports : u # t => tr[u] = x.tr[u]
    BY <1>0
  <2>3. tr[t] = does.transport /\ does.transport \in Transport
    BY <1>0 DEF Sensible, Fares
  <2> HIDE DEF tr
  <2>4. \A u \in Transports : Fares(x.tr[u], tr[u]) /\ tr[u].ice = x.tr[u].ice
    BY <1>0, <2>1, <2>2, <2>3, FaresSame DEF Sensible
  <2>5. tr \in [Transports -> Transport]
    BY <1>0, <2>3 DEF tr
  <2> QED
    BY <2>4, <2>5
<1> HIDE DEF tr, x1, d
<1>3. /\ DOMAIN x1 = Fields /\ x1.calls = x.calls /\ x1.sctp = x.sctp /\ x1.conn = x.conn
      /\ At(x1, c, t).pc \notin Ended
  BY <1>0, <1>1 DEF Changed, Fields, Active, At
<1>4. /\ Changed(x1, x2, {"calls"}) /\ Moved(x.calls, x2.calls) /\ At(x2, c, t).pc = does.pc
  BY <1>0, <1>3, GoMoves
<1> HIDE DEF x2
<1>5. Changed(x2, x3, {"conn"}) /\ (x3.conn = "connecting" \/ x3.conn = x2.conn)
  <2>1. DOMAIN x2 = Fields
    BY <1>4 DEF Changed
  <2> QED
    BY <2>1, Reported
<1> HIDE DEF x3
<1>6. Changed(x3, y, {"sctp"}) /\ y.sctp \in Sctp /\ SctpSound(y)
  <2>1. DOMAIN x3 = Fields /\ x3.sctp = x.sctp
    BY <1>3, <1>4, <1>5 DEF Changed, Fields
  <2>2. SctpSound(x3)
    BY <1>0, <2>1 DEF SctpSound
  <2> QED
    BY <1>0, <2>1, <2>2, Joined
<1>7. y = GoesOn(x, c, t, does)
  BY DEF GoesOn, y, x3, x2, x1, d
<1> HIDE DEF y
<1>8. /\ Changed(x, y, {"tr", "calls", "conn", "sctp"}) /\ y.tr = tr /\ y.calls = x2.calls
      /\ y.conn = "connecting" \/ y.conn = x.conn
  BY <1>1, <1>3, <1>4, <1>5, <1>6 DEF Changed, Fields
<1>9. /\ y.live = x.live /\ y.session = x.session /\ y.connectEpoch = x.connectEpoch
      /\ y.closing = x.closing /\ y.op = x.op /\ y.iceConn = x.iceConn
  BY <1>8 DEF Changed, Fields
<1>10. StatesSound(y)
  <2>1. ASSUME x.closing # "closed"
        PROVE  y.conn # "closed" /\ y.iceConn = IceConnectionState(y)
    <3>1. x.conn # "closed" /\ x.iceConn = IceConnectionState(x)
      BY <2>1 DEF Invariant, StatesSound
    <3>2. IceConnectionState(y) = IceConnectionState(x)
      BY <1>0, <1>2, <1>8, <1>9, <3>1, IcsSame
    <3> QED
      BY <1>8, <1>9, <3>1, <3>2
  <2> QED
    BY <1>9, <2>1 DEF StatesSound
<1>11. Shape(y)
  <2>1. IsCalls(y.calls) /\ y.tr \in [Transports -> Transport] /\ DOMAIN y = Fields
    BY <1>2, <1>4, <1>8 DEF Moved, Changed
  <2> QED
    BY <1>6, <1>8, <1>9, <2>1 DEF Shape, Invariant
<1>12. At(y, c, t).pc \in Forward
  BY <1>4, <1>8 DEF At
<1>13. Moves(x, y)
  BY <1>2, <1>4, <1>6, <1>8, <1>9, <1>10, <1>11, <1>12 DEF Moves
<1> QED
  BY <1>7, <1>13

-----------------------------------------------------------------------------
(* Agents.                                                                   *)

LEMMA IceFares ==
    ASSUME NEW r \in Transport, Sound(r), NEW state \in IceStates,
           state \in {"checking", "connected", "failed"} => r.checksStarted
    PROVE  Fares(r, SetIce(r, state))
<1>1. CASE r.ice = "closed"
  BY <1>1, FaresSame DEF SetIce
<1>2. CASE r.ice # "closed"
  <2> DEFINE q == [r EXCEPT !.ice = state]
  <2>1. q \in Transport
    BY DEF Transport
  <2>2. /\ q.ice = state /\ q.dtls = r.dtls /\ q.dtlsStarts = r.dtlsStarts
        /\ q.inc = r.inc /\ q.gen = r.gen /\ q.params = r.params
        /\ q.checksStarted = r.checksStarted /\ q.wait = r.wait /\ q.iceStarts = r.iceStarts
    BY DEF Transport
  <2>3. SetIce(r, state) = q
    BY <1>2 DEF SetIce
  <2> HIDE DEF q
  <2>4. Sound(q)
    BY <2>2 DEF Sound
  <2> QED
    BY <2>1, <2>2, <2>3, <2>4 DEF Fares
<1> QED
  BY <1>1, <1>2

\* Whatever an agent reports: the peer connection follows it.
LEMMA AgentMoves ==
    ASSUME NEW x, NEW y, Invariant(x),
           Changed(x, y, {"tr", "calls", "sctp", "conn", "iceConn"}),
           y.tr \in [Transports -> Transport], Moved(x.calls, y.calls),
           \A t \in Transports : Fares(x.tr[t], y.tr[t]),
           y.sctp \in Sctp, SctpSound(y), y.iceConn \in IceStates,
           x.conn # "closed" /\ x.iceConn = IceConnectionState(x) =>
                y.iceConn = IceConnectionState(y),
           \/ y.conn = x.conn
           \/ y.conn = "failed" /\ \E t \in x.live : y.tr[t].ice = "failed"
    PROVE  Moves(x, y)
<1>1. /\ y.live = x.live /\ y.session = x.session /\ y.connectEpoch = x.connectEpoch
      /\ y.closing = x.closing /\ y.op = x.op /\ DOMAIN y = Fields
  BY DEF Changed, Fields
<1>2. StatesSound(y)
  BY <1>1 DEF StatesSound, Invariant
<1>3. Shape(y)
  BY <1>1 DEF Shape, Invariant, Moved
<1>4. ASSUME y.conn # x.conn
      PROVE  y.conn = "failed" /\ \E t \in Transports : x.tr[t].params
  <2>1. PICK t \in x.live : y.tr[t].ice = "failed"
    BY <1>4
  <2>2. t \in Transports /\ y.tr[t] \in Transport
    BY DEF Invariant, Shape
  <2>3. x.tr[t].params
    BY <2>1, <2>2 DEF Fares, Sound
  <2> QED
    BY <1>4, <2>2, <2>3
<1> QED
  BY <1>1, <1>2, <1>3, <1>4 DEF Moves

\* Fields that only count.
Budgets == {"answers", "restarts", "rollbacks", "failures"}

LEMMA BudgetInv ==
    ASSUME NEW x, NEW y, Invariant(x), Changed(x, y, Budgets)
    PROVE  Invariant(y)
<1>1. /\ y.tr = x.tr /\ y.live = x.live /\ y.sctp = x.sctp /\ y.conn = x.conn
      /\ y.iceConn = x.iceConn /\ y.session = x.session /\ y.connectEpoch = x.connectEpoch
      /\ y.op = x.op /\ y.closing = x.closing /\ y.calls = x.calls /\ DOMAIN y = Fields
  BY DEF Changed, Fields, Budgets
<1>2. IceConnectionState(y) = IceConnectionState(x)
  BY <1>1, IcsSame
<1>3. Shape(y) /\ SctpSound(y) /\ StatesSound(y)
  BY <1>1, <1>2 DEF Invariant, Shape, SctpSound, StatesSound
<1>4. \A t \in Transports : Fares(x.tr[t], y.tr[t])
  BY <1>1, FaresSame DEF Invariant, Shape, TransportsSound
<1>5. Moved(x.calls, y.calls)
  BY <1>1, MovedSame DEF Invariant, Shape
<1>6. Moves(x, y)
  BY <1>1, <1>3, <1>4, <1>5 DEF Moves
<1> QED
  BY <1>6, MovesInv

\* The part of the invariant that the middle of an operation keeps too.
Base(x) ==
    /\ DOMAIN x = Fields /\ x.tr \in [Transports -> Transport] /\ IsCalls(x.calls)
    /\ x.live \subseteq Transports /\ x.iceConn \in IceStates
    /\ \A t \in Transports : Sound(x.tr[t])

LEMMA Facts ==
    ASSUME NEW x, Invariant(x)
    PROVE  /\ Base(x)
           /\ DOMAIN x = Fields /\ x.tr \in [Transports -> Transport] /\ IsCalls(x.calls)
           /\ x.sctp \in Sctp /\ SctpSound(x) /\ x.live \subseteq Transports
           /\ x.iceConn \in IceStates /\ Moved(x.calls, x.calls)
           /\ \A t \in Transports : x.tr[t] \in Transport /\ Sound(x.tr[t]) /\ Fares(x.tr[t], x.tr[t])
<1>1. /\ DOMAIN x = Fields /\ x.tr \in [Transports -> Transport] /\ IsCalls(x.calls)
      /\ x.sctp \in Sctp /\ SctpSound(x) /\ x.live \subseteq Transports /\ x.iceConn \in IceStates
  BY DEF Invariant, Shape
<1>2. \A t \in Transports : x.tr[t] \in Transport /\ Sound(x.tr[t])
  BY <1>1 DEF Invariant, TransportsSound
<1> QED
  BY <1>1, <1>2, MovedSame, FaresSame DEF Base

LEMMA ForwardPcs ==
    /\ Released \subseteq Forward /\ "ok" \in Forward /\ "rejected" \in Forward /\ "sctp" \in Forward
    /\ Released \intersect Ended = {} /\ Waiting \intersect Ended = {}
BY DEF Released, Waiting, Ended, Forward, Pcs

LEMMA CallsMove ==
    ASSUME NEW x, NEW y, Invariant(x), Changed(x, y, {"calls", "sctp"}), Moved(x.calls, y.calls),
           y.sctp \in Sctp, SctpSound(y)
    PROVE  Moves(x, y)
<1>1. /\ Changed(x, y, {"tr", "calls", "sctp", "conn", "iceConn"}) /\ y.tr = x.tr
      /\ y.conn = x.conn /\ y.iceConn = x.iceConn /\ y.live = x.live
  BY DEF Changed, Fields
<1>2. IceConnectionState(y) = IceConnectionState(x)
  BY <1>1, IcsSame
<1> QED
  BY <1>1, <1>2, Facts, AgentMoves

LEMMA GoMovesOn ==
    ASSUME NEW x, Invariant(x), NEW c \in DOMAIN x.calls, NEW t \in Transports, NEW pc \in Forward,
           At(x, c, t).pc \notin Ended
    PROVE  Moves(x, Go(x, c, t, pc))
<1> DEFINE y == Go(x, c, t, pc)
<1>1. Changed(x, y, {"calls"}) /\ Moved(x.calls, y.calls)
  BY Facts, GoMoves
<1> HIDE DEF y
<1>2. Changed(x, y, {"calls", "sctp"}) /\ y.sctp = x.sctp
  BY <1>1 DEF Changed, Fields
<1>3. y.sctp \in Sctp /\ SctpSound(y)
  BY <1>2, Facts DEF SctpSound
<1>4. Moves(x, y)
  BY <1>1, <1>2, <1>3, CallsMove
<1> QED
  BY <1>4 DEF y

\* A call that starts, or joins, an association.
LEMMA SctpMoves ==
    ASSUME NEW x, Invariant(x), NEW c \in DOMAIN x.calls, NEW t \in Transports, NEW pc \in Forward,
           At(x, c, t).pc \notin Ended
    PROVE  Moves(x, Go(startSctp(x), c, t, pc))
<1> DEFINE z == startSctp(x)
           y == Go(z, c, t, pc)
<1>1. Changed(x, z, {"sctp"}) /\ z.sctp \in Sctp /\ SctpSound(z)
  BY Facts, Started
<1> HIDE DEF z
<1>2. DOMAIN z = Fields /\ z.calls = x.calls /\ At(z, c, t).pc \notin Ended
  BY <1>1 DEF Changed, Fields, At
<1>3. Changed(z, y, {"calls"}) /\ Moved(x.calls, y.calls)
  BY <1>2, Facts, GoMoves
<1> HIDE DEF y
<1>4. Changed(x, y, {"calls", "sctp"}) /\ y.sctp = z.sctp
  BY <1>1, <1>3 DEF Changed, Fields
<1>5. y.sctp \in Sctp /\ SctpSound(y)
  BY <1>1, <1>4 DEF SctpSound
<1>6. Moves(x, y)
  BY <1>3, <1>4, <1>5, CallsMove
<1> QED
  BY <1>6 DEF y, z

\* What follows an await keeps the invariant, whatever happened behind it.
LEMMA BehindMoves ==
    ASSUME NEW x, Invariant(x), NEW c \in DOMAIN x.calls, NEW t \in Transports,
           At(x, c, t).pc \in Released
    PROVE  Moves(x, Behind(x, c, t))
<1> DEFINE pc == At(x, c, t).pc
           gone == ~OnCurrent(x, c, t)
           Dtls == GoesOn(x, c, t, ConnectDtls(x, t, TRUE, TRUE))
           y == Behind(x, c, t)
<1>1. pc \notin Ended
  BY ForwardPcs
<1>2. Moves(x, Go(x, c, t, "ok")) /\ Moves(x, Go(x, c, t, "rejected"))
  BY <1>1, ForwardPcs, GoMovesOn
<1>3. ASSUME ~gone
      PROVE  Moves(x, Dtls)
  <2>1. Active(x, c, t)
    BY <1>1, <1>3 DEF Active
  <2>2. x.tr[t].params /\ x.tr[t].iceStarts > 0
    BY <2>1 DEF Invariant, CallsSound
  <2>3. x.tr[t] \in Transport /\ Sound(x.tr[t])
    BY Facts
  <2> DEFINE does == ConnectDtls(x, t, TRUE, TRUE)
  <2>4. Sensible(x.tr[t], does) /\ does.pc \in Forward
    BY <2>2, <2>3, DtlsGoesOn
  <2> HIDE DEF does
  <2>5. Moves(x, GoesOn(x, c, t, does))
    BY <2>1, <2>4, GoesOnMoves
  <2> QED
    BY <2>5 DEF does
<1>4. Moves(x, connectSctp(x, c, t))
  <2>1. connectSctp(x, c, t) \in {Go(startSctp(x), c, t, "sctp"), Go(x, c, t, "ok")}
    BY DEF connectSctp
  <2>2. Moves(x, Go(startSctp(x), c, t, "sctp"))
    BY <1>1, ForwardPcs, SctpMoves
  <2> QED
    BY <1>2, <2>1, <2>2
<1>5. Moves(x, Go(startJoinedSctp(x, t), c, t, "ok"))
  <2>1. startJoinedSctp(x, t) = startSctp(x) \/ startJoinedSctp(x, t) = x
    BY DEF startJoinedSctp
  <2>2. Moves(x, Go(startSctp(x), c, t, "ok"))
    BY <1>1, ForwardPcs, SctpMoves
  <2> QED
    BY <1>2, <2>1, <2>2
<1>6. pc \in {"iceOk", "iceErr", "joined", "dtlsOk", "dtlsErr", "dtlsSettled", "sctpOk"}
  BY DEF Released
<1>7. \/ y \in {Go(x, c, t, "ok"), Go(x, c, t, "rejected"), connectSctp(x, c, t),
                Go(startJoinedSctp(x, t), c, t, "ok")}
      \/ ~gone /\ y = Dtls
  <2> HIDE DEF Dtls, gone
  <2>1. CASE pc = "iceErr" \/ pc = "dtlsErr"
    BY <2>1 DEF Behind
  <2>2. CASE pc = "sctpOk"
    BY <2>2 DEF Behind
  <2>3. CASE pc = "iceOk"
    <3>1. y = IF gone THEN Go(x, c, t, "ok") ELSE Dtls
      BY <2>3 DEF Behind, gone, Dtls
    <3> HIDE DEF y
    <3> QED
      BY <3>1
  <2>4. CASE pc = "joined"
    <3>1. y = IF gone \/ ~IceReady(x, t) THEN Go(x, c, t, "rejected") ELSE Dtls
      BY <2>4 DEF Behind, gone, Dtls
    <3> HIDE DEF y
    <3> QED
      BY <3>1
  <2>5. CASE pc = "dtlsSettled"
    <3>1. y = IF gone \/ x.tr[t].dtls # "connected" THEN Go(x, c, t, "rejected")
              ELSE Go(startJoinedSctp(x, t), c, t, "ok")
      BY <2>5 DEF Behind, gone
    <3> HIDE DEF y
    <3> QED
      BY <3>1
  <2>6. CASE pc = "dtlsOk"
    <3>1. y = IF gone THEN Go(x, c, t, "ok") ELSE connectSctp(x, c, t)
      BY <2>6 DEF Behind, gone
    <3> HIDE DEF y
    <3> QED
      BY <3>1
  <2> QED
    BY <1>6, <2>1, <2>2, <2>3, <2>4, <2>5, <2>6
<1> HIDE DEF y, Dtls, gone, pc
<1>8. Moves(x, y)
  BY <1>2, <1>3, <1>4, <1>5, <1>7
<1> QED
  BY <1>8 DEF y

\* Transports whose ICE state alone changes.
LEMMA IceGoes ==
    ASSUME NEW x, Base(x), NEW T \in SUBSET Transports, NEW state \in IceStates,
           \A t \in T : state \in {"checking", "connected", "failed"} => x.tr[t].checksStarted
    PROVE  LET y == setIceStates(x, T, state)
           IN  /\ IceSet(x, y, T, state) /\ y.tr \in [Transports -> Transport]
               /\ \A u \in Transports : Fares(x.tr[u], y.tr[u])
<1> DEFINE y == setIceStates(x, T, state)
<1>1. IceSet(x, y, T, state)
  BY IceStatesSet DEF Base
<1> HIDE DEF y
<1>2. \A u \in Transports : Fares(x.tr[u], y.tr[u])
  <2>1. ASSUME NEW u \in Transports
        PROVE  Fares(x.tr[u], y.tr[u])
    <3>1. x.tr[u] \in Transport /\ Sound(x.tr[u])
      BY DEF Base
    <3>2. y.tr[u] = IF u \in T THEN SetIce(x.tr[u], state) ELSE x.tr[u]
      BY <1>1 DEF IceSet
    <3> QED
      BY <3>1, <3>2, IceFares, FaresSame
  <2> QED
    BY <2>1
<1>3. y.tr \in [Transports -> Transport]
  <2>1. \A u \in Transports : y.tr[u] \in Transport
    BY <1>2 DEF Fares
  <2> QED
    BY <1>1, <2>1 DEF IceSet
<1> QED
  BY <1>1, <1>2, <1>3 DEF y

LEMMA IceMoves ==
    ASSUME NEW x, Invariant(x), NEW t \in Transports, NEW state \in IceStates,
           state \in {"checking", "connected", "failed"} => x.tr[t].checksStarted
    PROVE  Moves(x, setIceState(x, t, state))
<1> DEFINE T == {t}
           y == setIceStates(x, T, state)
<1>1. /\ IceSet(x, y, T, state) /\ y.tr \in [Transports -> Transport]
      /\ \A u \in Transports : Fares(x.tr[u], y.tr[u])
  BY Facts, IceGoes
<1>2. y = setIceState(x, t, state)
  BY DEF setIceState
<1> HIDE DEF y
<1>3. /\ Changed(x, y, {"tr", "calls", "sctp", "conn", "iceConn"})
      /\ y.calls = x.calls /\ y.sctp = x.sctp
  BY <1>1 DEF IceSet, Changed, Fields
<1>4. SctpSound(y)
  BY <1>3, Facts DEF SctpSound
<1>5. Moves(x, y)
  BY <1>1, <1>3, <1>4, Facts, AgentMoves DEF IceSet
<1> QED
  BY <1>2, <1>5

WithWait(r, wait) == [r EXCEPT !.wait = wait]

LEMMA WaitFares ==
    ASSUME NEW r \in Transport, Sound(r), NEW wait \in {0, r.gen}
    PROVE  LET q == WithWait(r, wait)
           IN  /\ Fares(r, q) /\ q.ice = r.ice /\ q.dtls = r.dtls
<1> DEFINE q == WithWait(r, wait)
<1>1. q \in Transport
  BY DEF WithWait, Transport
<1>2. /\ q.ice = r.ice /\ q.dtls = r.dtls /\ q.dtlsStarts = r.dtlsStarts
      /\ q.inc = r.inc /\ q.gen = r.gen /\ q.params = r.params
      /\ q.checksStarted = r.checksStarted /\ q.wait = wait /\ q.iceStarts = r.iceStarts
  BY DEF WithWait, Transport
<1> HIDE DEF q
<1>3. Sound(q)
  BY <1>2 DEF Sound
<1> QED
  BY <1>1, <1>2, <1>3 DEF Fares, q

LEMMA FaresTrans ==
    ASSUME NEW r, NEW q, NEW w, Fares(r, q), Fares(q, w)
    PROVE  Fares(r, w)
BY DEF Fares

\* The end of start(): its call and those that joined it go on.
LEMMA StartMoves ==
    ASSUME NEW x, Invariant(x), NEW t \in Transports, NEW state \in {"connected", "failed"},
           x.tr[t].ice = "checking", NEW c \in OnTransport(x, t, {"start"}), NEW next \in Forward
    PROVE  Moves(x, startSettles(setIceState(x, t, state), c, t, next))
<1> DEFINE T == {t}
           x1 == setIceStates(x, T, state)
           gen == At(x1, c, t).gen
           joins == {"join"}
           gens == {gen}
           x2 == ReleaseAll(x1, t, joins, gens, "joined")
           old == x2.tr[t].wait
           wait == IF old = gen THEN 0 ELSE old
           tr == [x2.tr EXCEPT ![t] = WithWait(x2.tr[t], wait)]
           x3 == [x2 EXCEPT !.tr = tr]
           y == Go(x3, c, t, next)
<1>0. startSettles(setIceState(x, t, state), c, t, next) = y
  BY DEF startSettles, setIceState, WithWait
<1>1. c \in DOMAIN x.calls /\ At(x, c, t).pc = "start" /\ "joined" \in Forward
      /\ (\A pc \in joins : pc \notin Ended) /\ "start" \notin joins /\ "start" \notin Ended
  BY ForwardPcs DEF OnTransport, Entries, Ended, Released
<1>2. /\ IceSet(x, x1, T, state) /\ x1.tr \in [Transports -> Transport]
      /\ \A u \in Transports : Fares(x.tr[u], x1.tr[u])
  <2>1. \A u \in T : x.tr[u].checksStarted
    BY Facts DEF Sound
  <2>2. state \in IceStates
    BY DEF IceStates
  <2> QED
    BY <2>1, <2>2, Facts, IceGoes
<1> HIDE DEF y, x3, tr, wait, x2, gens, gen, x1, joins
<1>3. /\ DOMAIN x1 = Fields /\ x1.calls = x.calls /\ x1.sctp = x.sctp /\ x1.live = x.live
      /\ Changed(x, x1, {"tr", "conn", "iceConn"})
  BY <1>2 DEF IceSet, Changed, Fields
<1>4. /\ Changed(x1, x2, {"calls"}) /\ Moved(x.calls, x2.calls) /\ At(x2, c, t).pc = "start"
  <2>1. IsCalls(x1.calls) /\ c \in DOMAIN x1.calls /\ At(x1, c, t).pc = "start"
    BY <1>1, <1>3, Facts DEF At
  <2>2. Frees(x1, x2, joins)
    <3>1. x2 = ReleaseAll(x1, t, joins, gens, "joined")
      BY DEF x2
    <3>2. /\ DOMAIN x1 = Fields /\ IsCalls(x1.calls) /\ "joined" \in Forward
          /\ \A pc \in joins : pc \notin Ended
      BY <1>1, <1>3, <2>1
    <3> QED
      BY <3>1, <3>2, ReleaseMoves
  <2> QED
    BY <1>1, <1>3, <2>1, <2>2 DEF Frees
<1>5. DOMAIN x2 = Fields /\ x2.tr = x1.tr /\ DOMAIN x2.calls = DOMAIN x.calls /\ IsCalls(x2.calls)
  BY <1>4 DEF Changed, Fields, Moved
<1>6. /\ tr \in [Transports -> Transport]
      /\ \A u \in Transports : Fares(x1.tr[u], tr[u]) /\ tr[u].ice = x1.tr[u].ice
  <2>1. \A u \in Transports : x1.tr[u] \in Transport /\ Sound(x1.tr[u]) /\ Fares(x1.tr[u], x1.tr[u])
    BY <1>2, FaresSame DEF Fares
  <2>2. wait \in {0, x1.tr[t].gen}
    <3>1. wait = 0 \/ wait = x1.tr[t].wait
      BY <1>5 DEF wait
    <3> QED
      BY <2>1, <3>1 DEF Sound
  <2>3. /\ Fares(x1.tr[t], WithWait(x1.tr[t], wait)) /\ WithWait(x1.tr[t], wait).ice = x1.tr[t].ice
    BY <2>1, <2>2, WaitFares
  <2>4. tr[t] = WithWait(x1.tr[t], wait) /\ \A u \in Transports : u # t => tr[u] = x1.tr[u]
    BY <1>2, <1>5 DEF tr
  <2>5. tr \in [Transports -> Transport]
    BY <1>2, <1>5, <2>3 DEF tr, Fares
  <2> QED
    BY <2>1, <2>3, <2>4, <2>5
<1>7. Changed(x2, x3, {"tr"}) /\ x3.tr = tr /\ x3.calls = x2.calls /\ DOMAIN x3 = Fields
  BY <1>5 DEF Changed, Fields, x3
<1>8. Changed(x3, y, {"calls"}) /\ Moved(x2.calls, y.calls)
  <2>1. At(x3, c, t).pc \notin Ended
    BY <1>1, <1>4, <1>7 DEF At
  <2> QED
    BY <1>1, <1>5, <1>7, <2>1, GoMoves DEF y
<1>9. /\ Changed(x, y, {"tr", "calls", "sctp", "conn", "iceConn"}) /\ y.tr = tr
      /\ y.sctp = x.sctp /\ y.conn = x1.conn /\ y.iceConn = x1.iceConn /\ y.live = x1.live
  BY <1>3, <1>4, <1>7, <1>8 DEF Changed, Fields
<1>10. Moved(x.calls, y.calls) /\ SctpSound(y)
  BY <1>4, <1>8, <1>9, MovedTrans, Facts DEF SctpSound
<1>11. \A u \in Transports : Fares(x.tr[u], y.tr[u]) /\ y.tr[u].ice = x1.tr[u].ice
  BY <1>2, <1>6, <1>9, FaresTrans
<1>12. IceConnectionState(y) = IceConnectionState(x1)
  <2>1. \A u \in x1.live : y.tr[u].ice = x1.tr[u].ice
    BY <1>3, <1>11, Facts
  <2> QED
    BY <1>9, <2>1, IcsSame
<1>13. /\ x.conn # "closed" /\ x.iceConn = IceConnectionState(x) => y.iceConn = IceConnectionState(y)
       /\ \/ y.conn = x.conn
          \/ y.conn = "failed" /\ \E u \in x.live : y.tr[u].ice = "failed"
       /\ y.iceConn \in IceStates
  BY <1>2, <1>9, <1>11, <1>12, Facts DEF IceSet
<1>14. Moves(x, y)
  BY <1>6, <1>9, <1>10, <1>11, <1>13, Facts, AgentMoves
<1> QED
  BY <1>0, <1>14

\* The end of the handshake: its call and those that joined it go on.
LEMMA DtlsMoves ==
    ASSUME NEW x, Invariant(x), NEW t \in Transports, NEW state \in {"connected", "failed"},
           x.tr[t].dtls = "connecting", NEW next \in Forward
    PROVE  Moves(x, dtlsSettles(x, t, state, next))
<1> DEFINE n == x.tr[t].dtlsStarts
           tr == [x.tr EXCEPT ![t] = WithDtls(x.tr[t], state, n)]
           x1 == [x EXCEPT !.tr = tr]
           joins == {"dtlsJoin"}
           starts == {"dtls"}
           x2 == ReleaseAll(x1, t, joins, Nat, "dtlsSettled")
           y == ReleaseAll(x2, t, starts, Nat, next)
<1>1. /\ x.tr[t] \in Transport /\ Sound(x.tr[t]) /\ DOMAIN x = Fields /\ state \in DtlsStates
      /\ x.tr \in [Transports -> Transport] /\ n \in Nat
  BY Facts DEF DtlsStates, Transport
<1>2. x1 = [x EXCEPT !.tr[t].dtls = state]
  <2>1. WithDtls(x.tr[t], state, n) = [x.tr[t] EXCEPT !.dtls = state]
    BY <1>1 DEF WithDtls, Transport
  <2> QED
    BY <2>1
<1>3. dtlsSettles(x, t, state, next) = y
  BY <1>2 DEF dtlsSettles
<1>4. Fares(x.tr[t], WithDtls(x.tr[t], state, n)) /\ WithDtls(x.tr[t], state, n).ice = x.tr[t].ice
  <2> DEFINE q == WithDtls(x.tr[t], state, n)
             r == x.tr[t]
  <2>1. q = WithDtls(r, state, n) /\ r \in Transport
    BY <1>1
  <2> HIDE DEF q, r, n
  <2>2. /\ q \in Transport /\ q.dtls = state /\ q.dtlsStarts = n
        /\ q.inc = r.inc /\ q.gen = r.gen /\ q.ice = r.ice /\ q.params = r.params
        /\ q.checksStarted = r.checksStarted /\ q.wait = r.wait /\ q.iceStarts = r.iceStarts
    BY <1>1, <2>1, NewDtls
  <2>3. Sound(r) /\ r.dtls = "connecting" /\ n = r.dtlsStarts
    BY <1>1 DEF r, n
  <2>4. Sound(q)
    BY <2>2, <2>3 DEF Sound
  <2> QED
    BY <2>2, <2>4 DEF Fares, q, r
<1> HIDE DEF y, x2, x1, n, joins, starts
<1>5. tr \in [Transports -> Transport] /\ \A u \in Transports : Fares(x.tr[u], tr[u]) /\ tr[u].ice = x.tr[u].ice
  <2>1. /\ tr[t] = WithDtls(x.tr[t], state, n)
        /\ \A u \in Transports : u # t => tr[u] = x.tr[u]
    BY <1>1
  <2>2. WithDtls(x.tr[t], state, n) \in Transport
    BY <1>4 DEF Fares
  <2>3. tr \in [Transports -> Transport]
    BY <1>1, <2>2
  <2> HIDE DEF tr
  <2> QED
    BY <1>4, <2>1, <2>3, Facts
<1> HIDE DEF tr
<1>6. /\ Changed(x, x1, {"tr"}) /\ x1.tr = tr /\ x1.calls = x.calls /\ DOMAIN x1 = Fields
  BY <1>1 DEF Changed, Fields, x1
<1>7. Frees(x1, x2, joins) /\ DOMAIN x2 = Fields /\ IsCalls(x2.calls)
  <2>1. /\ IsCalls(x1.calls) /\ "dtlsSettled" \in Forward
        /\ \A pc \in joins : pc \notin Ended
    BY <1>6, Facts, ForwardPcs DEF joins, Ended, Released
  <2>2. Frees(x1, x2, joins)
    BY <1>6, <2>1, ReleaseMoves DEF x2
  <2> QED
    BY <2>2 DEF Frees, Changed, Moved
<1>8. Frees(x2, y, starts)
  <2>1. \A pc \in starts : pc \notin Ended
    BY DEF starts, Ended
  <2> QED
    BY <1>7, <2>1, ReleaseMoves DEF y
<1>9. /\ Changed(x, y, {"tr", "calls", "sctp", "conn", "iceConn"}) /\ y.tr = tr
      /\ y.sctp = x.sctp /\ y.conn = x.conn /\ y.iceConn = x.iceConn /\ y.live = x.live
      /\ Moved(x.calls, y.calls)
  <2>1. Changed(x1, x2, {"calls"}) /\ Changed(x2, y, {"calls"})
    BY <1>7, <1>8 DEF Frees
  <2>2. Moved(x1.calls, x2.calls) /\ Moved(x2.calls, y.calls)
    BY <1>7, <1>8 DEF Frees
  <2> QED
    BY <1>6, <2>1, <2>2, MovedTrans DEF Changed, Fields
<1>10. IceConnectionState(y) = IceConnectionState(x)
  <2>1. \A u \in x.live : y.tr[u].ice = x.tr[u].ice
    BY <1>5, <1>9, Facts
  <2> QED
    BY <1>9, <2>1, IcsSame
<1>11. SctpSound(y) /\ y.sctp \in Sctp /\ y.iceConn \in IceStates
  BY <1>9, Facts DEF SctpSound
<1>12. Moves(x, y)
  BY <1>5, <1>9, <1>10, <1>11, AgentMoves
<1> QED
  BY <1>3, <1>12

LEMMA Closed ==
    ASSUME NEW r \in Transport, Sound(r)
    PROVE  LET q == [r EXCEPT !.dtls = "closed", !.wait = 0]
           IN  Fares(r, q) /\ q.ice = r.ice
<1> DEFINE q == [r EXCEPT !.dtls = "closed", !.wait = 0]
<1>1. q \in Transport
  BY DEF Transport, DtlsStates
<1>2. /\ q.ice = r.ice /\ q.dtls = "closed" /\ q.dtlsStarts = r.dtlsStarts
      /\ q.inc = r.inc /\ q.gen = r.gen /\ q.params = r.params
      /\ q.checksStarted = r.checksStarted /\ q.wait = 0 /\ q.iceStarts = r.iceStarts
  BY DEF Transport
<1> HIDE DEF q
<1>3. Sound(q)
  BY <1>2 DEF Sound
<1> QED
  BY <1>1, <1>2, <1>3 DEF Fares, q

\* stop() of every live transport: who joined goes on, and all are closed.
LEMMA StopGoes ==
    ASSUME NEW x, Base(x)
    PROVE  LET y == stopTransports(x)
           IN  /\ Changed(x, y, {"tr", "calls", "conn", "iceConn"})
               /\ y.tr \in [Transports -> Transport] /\ Moved(x.calls, y.calls)
               /\ \A t \in Transports : Fares(x.tr[t], y.tr[t])
               /\ y.iceConn \in IceStates
               /\ x.conn # "closed" /\ x.iceConn = IceConnectionState(x) =>
                      y.iceConn = IceConnectionState(y)
               /\ \/ y.conn = x.conn
                  \/ y.conn = "failed" /\ \E t \in x.live : y.tr[t].ice = "failed"
<1> DEFINE new(c) == [x.calls[c] EXCEPT !.at = [t \in Transports |-> Stopped(x, c, t)]]
           calls == [c \in DOMAIN x.calls |-> new(c)]
           shut(t) == [x.tr[t] EXCEPT !.dtls = "closed", !.wait = 0]
           tr == [t \in Transports |-> IF t \in x.live THEN shut(t) ELSE x.tr[t]]
           z == [x EXCEPT !.calls = calls, !.tr = tr]
           y == setIceStates(z, x.live, "closed")
<1>1. stopTransports(x) = y
  BY DEF stopTransports
<1>2. ASSUME NEW c \in DOMAIN x.calls, NEW t \in Transports
      PROVE  /\ Stopped(x, c, t) \in Place
             /\ Stopped(x, c, t).inc = x.calls[c].at[t].inc
             /\ \/ Stopped(x, c, t).pc = x.calls[c].at[t].pc
                \/ x.calls[c].at[t].pc \notin Ended /\ Stopped(x, c, t).pc \in Forward
  <2> DEFINE a == x.calls[c].at[t]
  <2>1. a \in Place
    BY CallType DEF Base, Call
  <2>2. Stopped(x, c, t) = a \/ (a.pc = "dtlsJoin" /\ Stopped(x, c, t) = [a EXCEPT !.pc = "dtlsSettled"])
                             \/ (a.pc = "join" /\ Stopped(x, c, t) = [a EXCEPT !.pc = "joined"])
    BY DEF Stopped, At
  <2>3. \A pc \in Forward : /\ [a EXCEPT !.pc = pc] \in Place
                            /\ [a EXCEPT !.pc = pc].pc = pc /\ [a EXCEPT !.pc = pc].inc = a.inc
    BY <2>1 DEF Place, Forward
  <2>4. "dtlsSettled" \in Forward /\ "joined" \in Forward /\ "dtlsJoin" \notin Ended /\ "join" \notin Ended
    BY ForwardPcs DEF Released, Ended
  <2> HIDE DEF a
  <2>5. CASE Stopped(x, c, t) = a
    BY <2>1, <2>5 DEF a
  <2>6. CASE a.pc = "dtlsJoin" /\ Stopped(x, c, t) = [a EXCEPT !.pc = "dtlsSettled"]
    BY <2>3, <2>4, <2>6 DEF a
  <2>7. CASE a.pc = "join" /\ Stopped(x, c, t) = [a EXCEPT !.pc = "joined"]
    BY <2>3, <2>4, <2>7 DEF a
  <2> QED
    BY <2>2, <2>5, <2>6, <2>7
<1>3. ASSUME NEW c \in DOMAIN x.calls
      PROVE  /\ new(c) \in Call /\ new(c).epoch = x.calls[c].epoch /\ new(c).done = x.calls[c].done
             /\ \A t \in Transports : new(c).at[t] = Stopped(x, c, t)
  <2>1. x.calls[c] \in Call
    BY CallType DEF Base
  <2>2. [t \in Transports |-> Stopped(x, c, t)] \in [Transports -> Place]
    BY <1>2
  <2> QED
    BY <2>1, <2>2 DEF Call
<1>4. Moved(x.calls, calls)
  <2>1. \A c \in DOMAIN x.calls : calls[c] = new(c)
    OBVIOUS
  <2>2. calls \in [DOMAIN x.calls -> Call]
    BY <1>3
  <2>3. IsCalls(x.calls)
    BY DEF Base
  <2> HIDE DEF calls, new
  <2>4. ASSUME NEW c \in DOMAIN x.calls
        PROVE  /\ calls[c].epoch = x.calls[c].epoch /\ calls[c].done = x.calls[c].done
               /\ \A t \in Transports :
                     /\ calls[c].at[t].inc = x.calls[c].at[t].inc
                     /\ \/ calls[c].at[t].pc = x.calls[c].at[t].pc
                        \/ x.calls[c].at[t].pc \notin Ended /\ calls[c].at[t].pc \in Forward
    BY <1>2, <1>3, <2>1
  <2> QED
    BY <2>2, <2>3, <2>4, PlaceMoves
<1>5. \A t \in Transports : Fares(x.tr[t], shut(t)) /\ shut(t).ice = x.tr[t].ice
  BY Closed DEF Base
<1> HIDE DEF shut
<1>6. /\ tr \in [Transports -> Transport]
      /\ \A t \in Transports : Fares(x.tr[t], tr[t]) /\ tr[t].ice = x.tr[t].ice
  <2>1. \A t \in Transports : x.tr[t] \in Transport /\ Fares(x.tr[t], x.tr[t]) /\ shut(t) \in Transport
    BY <1>5, FaresSame DEF Base, Fares
  <2> QED
    BY <1>5, <2>1
<1>7. Changed(x, z, {"tr", "calls"}) /\ z.tr = tr /\ z.calls = calls
  BY DEF Base, Changed, Fields
<1> HIDE DEF y, z, tr, calls
<1>8. /\ DOMAIN z = Fields /\ z.live = x.live /\ z.conn = x.conn /\ z.iceConn = x.iceConn
  BY <1>7 DEF Changed, Fields
<1>9. Base(z)
  BY <1>4, <1>6, <1>7, <1>8 DEF Base, Moved, Fares
<1>10. /\ IceSet(z, y, x.live, "closed") /\ y.tr \in [Transports -> Transport]
       /\ \A u \in Transports : Fares(z.tr[u], y.tr[u])
  BY <1>9, IceGoes DEF Base, IceStates, y
<1>11. Changed(x, y, {"tr", "calls", "conn", "iceConn"}) /\ y.calls = calls
  BY <1>7, <1>10 DEF IceSet, Changed, Fields
<1>12. \A t \in Transports : Fares(x.tr[t], y.tr[t])
  BY <1>6, <1>7, <1>10, FaresTrans
<1>13. IceConnectionState(z) = IceConnectionState(x)
  BY <1>6, <1>7, <1>8, IcsSame DEF Base
<1> QED
  BY <1>1, <1>4, <1>8, <1>10, <1>11, <1>12, <1>13 DEF IceSet

-----------------------------------------------------------------------------
(* The actions of calls and agents.                                          *)

LEMMA FailuresInv ==
    ASSUME NEW x, Invariant(x)
    PROVE  LET y == [x EXCEPT !.failures = @ - 1]
           IN  Invariant(y) /\ y.tr = x.tr /\ y.calls = x.calls
<1> DEFINE n == x.failures - 1
           y == [x EXCEPT !.failures = n]
<1>1. Changed(x, y, Budgets) /\ y.tr = x.tr /\ y.calls = x.calls
  BY Facts DEF Changed, Budgets, Fields
<1> HIDE DEF y
<1>2. Invariant(y)
  BY <1>1, BudgetInv
<1> QED
  BY <1>1, <1>2 DEF y

LEMMA ResumeInv ==
    ASSUME Invariant(s), NEW c \in DOMAIN s.calls, NEW t \in Transports, Resume(c, t)
    PROVE  Invariant(s')
<1>1. At(s, c, t).pc \in Released /\ s' = Behind(s, c, t)
  BY DEF Resume, Ready
<1>2. Moves(s, Behind(s, c, t))
  BY <1>1, BehindMoves
<1> QED
  BY <1>1, <1>2, MovesInv

LEMMA IceInv ==
    ASSUME Invariant(s), NEW t \in Transports,
           Gathered(t) \/ IceConnected(t) \/ IceStartFails(t) \/ IceFails(t)
    PROVE  Invariant(s')
<1>1. "completed" \in IceStates /\ "failed" \in IceStates /\ "iceOk" \in Forward /\ "iceErr" \in Forward
  BY ForwardPcs DEF IceStates, Released
<1>2. CASE Gathered(t)
  <2>1. s' = setIceState(s, t, "completed")
    BY <1>2 DEF Gathered
  <2>2. Moves(s, setIceState(s, t, "completed"))
    BY <1>1, IceMoves
  <2> QED
    BY <2>1, <2>2, MovesInv
<1>3. CASE IceConnected(t)
  <2>1. PICK c \in OnTransport(s, t, {"start"}) :
            s' = startSettles(setIceState(s, t, "connected"), c, t, "iceOk")
    BY <1>3 DEF IceConnected
  <2>2. s.tr[t].ice = "checking"
    BY <1>3 DEF IceConnected
  <2>3. Moves(s, startSettles(setIceState(s, t, "connected"), c, t, "iceOk"))
    BY <1>1, <2>2, StartMoves
  <2> QED
    BY <2>1, <2>3, MovesInv
<1> DEFINE x == [s EXCEPT !.failures = @ - 1]
<1>4. Invariant(x) /\ x.tr = s.tr /\ x.calls = s.calls
  BY FailuresInv
<1>5. CASE IceStartFails(t)
  <2>1. PICK c \in OnTransport(s, t, {"start"}) :
            s' = startSettles(setIceState(x, t, "failed"), c, t, "iceErr")
    BY <1>5 DEF IceStartFails
  <2>2. s.tr[t].ice = "checking"
    BY <1>5 DEF IceStartFails
  <2> HIDE DEF x
  <2>3. c \in OnTransport(x, t, {"start"})
    BY <1>4, <2>1 DEF OnTransport, Entries, OnCurrent, At
  <2>4. Moves(x, startSettles(setIceState(x, t, "failed"), c, t, "iceErr"))
    BY <1>1, <1>4, <2>2, <2>3, StartMoves
  <2> QED
    BY <1>4, <2>1, <2>4, MovesInv
<1>6. CASE IceFails(t)
  <2>1. s' = setIceState(x, t, "failed") /\ s.tr[t].ice = "connected"
    BY <1>6 DEF IceFails
  <2> HIDE DEF x
  <2>2. x.tr[t].checksStarted
    BY <1>4, <2>1, Facts DEF Sound
  <2>3. Moves(x, setIceState(x, t, "failed"))
    BY <1>1, <1>4, <2>2, IceMoves
  <2> QED
    BY <1>4, <2>1, <2>3, MovesInv
<1> QED
  BY <1>2, <1>3, <1>5, <1>6

LEMMA DtlsInv ==
    ASSUME Invariant(s), NEW t \in Transports, DtlsConnected(t) \/ DtlsFails(t)
    PROVE  Invariant(s')
<1>1. "dtlsOk" \in Forward /\ "dtlsErr" \in Forward
  BY ForwardPcs DEF Released
<1>2. CASE DtlsConnected(t)
  <2>1. s' = dtlsSettles(s, t, "connected", "dtlsOk") /\ s.tr[t].dtls = "connecting"
    BY <1>2 DEF DtlsConnected
  <2>2. Moves(s, dtlsSettles(s, t, "connected", "dtlsOk"))
    BY <1>1, <2>1, DtlsMoves
  <2> QED
    BY <2>1, <2>2, MovesInv
<1>3. CASE DtlsFails(t)
  <2> DEFINE x == [s EXCEPT !.failures = @ - 1]
  <2>1. s' = dtlsSettles(x, t, "failed", "dtlsErr") /\ s.tr[t].dtls = "connecting"
    BY <1>3 DEF DtlsFails
  <2>2. Invariant(x) /\ x.tr = s.tr
    BY FailuresInv
  <2> HIDE DEF x
  <2>3. Moves(x, dtlsSettles(x, t, "failed", "dtlsErr"))
    BY <1>1, <2>1, <2>2, DtlsMoves
  <2> QED
    BY <2>1, <2>2, <2>3, MovesInv
<1> QED
  BY <1>2, <1>3

LEMMA SctpConnectedInv ==
    ASSUME Invariant(s), scenario \in Scenarios, SctpConnected
    PROVE  Invariant(s')
<1> DEFINE x == [s EXCEPT !.sctp.state = "connected"]
           t == scenario.sctp
           waits == {"sctp"}
           y == ReleaseAll(x, t, waits, Nat, "sctpOk")
<1>1. s' = y /\ s.sctp.state = "started"
  BY DEF SctpConnected
<1>2. Changed(s, x, {"sctp"}) /\ x.sctp = [s.sctp EXCEPT !.state = "connected"]
  BY Facts DEF Changed, Fields
<1>3. x.sctp \in Sctp /\ SctpSound(x)
  <2>1. s.sctp \in Sctp /\ SctpSound(s)
    BY Facts
  <2> HIDE DEF x
  <2>2. x.sctp \in Sctp /\ x.sctp.starts = s.sctp.starts /\ x.sctp.state = "connected"
    BY <1>2, <2>1 DEF Sctp
  <2> QED
    BY <2>1, <2>2 DEF SctpSound
<1>4. t \in Transports
  BY ScenariosAssumption
<1> HIDE DEF x, t, waits
<1>5. Frees(x, y, waits)
  <2>1. /\ DOMAIN x = Fields /\ IsCalls(x.calls) /\ "sctpOk" \in Forward
        /\ \A pc \in waits : pc \notin Ended
    BY <1>2, Facts, ForwardPcs DEF Changed, Fields, waits, Ended, Released
  <2> QED
    BY <1>4, <2>1, ReleaseMoves
<1> HIDE DEF y
<1>6. Changed(s, y, {"calls", "sctp"}) /\ y.sctp = x.sctp /\ Moved(s.calls, y.calls)
  BY <1>2, <1>5 DEF Frees, Changed, Fields
<1>7. y.sctp \in Sctp /\ SctpSound(y)
  BY <1>3, <1>6 DEF SctpSound
<1> QED
  BY <1>1, <1>6, <1>7, CallsMove, MovesInv

LEMMA LateOutcomeInv ==
    ASSUME Invariant(s), NEW c \in DOMAIN s.calls, NEW t \in Transports, LateOutcome(c, t)
    PROVE  Invariant(s')
<1>1. PICK pc \in {"iceOk", "iceErr", "dtlsErr"} :
          s' = Go(s, c, t, pc) /\ At(s, c, t).pc \in {"start", "dtls"}
  BY DEF LateOutcome
<1>2. pc \in Forward /\ At(s, c, t).pc \notin Ended
  BY <1>1, ForwardPcs DEF Released, Ended
<1>3. Moves(s, Go(s, c, t, pc))
  BY <1>2, GoMovesOn
<1> QED
  BY <1>1, <1>3, MovesInv

LEMMA CreateDataChannelInv ==
    ASSUME Invariant(s), CreateDataChannel
    PROVE  Invariant(s')
<1> DEFINE y == [s EXCEPT !.sctp = NewSctp("idle")]
<1>1. s' = y
  BY DEF CreateDataChannel
<1>2. Changed(s, y, {"calls", "sctp"}) /\ y.sctp = NewSctp("idle") /\ y.calls = s.calls
  BY Facts DEF Changed, Fields
<1> HIDE DEF y
<1>3. y.sctp \in Sctp /\ SctpSound(y)
  BY <1>2 DEF NewSctp, Sctp, SctpSound
<1>4. Moves(s, y)
  BY <1>2, <1>3, Facts, CallsMove
<1> QED
  BY <1>1, <1>4, MovesInv

-----------------------------------------------------------------------------
(* The actions that stop.                                                    *)

LEMMA SctpStops ==
    ASSUME NEW x, Invariant(x)
    PROVE  LET y == stopSctp(x)
           IN  Changed(x, y, {"sctp"}) /\ y.sctp \in Sctp /\ SctpSound(y)
<1> DEFINE state == IF x.sctp.state \in {"started", "connected"} THEN "stopped" ELSE x.sctp.state
           sctp == [x.sctp EXCEPT !.state = state]
           y == stopSctp(x)
<1>1. y = [x EXCEPT !.sctp = sctp]
  BY DEF stopSctp
<1>2. Changed(x, y, {"sctp"}) /\ y.sctp = sctp
  BY <1>1, Facts DEF Changed, Fields
<1>3. x.sctp \in Sctp /\ SctpSound(x)
  BY Facts
<1>4. sctp \in Sctp /\ sctp.starts = x.sctp.starts /\ sctp.state = state
  BY <1>3 DEF Sctp
<1>5. state \in {"none", "idle"} => x.sctp.state \in {"none", "idle"}
  OBVIOUS
<1> HIDE DEF y, sctp, state
<1> QED
  BY <1>2, <1>3, <1>4, <1>5 DEF SctpSound, y

LEMMA CloseInv ==
    ASSUME Invariant(s), Close
    PROVE  Invariant(s')
<1> DEFINE x == stopSctp(s)
           y == [x EXCEPT !.closing = "stopping"]
<1>1. s' = y /\ s.closing = "open"
  BY DEF Close
<1>2. Changed(s, x, {"sctp"}) /\ x.sctp \in Sctp /\ SctpSound(x)
  BY SctpStops
<1> HIDE DEF x
<1>3. /\ DOMAIN y = Fields /\ y.closing = "stopping" /\ y.sctp = x.sctp /\ y.tr = s.tr
      /\ y.calls = s.calls /\ y.live = s.live /\ y.conn = s.conn /\ y.iceConn = s.iceConn
      /\ y.session = s.session /\ y.connectEpoch = s.connectEpoch /\ y.op = s.op
  BY <1>2 DEF Changed, Fields
<1> HIDE DEF y
<1>4. IceConnectionState(y) = IceConnectionState(s)
  BY <1>3, IcsSame
<1>5. Shape(y) /\ StatesSound(y) /\ SctpSound(y)
  BY <1>1, <1>2, <1>3, <1>4 DEF Invariant, Shape, StatesSound, SctpSound
<1>6. Moves(s, y)
  BY <1>3, <1>5, Facts DEF Moves
<1> QED
  BY <1>1, <1>6, MovesInv

LEMMA CloseEndsInv ==
    ASSUME Invariant(s), CloseEnds
    PROVE  Invariant(s')
<1> DEFINE x == setConnectionState(s, "closed")
           z == stopTransports(x)
           y == [z EXCEPT !.closing = "closed"]
<1>1. s' = y /\ s.closing = "stopping"
  BY DEF CloseEnds
<1>2. Changed(s, x, {"conn"}) /\ x.conn = "closed"
  BY Facts DEF setConnectionState, Changed, Fields
<1> HIDE DEF x
<1>3. /\ Base(x) /\ x.tr = s.tr /\ x.calls = s.calls /\ x.live = s.live
  BY <1>2, Facts DEF Base, Changed, Fields
<1>4. /\ Changed(x, z, {"tr", "calls", "conn", "iceConn"})
      /\ z.tr \in [Transports -> Transport] /\ Moved(x.calls, z.calls)
      /\ \A t \in Transports : Fares(x.tr[t], z.tr[t])
      /\ z.iceConn \in IceStates
      /\ z.conn = x.conn \/ z.conn = "failed"
  BY <1>3, StopGoes
<1> HIDE DEF z
<1>5. /\ DOMAIN y = Fields /\ y.closing = "closed" /\ y.sctp = s.sctp /\ y.tr = z.tr
      /\ y.calls = z.calls /\ y.live = s.live /\ y.conn = z.conn /\ y.iceConn = z.iceConn
      /\ y.session = s.session /\ y.connectEpoch = s.connectEpoch /\ y.op = s.op
  BY <1>2, <1>4 DEF Changed, Fields
<1> HIDE DEF y
<1>6. Shape(y) /\ StatesSound(y) /\ SctpSound(y)
  BY <1>2, <1>4, <1>5, Facts DEF Invariant, Shape, StatesSound, SctpSound, Moved
<1>7. Moves(s, y)
  BY <1>3, <1>4, <1>5, <1>6 DEF Moves
<1> QED
  BY <1>1, <1>7, MovesInv

LEMMA RollbackStopsInv ==
    ASSUME Invariant(s), RollbackStops
    PROVE  Invariant(s')
<1> DEFINE x == [s EXCEPT !.port = FALSE]
           z == stopTransports(x)
           y == [z EXCEPT !.op = "stopping"]
<1>1. s' = y
  BY DEF RollbackStops
<1>2. Changed(s, x, {"port"})
  BY Facts DEF Changed, Fields
<1> HIDE DEF x
<1>3. /\ Base(x) /\ x.tr = s.tr /\ x.calls = s.calls /\ x.live = s.live
      /\ x.conn = s.conn /\ x.iceConn = s.iceConn
  BY <1>2, Facts DEF Base, Changed, Fields
<1>4. IceConnectionState(x) = IceConnectionState(s)
  BY <1>3, IcsSame
<1>5. /\ Changed(x, z, {"tr", "calls", "conn", "iceConn"})
      /\ z.tr \in [Transports -> Transport] /\ Moved(x.calls, z.calls)
      /\ \A t \in Transports : Fares(x.tr[t], z.tr[t])
      /\ z.iceConn \in IceStates
      /\ x.conn # "closed" /\ x.iceConn = IceConnectionState(x) =>
             z.iceConn = IceConnectionState(z)
      /\ z.conn = x.conn \/ (z.conn = "failed" /\ \E t \in x.live : z.tr[t].ice = "failed")
  BY <1>3, StopGoes
<1> HIDE DEF z
<1>6. /\ DOMAIN y = Fields /\ y.closing = s.closing /\ y.sctp = s.sctp /\ y.tr = z.tr
      /\ y.calls = z.calls /\ y.live = s.live /\ y.conn = z.conn /\ y.iceConn = z.iceConn
      /\ y.session = s.session /\ y.connectEpoch = s.connectEpoch /\ y.op = "stopping"
      /\ z.live = s.live
  BY <1>2, <1>5 DEF Changed, Fields
<1> HIDE DEF y
<1>7. IceConnectionState(y) = IceConnectionState(z)
  BY <1>6, IcsSame
<1>8. Shape(y) /\ StatesSound(y) /\ SctpSound(y)
  BY <1>3, <1>4, <1>5, <1>6, <1>7, Facts DEF Invariant, Shape, StatesSound, SctpSound, Moved
<1>9. ASSUME y.conn # s.conn
      PROVE  y.conn = "failed" /\ \E t \in Transports : s.tr[t].params
  <2>1. PICK t \in s.live : z.tr[t].ice = "failed"
    BY <1>3, <1>5, <1>6, <1>9
  <2>2. t \in Transports
    BY Facts
  <2>3. s.tr[t].params
    BY <1>3, <1>5, <2>1, <2>2 DEF Fares, Sound
  <2> QED
    BY <1>3, <1>5, <1>6, <1>9, <2>2, <2>3
<1>10. Moves(s, y)
  BY <1>3, <1>5, <1>6, <1>8, <1>9 DEF Moves
<1> QED
  BY <1>1, <1>10, MovesInv

LEMMA AddTransceiverInv ==
    ASSUME Invariant(s), NEW t \in Transports, AddTransceiver(t)
    PROVE  Invariant(s')
<1> DEFINE x == [s EXCEPT !.live = @ \union {t}]
           y == updateIceConnectionState(x)
<1>1. s' = y /\ s.closing = "open"
  BY DEF AddTransceiver
<1>2. Changed(s, x, {"live"}) /\ x.live = s.live \union {t}
  BY Facts DEF Changed, Fields
<1> HIDE DEF x
<1>3. /\ Changed(x, y, {"conn", "iceConn"}) /\ y.iceConn = IceConnectionState(x)
      /\ y.conn = x.conn \/ (y.conn = "failed" /\ IceConnectionState(x) = "failed")
  BY <1>2, Updated DEF Changed
<1> HIDE DEF y
<1>4. /\ DOMAIN y = Fields /\ y.closing = s.closing /\ y.sctp = s.sctp /\ y.tr = s.tr
      /\ y.calls = s.calls /\ y.live = s.live \union {t} /\ x.conn = s.conn
      /\ y.session = s.session /\ y.connectEpoch = s.connectEpoch /\ y.op = s.op
      /\ x.live = y.live /\ x.tr = s.tr
  BY <1>2, <1>3 DEF Changed, Fields
<1>5. s.conn # "closed"
  BY <1>1 DEF Invariant, StatesSound
<1>6. IceConnectionState(y) = IceConnectionState(x)
  BY <1>3, <1>4, <1>5, IcsSame
<1>7. ASSUME y.conn # s.conn
      PROVE  y.conn = "failed" /\ \E u \in Transports : s.tr[u].params
  <2>1. IceConnectionState(x) = "failed"
    BY <1>3, <1>4, <1>7
  <2>2. PICK u \in x.live : x.tr[u].ice = "failed"
    BY <1>4, <1>5, <2>1, IcsType
  <2>3. u \in Transports
    BY <1>4, Facts
  <2>4. s.tr[u].params
    BY <1>4, <2>2, <2>3, Facts DEF Sound
  <2> QED
    BY <1>3, <1>4, <1>7, <2>3, <2>4
<1>8. Shape(y) /\ StatesSound(y) /\ SctpSound(y)
  BY <1>3, <1>4, <1>5, <1>6, Facts, IcsType DEF Invariant, Shape, StatesSound, SctpSound
<1>9. TransportsSound(y) /\ CallsSound(y)
  BY <1>4 DEF Invariant, TransportsSound, CallsSound, Active, OnCurrent, At
<1>10. Usual(y) => Usual(s)
  BY <1>4 DEF Usual
<1>11. ReportSound(y)
  BY <1>4, <1>7, <1>10 DEF Invariant, ReportSound, Active, OnCurrent, At, Speaks
<1>12. SessionSound(y)
  BY <1>4, <1>7 DEF Invariant, SessionSound
<1> QED
  BY <1>1, <1>8, <1>9, <1>11, <1>12 DEF Invariant

-----------------------------------------------------------------------------
(* The end of a call.                                                        *)

LEMMA EndsInv ==
    ASSUME Invariant(s), NEW c \in DOMAIN s.calls, Ends(c)
    PROVE  Invariant(s')
<1> DEFINE new == [s.calls[c] EXCEPT !.done = TRUE]
           calls == [s.calls EXCEPT ![c] = new]
           z == [s EXCEPT !.calls = calls]
           y == Settle(s, c)
           ends == {At(s, c, t).pc : t \in Transports}
<1>1. s' = y /\ ~s.calls[c].done /\ \A t \in Transports : At(s, c, t).pc \in Ended
  BY DEF Ends, Settled
<1>2. s.calls[c] \in Call /\ DOMAIN s = Fields
  BY CallType, Facts
<1>3. /\ new \in Call /\ new.epoch = s.calls[c].epoch /\ new.at = s.calls[c].at /\ new.done = TRUE
  BY <1>2 DEF Call
<1>4. /\ IsCalls(calls) /\ DOMAIN calls = DOMAIN s.calls /\ calls[c] = new
      /\ \A d \in DOMAIN s.calls : d # c => calls[d] = s.calls[d]
  <2>1. PICK n \in Nat : s.calls \in [1..n -> Call]
    BY Facts DEF IsCalls
  <2>2. calls \in [1..n -> Call]
    BY <1>3, <2>1
  <2> QED
    BY <2>1, <2>2 DEF IsCalls
<1>5. Changed(s, z, {"calls"}) /\ z.calls = calls
  BY <1>2 DEF Changed, Fields
<1>6. /\ Changed(s, y, {"calls", "conn"}) /\ y.calls = calls
      /\ y.conn \in {s.conn, "failed", "connected"}
      /\ s.calls[c].epoch # s.connectEpoch => y.conn = s.conn
      /\ s.calls[c].epoch = s.connectEpoch /\ ("rejected" \in ends \/ "ok" \in ends) =>
            y.conn \in {"failed", "connected"}
  <2>1. y = IF s.calls[c].epoch # s.connectEpoch THEN z
            ELSE IF "rejected" \in ends THEN setConnectionState(z, "failed")
            ELSE IF "ok" \in ends THEN setConnectionState(z, "connected")
            ELSE z
    BY DEF Settle
  <2> HIDE DEF z, y, ends, calls
  <2>2. z.conn = s.conn /\ Changed(s, z, {"calls", "conn"})
    BY <1>5 DEF Changed, Fields
  <2>3. \A state : LET w == setConnectionState(z, state)
                   IN  Changed(s, w, {"calls", "conn"}) /\ w.calls = calls /\ w.conn = state
    BY <1>5 DEF Changed, Fields, setConnectionState
  <2> QED
    BY <1>5, <2>1, <2>2, <2>3
<1>7. \A d \in DOMAIN s.calls : /\ calls[d].epoch = s.calls[d].epoch
                                /\ calls[d].at = s.calls[d].at
                                /\ d # c => calls[d].done = s.calls[d].done
  BY <1>3, <1>4
<1> HIDE DEF y, z, calls, new
<1>8. /\ y.tr = s.tr /\ y.live = s.live /\ y.sctp = s.sctp /\ y.iceConn = s.iceConn
      /\ y.session = s.session /\ y.connectEpoch = s.connectEpoch /\ y.op = s.op
      /\ y.closing = s.closing /\ DOMAIN y = Fields /\ DOMAIN y.calls = DOMAIN s.calls
  BY <1>4, <1>6 DEF Changed, Fields
<1>9. \A d \in DOMAIN s.calls, t \in Transports :
          At(y, d, t) = At(s, d, t) /\ (Active(y, d, t) <=> Active(s, d, t))
  BY <1>6, <1>7, <1>8 DEF At, Active, OnCurrent
<1>10. StatesSound(y)
  <2>1. ASSUME s.closing # "closed"
        PROVE  y.conn # "closed" /\ y.iceConn = IceConnectionState(y)
    <3>1. s.conn # "closed" /\ s.iceConn = IceConnectionState(s)
      BY <2>1 DEF Invariant, StatesSound
    <3>2. y.conn # "closed"
      BY <1>6, <3>1
    <3> QED
      BY <1>8, <3>1, <3>2, IcsSame
  <2> QED
    BY <1>8, <2>1 DEF StatesSound
<1>11. Shape(y) /\ SctpSound(y) /\ TransportsSound(y)
  BY <1>4, <1>6, <1>8 DEF Invariant, Shape, SctpSound, TransportsSound
<1>12. CallsSound(y)
  <2>1. ASSUME NEW d \in DOMAIN s.calls
        PROVE  /\ y.calls[d].epoch <= y.connectEpoch
               /\ \A t \in Transports :
                     /\ At(y, d, t).inc <= y.tr[t].inc
                     /\ y.calls[d].done => At(y, d, t).pc \in Ended
                     /\ Active(y, d, t) => y.tr[t].params /\ y.tr[t].iceStarts > 0
    <3>1. /\ s.calls[d].epoch <= s.connectEpoch
          /\ \A t \in Transports :
                /\ At(s, d, t).inc <= s.tr[t].inc
                /\ s.calls[d].done => At(s, d, t).pc \in Ended
                /\ Active(s, d, t) => s.tr[t].params /\ s.tr[t].iceStarts > 0
      BY DEF Invariant, CallsSound
    <3> QED
      BY <1>1, <1>6, <1>7, <1>8, <1>9, <3>1
  <2> QED
    BY <1>8, <2>1 DEF CallsSound
<1>13. ReportSound(y)
  <2> SUFFICES ASSUME Usual(y)
               PROVE  /\ \A d \in DOMAIN y.calls, t \in Transports :
                            Active(y, d, t) => y.calls[d].epoch = y.connectEpoch
                      /\ y.conn = "connecting" => \E d \in DOMAIN y.calls : Speaks(y, d)
    BY DEF ReportSound
  <2>1. /\ \A d \in DOMAIN s.calls, t \in Transports :
              Active(s, d, t) => s.calls[d].epoch = s.connectEpoch
        /\ s.conn = "connecting" => \E d \in DOMAIN s.calls : Speaks(s, d)
    BY <1>8 DEF Invariant, ReportSound, Usual
  <2>2. ASSUME y.conn = "connecting"
        PROVE  \E d \in DOMAIN y.calls : Speaks(y, d)
    <3>1. s.conn = "connecting"
      BY <1>6, <2>2
    <3>2. PICK d \in DOMAIN s.calls : Speaks(s, d)
      BY <2>1, <3>1
    <3>3. CASE d = c
      <4>1. PICK t \in Transports : At(s, c, t).pc \notin {"none", "idle"}
        BY <3>2, <3>3 DEF Speaks
      <4>2. At(s, c, t).pc \in {"ok", "rejected"}
        BY <1>1, <4>1 DEF Ended
      <4>3. "rejected" \in ends \/ "ok" \in ends
        BY <4>2
      <4>4. s.calls[c].epoch = s.connectEpoch
        BY <3>2, <3>3 DEF Speaks
      <4> QED
        BY <1>6, <2>2, <4>3, <4>4
    <3>4. CASE d # c
      BY <1>6, <1>7, <1>8, <1>9, <3>2, <3>4 DEF Speaks
    <3> QED
      BY <3>3, <3>4
  <2> QED
    BY <1>6, <1>7, <1>8, <1>9, <2>1, <2>2
<1>14. SessionSound(y)
  <2>1. /\ s.op = "applying" => s.session # "none"
        /\ s.session = "none" => \A d \in DOMAIN s.calls : s.calls[d].epoch < s.connectEpoch
        /\ s.session = "none" /\ s.op = "idle" /\ s.closing = "open" =>
              s.conn = "new" /\ \A t \in Transports : ~s.tr[t].params
    BY DEF Invariant, SessionSound
  <2>2. s.session = "none" => s.calls[c].epoch # s.connectEpoch
    <3>1. s.calls[c].epoch \in Nat /\ s.connectEpoch \in Nat
      BY <1>2 DEF Call, Invariant, Shape
    <3> QED
      BY <2>1, <3>1
  <2> QED
    BY <1>6, <1>7, <1>8, <2>1, <2>2 DEF SessionSound
<1> QED
  BY <1>1, <1>10, <1>11, <1>12, <1>13, <1>14 DEF Invariant

-----------------------------------------------------------------------------
(* Descriptions.                                                             *)

\* A restart begins a generation whose checks have not started.
LEMMA Restarts ==
    ASSUME NEW r \in Transport, Sound(r)
    PROVE  LET z == [r EXCEPT !.gen = @ + 1, !.checksStarted = FALSE, !.wait = 0]
               q == SetIce(z, "new")
           IN  Fares(r, q) /\ z \in Transport /\ z.ice = r.ice
<1> DEFINE gen == r.gen + 1
           z == [r EXCEPT !.gen = gen, !.checksStarted = FALSE, !.wait = 0]
           q == SetIce(z, "new")
<1>1. gen \in Nat /\ gen = r.gen + 1 /\ r.gen \in Nat /\ r.iceStarts \in Nat
  BY DEF Transport
<1> HIDE DEF gen
<1>2. z \in Transport
  BY <1>1 DEF Transport
<1>3. /\ z.ice = r.ice /\ z.dtls = r.dtls /\ z.dtlsStarts = r.dtlsStarts
      /\ z.inc = r.inc /\ z.gen = gen /\ z.params = r.params
      /\ z.checksStarted = FALSE /\ z.wait = 0 /\ z.iceStarts = r.iceStarts
  BY DEF Transport
<1> HIDE DEF z
<1>4. q = (IF z.ice = "closed" THEN z ELSE [z EXCEPT !.ice = "new"])
  BY DEF SetIce
<1> DEFINE w == [z EXCEPT !.ice = "new"]
<1>5. w \in Transport
  BY <1>2 DEF Transport, IceStates
<1>6. /\ w.ice = "new" /\ w.dtls = r.dtls /\ w.dtlsStarts = r.dtlsStarts
      /\ w.inc = r.inc /\ w.gen = gen /\ w.params = r.params
      /\ w.checksStarted = FALSE /\ w.wait = 0 /\ w.iceStarts = r.iceStarts
  BY <1>2, <1>3 DEF Transport
<1> HIDE DEF w, q
<1>7. CASE z.ice = "closed"
  <2>1. Sound(z)
    BY <1>1, <1>3, <1>7 DEF Sound
  <2> QED
    BY <1>2, <1>3, <1>4, <1>7, <2>1 DEF Fares, q, z, gen
<1>8. CASE z.ice # "closed"
  <2>1. Sound(w)
    BY <1>1, <1>6 DEF Sound
  <2>2. q = w
    BY <1>4, <1>8 DEF w
  <2> QED
    BY <1>2, <1>3, <1>5, <1>6, <2>1, <2>2 DEF Fares, q, z, gen
<1> QED
  BY <1>7, <1>8

LEMMA RestartGoes ==
    ASSUME NEW x, Base(x), NEW T \in SUBSET Transports
    PROVE  LET y == restart(x, T)
           IN  /\ Changed(x, y, {"tr", "conn", "iceConn"})
               /\ y.tr \in [Transports -> Transport]
               /\ \A t \in Transports : Fares(x.tr[t], y.tr[t])
               /\ y.iceConn \in IceStates
               /\ x.conn # "closed" /\ x.iceConn = IceConnectionState(x) =>
                      y.iceConn = IceConnectionState(y)
               /\ \/ y.conn = x.conn
                  \/ y.conn = "failed" /\ \E t \in x.live : y.tr[t].ice = "failed"
<1> DEFINE new(t) == [x.tr[t] EXCEPT !.gen = @ + 1, !.checksStarted = FALSE, !.wait = 0]
           tr == [t \in Transports |-> IF t \in T THEN new(t) ELSE x.tr[t]]
           z == [x EXCEPT !.tr = tr]
           y == setIceStates(z, T, "new")
<1>1. restart(x, T) = y
  BY DEF restart
<1>2. \A t \in Transports : x.tr[t] \in Transport /\ Sound(x.tr[t])
  BY DEF Base
<1>3. \A t \in Transports : /\ Fares(x.tr[t], SetIce(new(t), "new")) /\ new(t) \in Transport
                            /\ new(t).ice = x.tr[t].ice
  BY <1>2, Restarts
<1>4. Changed(x, z, {"tr"}) /\ z.tr = tr
  BY DEF Base, Changed, Fields
<1> HIDE DEF new, y, z
<1>5. tr \in [Transports -> Transport] /\ \A t \in Transports : tr[t].ice = x.tr[t].ice
  BY <1>2, <1>3
<1>6. /\ DOMAIN z = Fields /\ z.live = x.live /\ z.conn = x.conn /\ z.iceConn = x.iceConn
      /\ z.live \subseteq Transports /\ z.iceConn \in IceStates
  BY <1>4 DEF Base, Changed, Fields
<1>7. IceSet(z, y, T, "new")
  BY <1>4, <1>5, <1>6, IceStatesSet DEF y
<1>8. IceConnectionState(z) = IceConnectionState(x)
  BY <1>4, <1>5, <1>6, IcsSame
<1>9. \A t \in Transports : Fares(x.tr[t], y.tr[t])
  <2> SUFFICES ASSUME NEW t \in Transports
               PROVE  Fares(x.tr[t], y.tr[t])
    OBVIOUS
  <2>1. y.tr[t] = IF t \in T THEN SetIce(z.tr[t], "new") ELSE z.tr[t]
    BY <1>7 DEF IceSet
  <2>2. z.tr[t] = IF t \in T THEN new(t) ELSE x.tr[t]
    BY <1>4
  <2>3. Fares(x.tr[t], x.tr[t])
    BY <1>2, FaresSame
  <2> QED
    BY <1>3, <2>1, <2>2, <2>3
<1>10. y.tr \in [Transports -> Transport]
  <2>1. \A t \in Transports : y.tr[t] \in Transport
    BY <1>9 DEF Fares
  <2> QED
    BY <1>7, <2>1 DEF IceSet
<1>11. Changed(x, y, {"tr", "conn", "iceConn"})
  BY <1>4, <1>7 DEF IceSet, Changed, Fields
<1> QED
  BY <1>1, <1>6, <1>7, <1>8, <1>9, <1>10, <1>11 DEF IceSet

LEMMA Given ==
    ASSUME NEW r \in Transport, Sound(r), NEW given \in BOOLEAN, r.params => given
    PROVE  LET q == [r EXCEPT !.params = given]
           IN  /\ q \in Transport /\ Sound(q) /\ q.inc = r.inc /\ q.ice = r.ice
               /\ q.iceStarts = r.iceStarts /\ (q.params <=> given)
<1> DEFINE q == [r EXCEPT !.params = given]
<1>1. q \in Transport
  BY DEF Transport
<1>2. q.params <=> given
  BY DEF Transport
<1>3. /\ q.ice = r.ice /\ q.dtls = r.dtls /\ q.dtlsStarts = r.dtlsStarts
      /\ q.inc = r.inc /\ q.gen = r.gen /\ q.wait = r.wait /\ q.iceStarts = r.iceStarts
      /\ q.checksStarted = r.checksStarted
  BY DEF Transport
<1> HIDE DEF q
<1>4. Sound(q)
  BY <1>2, <1>3 DEF Sound
<1> QED
  BY <1>1, <1>2, <1>3, <1>4 DEF q

LEMMA ApplyInv ==
    ASSUME Invariant(s), Apply
    PROVE  Invariant(s')
<1>1. PICK kind \in {"answer", "pranswer"}, T \in SUBSET s.live : s' = applyRemote(s, kind, T)
  BY DEF Apply
<1>2. s.op = "idle" /\ s.closing = "open" /\ T \in SUBSET Transports
  BY Facts DEF Apply
<1> DEFINE x == restart(s, T)
           given(t) == x.tr[t].params \/ t \in s.live
           tr == [t \in Transports |-> [x.tr[t] EXCEPT !.params = given(t)]]
           port == s.sctp.state # "none" /\ scenario.sctp \in s.live
           session == IF kind = "answer" THEN "current" ELSE "provisional"
           y == applyRemote(s, kind, T)
<1>3. /\ Changed(s, x, {"tr", "conn", "iceConn"})
      /\ x.tr \in [Transports -> Transport]
      /\ \A t \in Transports : Fares(s.tr[t], x.tr[t])
      /\ x.iceConn \in IceStates
      /\ s.conn # "closed" /\ s.iceConn = IceConnectionState(s) => x.iceConn = IceConnectionState(x)
      /\ \/ x.conn = s.conn
         \/ x.conn = "failed" /\ \E t \in s.live : x.tr[t].ice = "failed"
  BY <1>2, Facts, RestartGoes
<1>4. y = [x EXCEPT !.tr = tr, !.port = port, !.session = session, !.op = "applying",
                    !.answers = @ - 1, !.restarts = @ - Cardinality(T)]
  BY DEF applyRemote
<1> HIDE DEF x
<1>5. \A t \in Transports : /\ given(t) \in BOOLEAN /\ x.tr[t] \in Transport /\ Sound(x.tr[t])
                            /\ x.tr[t].params => given(t)
  BY <1>3 DEF Fares
<1>6. \A t \in Transports : tr[t] = [x.tr[t] EXCEPT !.params = given(t)]
  OBVIOUS
<1>8. ASSUME NEW t \in Transports
      PROVE  /\ tr[t] \in Transport /\ Sound(tr[t]) /\ tr[t].inc = x.tr[t].inc
             /\ tr[t].ice = x.tr[t].ice /\ tr[t].iceStarts = x.tr[t].iceStarts
             /\ tr[t].params <=> given(t)
  <2> DEFINE g == given(t)
             r == x.tr[t]
  <2>1. g \in BOOLEAN /\ r \in Transport /\ Sound(r) /\ (r.params => g) /\ tr[t] = [r EXCEPT !.params = g]
    BY <1>5, <1>6
  <2> HIDE DEF g, r, tr
  <2>2. LET q == [r EXCEPT !.params = g]
        IN  /\ q \in Transport /\ Sound(q) /\ q.inc = r.inc /\ q.ice = r.ice
            /\ q.iceStarts = r.iceStarts /\ (q.params <=> g)
    BY <2>1, Given
  <2> QED
    BY <2>1, <2>2 DEF g, r
<1>9. tr \in [Transports -> Transport]
  BY <1>8
<1> HIDE DEF tr, port, session
<1>10. /\ DOMAIN y = Fields /\ y.tr = tr /\ y.session = session /\ y.op = "applying"
       /\ y.live = s.live /\ y.sctp = s.sctp /\ y.iceConn = x.iceConn /\ y.conn = x.conn
       /\ y.connectEpoch = s.connectEpoch /\ y.closing = s.closing /\ y.calls = s.calls
       /\ x.live = s.live
  BY <1>3, <1>4 DEF Changed, Fields
<1> HIDE DEF y
<1>11. session \in {"provisional", "current"}
  BY DEF session
<1>12. IceConnectionState(y) = IceConnectionState(x)
  BY <1>8, <1>10, Facts, IcsSame
<1>13. s.conn # "closed" /\ s.iceConn = IceConnectionState(s)
  BY <1>2 DEF Invariant, StatesSound
<1>14. /\ Shape(y) /\ SctpSound(y) /\ StatesSound(y)
  BY <1>3, <1>9, <1>10, <1>11, <1>12, <1>13 DEF Invariant, Shape, SctpSound, StatesSound
<1>15. TransportsSound(y)
  <2> SUFFICES ASSUME NEW t \in Transports
               PROVE  Sound(tr[t]) /\ (tr[t].params => t \in s.live)
    BY <1>10 DEF TransportsSound
  <2>1. s.tr[t].params => t \in s.live
    BY DEF Invariant, TransportsSound
  <2>2. x.tr[t].params = s.tr[t].params
    BY <1>3 DEF Fares
  <2> QED
    BY <1>8, <2>1, <2>2
<1>16. ASSUME NEW t \in Transports
       PROVE  /\ tr[t].inc = s.tr[t].inc
              /\ s.tr[t].params => tr[t].params
              /\ s.tr[t].iceStarts > 0 => tr[t].iceStarts > 0
  BY <1>3, <1>8 DEF Fares
<1>17. \A c \in DOMAIN s.calls, t \in Transports :
          At(y, c, t) = At(s, c, t) /\ (Active(y, c, t) <=> Active(s, c, t))
  BY <1>10, <1>16 DEF At, Active, OnCurrent
<1>18. CallsSound(y)
  BY <1>10, <1>16, <1>17 DEF Invariant, CallsSound
<1>19. ReportSound(y)
  <2>1. /\ \A c \in DOMAIN s.calls, t \in Transports :
              Active(s, c, t) => s.calls[c].epoch = s.connectEpoch
        /\ s.conn = "connecting" => \E c \in DOMAIN s.calls : Speaks(s, c)
    BY <1>2 DEF Invariant, ReportSound, Usual
  <2>2. \A c \in DOMAIN s.calls : Speaks(y, c) <=> Speaks(s, c)
    BY <1>10, <1>17 DEF Speaks
  <2> QED
    BY <1>3, <1>10, <1>17, <2>1, <2>2 DEF ReportSound
<1>20. SessionSound(y)
  BY <1>10, <1>11 DEF SessionSound
<1> QED
  BY <1>1, <1>14, <1>15, <1>18, <1>19, <1>20 DEF Invariant, y

\* What a new call does with each transport.
LEMMA Connects ==
    ASSUME NEW x, Invariant(x), NEW t \in Transports
    PROVE  Sensible(x.tr[t], connectTransport(x, t))
<1> DEFINE r == x.tr[t]
           does == connectTransport(x, t)
<1>1. r \in Transport /\ Sound(r)
  BY Facts
<1>2. {"none", "idle", "rejected"} \subseteq Pcs /\ {"none", "idle", "rejected"} \subseteq Ended
      /\ {"join", "joined", "start"} \subseteq Pcs /\ {"start", "rejected"} \subseteq Forward
  BY DEF Pcs, Waiting, Released, Ended, Forward
<1>3. r.checksStarted => r.params /\ r.iceStarts > 0
  BY <1>1 DEF Sound
<1>4. \/ does \in {Does("none", r), Does("idle", r)}
      \/ r.checksStarted /\ does \in {Does("join", r), Does("joined", r)}
      \/ ~r.checksStarted /\ r.params /\ does = startIce(x, t)
      \/ r.checksStarted /\ does = ConnectDtls(x, t, FALSE, IceReady(x, t))
  BY DEF connectTransport
<1> HIDE DEF does
<1>5. ASSUME NEW pc \in {"none", "idle", "rejected", "join", "joined"},
             pc \in Ended \/ r.checksStarted, does = Does(pc, r)
      PROVE  Sensible(r, does)
  <2>1. /\ DOMAIN does = {"pc", "transport", "connecting", "joins"}
        /\ does.pc = pc /\ does.transport = r /\ does.connecting = FALSE
    BY <1>5 DEF Does
  <2> QED
    BY <1>1, <1>2, <1>3, <1>5, <2>1, Idles
<1>6. ASSUME ~r.checksStarted /\ r.params /\ does = startIce(x, t)
      PROVE  Sensible(r, does)
  <2>1. CASE r.ice = "closed"
    <3>1. does = [Does("rejected", r) EXCEPT !.connecting = TRUE]
      BY <1>6, <2>1 DEF startIce
    <3>2. /\ DOMAIN does = {"pc", "transport", "connecting", "joins"}
          /\ does.pc = "rejected" /\ does.transport = r /\ does.connecting = TRUE
      BY <3>1, Doing
    <3> QED
      BY <1>1, <1>2, <3>2, FaresSame DEF Sensible
  <2>2. CASE r.ice # "closed"
    <3> DEFINE n == r.iceStarts + 1
               q == [r EXCEPT !.wait = r.gen, !.checksStarted = TRUE, !.iceStarts = n]
    <3>1. does = [Does("start", q) EXCEPT !.connecting = TRUE]
      BY <1>6, <2>2 DEF startIce
    <3>2. /\ DOMAIN does = {"pc", "transport", "connecting", "joins"}
          /\ does.pc = "start" /\ does.transport = q /\ does.connecting = TRUE
      BY <3>1, Doing
    <3>3. n \in Nat /\ n = r.iceStarts + 1 /\ r.iceStarts < r.gen /\ r.iceStarts \in Nat /\ r.gen \in Nat
      BY <1>1, <1>6 DEF Sound, Transport
    <3> HIDE DEF n
    <3>4. q \in Transport
      BY <1>1, <3>3 DEF Transport
    <3>5. /\ q.ice = r.ice /\ q.dtls = r.dtls /\ q.dtlsStarts = r.dtlsStarts
          /\ q.inc = r.inc /\ q.gen = r.gen /\ q.params = r.params
          /\ q.checksStarted = TRUE /\ q.wait = r.gen /\ q.iceStarts = n
      BY <1>1 DEF Transport
    <3> HIDE DEF q
    <3>6. Sound(q)
      BY <1>1, <1>6, <3>3, <3>5 DEF Sound
    <3>7. Fares(r, q) /\ n > 0 /\ q.params
      BY <1>6, <3>3, <3>4, <3>5, <3>6 DEF Fares
    <3> QED
      BY <1>2, <3>2, <3>5, <3>7 DEF Sensible
  <2> QED
    BY <2>1, <2>2
<1>7. ASSUME r.checksStarted /\ does = ConnectDtls(x, t, FALSE, IceReady(x, t))
      PROVE  Sensible(r, does)
  <2> DEFINE ready == IceReady(x, t)
  <2>1. ready \in BOOLEAN
    BY DEF IceReady
  <2> HIDE DEF ready
  <2>2. Sensible(x.tr[t], ConnectDtls(x, t, FALSE, ready))
    BY <1>1, <1>3, <1>7, <2>1, DtlsGoesOn
  <2> QED
    BY <1>7, <2>2 DEF ready
<1>8. Sensible(r, does)
  <2>1. CASE does \in {Does("none", r), Does("idle", r)}
    BY <1>2, <1>5, <2>1
  <2>2. CASE r.checksStarted /\ does \in {Does("join", r), Does("joined", r)}
    BY <1>5, <2>2
  <2> QED
    BY <1>4, <1>6, <1>7, <2>1, <2>2
<1> QED
  BY <1>8 DEF does

LEMMA AppendCall ==
    ASSUME NEW q, IsCalls(q), NEW call \in Call
    PROVE  \E n \in Nat :
               /\ DOMAIN q = 1..n /\ DOMAIN Append(q, call) = 1..n + 1
               /\ IsCalls(Append(q, call)) /\ Append(q, call)[n + 1] = call
               /\ \A i \in 1..n : Append(q, call)[i] = q[i]
<1>1. PICK n \in Nat : q \in [1..n -> Call]
  BY DEF IsCalls
<1>2. q \in Seq(Call)
  BY <1>1, SeqDef
<1>3. Len(q) = n
  BY <1>1, <1>2
<1> DEFINE a == Append(q, call)
<1>4. /\ a \in Seq(Call) /\ Len(a) = n + 1 /\ a[n + 1] = call
      /\ \A i \in 1..n : a[i] = q[i]
  BY <1>2, <1>3, AppendProperties
<1> HIDE DEF a
<1>5. a \in [1..n + 1 -> Call] /\ n + 1 \in Nat /\ DOMAIN a = 1..n + 1
  BY <1>4, LenProperties
<1>6. IsCalls(a)
  BY <1>5 DEF IsCalls
<1> QED
  BY <1>1, <1>4, <1>5, <1>6 DEF a

LEMMA ConnectInv ==
    ASSUME NEW x, Invariant(x), x.closing = "open", x.op = "idle", x.session # "none"
    PROVE  Invariant(connect(x))
<1> DEFINE d == [t \in Transports |-> connectTransport(x, t)]
           at == [t \in Transports |-> [pc |-> d[t].pc, inc |-> x.tr[t].inc, gen |-> x.tr[t].gen]]
           call == [epoch |-> x.connectEpoch, done |-> FALSE, at |-> at]
           calls == Append(x.calls, call)
           tr == [t \in Transports |-> d[t].transport]
           x1 == [x EXCEPT !.calls = calls, !.tr = tr]
           x2 == Report(x1, d)
           x3 == Joins(x2, d)
           T == {t \in Transports : d[t].pc = "start"}
           y == setIceStates(x3, T, "checking")
<1>1. connect(x) = y
  <2>1. Append(x.calls, call) = calls
    OBVIOUS
  <2> QED
    BY DEF connect
<1>2. DOMAIN d = Transports /\ \A t \in Transports : Sensible(x.tr[t], d[t])
  BY Connects
<1> HIDE DEF d
<1>3. call \in Call
  <2>1. \A t \in Transports : d[t].pc \in Pcs /\ x.tr[t].inc \in Nat /\ x.tr[t].gen \in Nat
    BY <1>2, Facts DEF Sensible, Transport
  <2>2. at \in [Transports -> Place]
    BY <2>1 DEF Place
  <2>3. x.connectEpoch \in Nat
    BY DEF Invariant, Shape
  <2> HIDE DEF at
  <2> QED
    BY <2>2, <2>3 DEF Call
<1>4. /\ call.epoch = x.connectEpoch /\ call.done = FALSE
      /\ \A t \in Transports : call.at[t].pc = d[t].pc /\ call.at[t].inc = x.tr[t].inc
  OBVIOUS
<1> HIDE DEF call
<1>5. PICK n \in Nat :
          /\ DOMAIN x.calls = 1..n /\ DOMAIN calls = 1..n + 1
          /\ IsCalls(calls) /\ calls[n + 1] = call
          /\ \A i \in 1..n : calls[i] = x.calls[i]
  BY <1>3, Facts, AppendCall
<1>6. \A i \in 1..n + 1 : i \in 1..n \/ i = n + 1
  OBVIOUS
<1>7. n + 1 \in 1..n + 1 /\ \A i \in 1..n : i \in 1..n + 1
  OBVIOUS
<1> HIDE DEF calls
<1>8. /\ tr \in [Transports -> Transport]
      /\ \A t \in Transports : Fares(x.tr[t], tr[t]) /\ tr[t].ice = x.tr[t].ice
  BY <1>2 DEF Sensible, Fares
<1>9. \A t \in Transports : /\ d[t].pc \notin Ended => tr[t].params /\ tr[t].iceStarts > 0
                            /\ d[t].pc = "start" => tr[t].checksStarted
                            /\ d[t].connecting => d[t].pc \in Forward
  BY <1>2 DEF Sensible
<1> HIDE DEF tr
<1>10. Changed(x, x1, {"calls", "tr"}) /\ x1.calls = calls /\ x1.tr = tr
  BY Facts DEF Changed, Fields
<1> HIDE DEF x1
<1>11. /\ Changed(x1, x2, {"conn"})
       /\ x2.conn = IF \E t \in DOMAIN d : d[t].connecting THEN "connecting" ELSE x1.conn
  BY <1>10, Reported DEF Changed, x2
<1> HIDE DEF x2
<1>12. /\ DOMAIN x2 = Fields /\ x2.sctp = x.sctp /\ x1.conn = x.conn
  BY <1>10, <1>11 DEF Changed, Fields
<1>13. Changed(x2, x3, {"sctp"}) /\ x3.sctp \in Sctp /\ SctpSound(x3)
  BY <1>12, Joined, Facts DEF SctpSound, x3
<1> HIDE DEF x3
<1>14. /\ DOMAIN x3 = Fields /\ x3.tr = tr /\ x3.calls = calls /\ x3.conn = x2.conn
       /\ x3.live = x.live /\ x3.iceConn = x.iceConn
       /\ Changed(x, x3, {"calls", "tr", "conn", "sctp"})
  BY <1>10, <1>11, <1>13 DEF Changed, Fields
<1>15. Base(x3)
  BY <1>5, <1>8, <1>14, Facts DEF Base, Fares
<1>16. /\ IceSet(x3, y, T, "checking") /\ y.tr \in [Transports -> Transport]
       /\ \A t \in Transports : Fares(x3.tr[t], y.tr[t])
  <2>1. T \in SUBSET Transports /\ "checking" \in IceStates
    BY DEF IceStates
  <2>2. \A t \in T : x3.tr[t].checksStarted
    BY <1>9, <1>14
  <2> HIDE DEF T
  <2> QED
    BY <1>15, <2>1, <2>2, IceGoes
<1> HIDE DEF y, T
<1>17. /\ DOMAIN y = Fields /\ y.calls = calls /\ y.sctp = x3.sctp /\ y.live = x.live
       /\ y.session = x.session /\ y.connectEpoch = x.connectEpoch /\ y.op = x.op
       /\ y.closing = x.closing
  BY <1>14, <1>16 DEF IceSet, Changed, Fields
<1>18. x.conn # "closed" /\ x.iceConn = IceConnectionState(x)
  BY DEF Invariant, StatesSound
<1>19. x3.conn # "closed"
  BY <1>11, <1>12, <1>14, <1>18
<1>20. IceConnectionState(x3) = IceConnectionState(x)
  BY <1>8, <1>14, <1>18, <1>19, Facts, IcsSame
<1>21. /\ y.conn \in {x3.conn, "failed"} /\ y.conn # "closed" /\ y.iceConn = IceConnectionState(y)
       /\ y.iceConn \in IceStates
  BY <1>14, <1>16, <1>18, <1>19, <1>20 DEF IceSet
<1>22. Shape(y) /\ StatesSound(y) /\ SctpSound(y)
  <2>1. y.conn \in {"new", "connecting", "connected", "failed", "closed"}
    BY <1>11, <1>12, <1>14, <1>21 DEF Invariant, Shape
  <2>2. Shape(y)
    BY <1>5, <1>13, <1>16, <1>17, <1>21, <2>1 DEF Shape, Invariant
  <2> QED
    BY <1>13, <1>17, <1>21, <2>2 DEF StatesSound, SctpSound
<1>23. ASSUME NEW t \in Transports
       PROVE  Fares(x.tr[t], y.tr[t]) /\ Fares(tr[t], y.tr[t])
  BY <1>8, <1>14, <1>16, FaresTrans
<1>24. TransportsSound(y)
  BY <1>17, <1>23 DEF Invariant, TransportsSound, Fares
<1>25. ASSUME NEW c \in 1..n, NEW t \in Transports
       PROVE  /\ At(y, c, t) = At(x, c, t) /\ (Active(y, c, t) <=> Active(x, c, t))
              /\ y.calls[c] = x.calls[c]
  BY <1>5, <1>17, <1>23 DEF At, Active, OnCurrent, Fares
<1>26. ASSUME NEW t \in Transports
       PROVE  /\ At(y, n + 1, t).pc = d[t].pc /\ At(y, n + 1, t).inc = y.tr[t].inc
              /\ d[t].pc \notin Ended => y.tr[t].params /\ y.tr[t].iceStarts > 0
  BY <1>4, <1>5, <1>9, <1>17, <1>23 DEF At, Fares
<1>27. y.calls[n + 1].epoch = y.connectEpoch /\ y.calls[n + 1].done = FALSE /\ y.connectEpoch \in Nat
  BY <1>4, <1>5, <1>17 DEF Invariant, Shape
<1>28. CallsSound(y)
  <2>1. ASSUME NEW c \in 1..n
        PROVE  /\ y.calls[c].epoch <= y.connectEpoch
               /\ \A t \in Transports :
                     /\ At(y, c, t).inc <= y.tr[t].inc
                     /\ y.calls[c].done => At(y, c, t).pc \in Ended
                     /\ Active(y, c, t) => y.tr[t].params /\ y.tr[t].iceStarts > 0
    <3>1. /\ x.calls[c].epoch <= x.connectEpoch
          /\ \A t \in Transports :
                /\ At(x, c, t).inc <= x.tr[t].inc
                /\ x.calls[c].done => At(x, c, t).pc \in Ended
                /\ Active(x, c, t) => x.tr[t].params /\ x.tr[t].iceStarts > 0
      BY <1>5 DEF Invariant, CallsSound
    <3>2. y.calls[c] = x.calls[c]
      BY <1>5, <1>17
    <3> QED
      BY <1>17, <1>23, <1>25, <3>1, <3>2 DEF Fares
  <2>2. /\ y.calls[n + 1].epoch <= y.connectEpoch
        /\ \A t \in Transports :
              /\ At(y, n + 1, t).inc <= y.tr[t].inc
              /\ y.calls[n + 1].done => At(y, n + 1, t).pc \in Ended
              /\ Active(y, n + 1, t) => y.tr[t].params /\ y.tr[t].iceStarts > 0
    <3>1. \A t \in Transports : y.tr[t].inc \in Nat
      BY <1>16 DEF Transport
    <3> QED
      BY <1>26, <1>27, <3>1 DEF Active
  <2>3. DOMAIN y.calls = 1..n + 1
    BY <1>5, <1>17
  <2> QED
    BY <1>6, <2>1, <2>2, <2>3 DEF CallsSound
<1>29. ReportSound(y)
  <2>1. /\ \A c \in DOMAIN x.calls, t \in Transports :
              Active(x, c, t) => x.calls[c].epoch = x.connectEpoch
        /\ x.conn = "connecting" => \E c \in DOMAIN x.calls : Speaks(x, c)
    BY DEF Invariant, ReportSound, Usual
  <2>2. \A c \in 1..n + 1, t \in Transports : Active(y, c, t) => y.calls[c].epoch = y.connectEpoch
    BY <1>5, <1>6, <1>17, <1>25, <1>27, <2>1
  <2>3. ASSUME y.conn = "connecting"
        PROVE  \E c \in 1..n + 1 : Speaks(y, c)
    <3>1. CASE \E t \in Transports : d[t].connecting
      <4>1. PICK t \in Transports : d[t].connecting
        BY <3>1
      <4>2. At(y, n + 1, t).pc \notin {"none", "idle"}
        BY <1>9, <1>26, <4>1 DEF Forward
      <4> QED
        BY <1>7, <1>27, <4>2 DEF Speaks
    <3>2. CASE ~\E t \in Transports : d[t].connecting
      <4>1. x.conn = "connecting"
        BY <1>2, <1>11, <1>12, <1>14, <1>21, <2>3, <3>2
      <4>2. PICK c \in 1..n : Speaks(x, c)
        BY <1>5, <2>1, <4>1
      <4>3. Speaks(y, c)
        BY <1>17, <1>25, <4>2, TransportsAssumption DEF Speaks
      <4> QED
        BY <1>7, <4>3
    <3> QED
      BY <3>1, <3>2
  <2> QED
    BY <1>5, <1>17, <2>2, <2>3 DEF ReportSound
<1>30. SessionSound(y)
  BY <1>17 DEF SessionSound
<1> QED
  BY <1>1, <1>22, <1>24, <1>28, <1>29, <1>30 DEF Invariant

LEMMA ConnectStepInv ==
    ASSUME Invariant(s), Connect
    PROVE  Invariant(s')
<1> DEFINE x == [s EXCEPT !.op = "idle"]
<1>1. s.op = "applying" /\ s' = IF s.closing = "open" THEN connect(x) ELSE x
  BY DEF Connect
<1>2. Changed(s, x, {"op"}) /\ x.op = "idle"
  BY Facts DEF Changed, Fields
<1> HIDE DEF x
<1>3. /\ DOMAIN x = Fields /\ x.closing = s.closing /\ x.sctp = s.sctp /\ x.tr = s.tr
      /\ x.calls = s.calls /\ x.live = s.live /\ x.conn = s.conn /\ x.iceConn = s.iceConn
      /\ x.session = s.session /\ x.connectEpoch = s.connectEpoch
  BY <1>2 DEF Changed, Fields
<1>4. IceConnectionState(x) = IceConnectionState(s)
  BY <1>3, IcsSame
<1>5. s.session # "none"
  BY <1>1 DEF Invariant, SessionSound
<1>6. Shape(x) /\ StatesSound(x) /\ SctpSound(x) /\ TransportsSound(x)
  BY <1>2, <1>3, <1>4 DEF Invariant, Shape, StatesSound, SctpSound, TransportsSound
<1>7. \A c \in DOMAIN s.calls, t \in Transports :
          At(x, c, t) = At(s, c, t) /\ (Active(x, c, t) <=> Active(s, c, t))
  BY <1>3 DEF At, Active, OnCurrent
<1>8. CallsSound(x)
  BY <1>3, <1>7 DEF Invariant, CallsSound
<1>9. ReportSound(x)
  BY <1>1, <1>2, <1>3, <1>7 DEF Invariant, ReportSound, Usual, Speaks
<1>10. SessionSound(x)
  BY <1>3, <1>5 DEF SessionSound, Invariant
<1>11. Invariant(x)
  BY <1>6, <1>8, <1>9, <1>10 DEF Invariant
<1>12. CASE s.closing = "open"
  BY <1>1, <1>2, <1>3, <1>5, <1>11, <1>12, ConnectInv
<1> QED
  BY <1>1, <1>11, <1>12

-----------------------------------------------------------------------------
(* Rollbacks of the first session.                                           *)

LEMMA StartsOver ==
    ASSUME NEW x, DOMAIN x = Fields, x.conn # "closed"
    PROVE  LET y == startOver(x)
           IN  /\ Changed(x, y, {"conn", "iceConn", "op"})
               /\ y.conn = "new" /\ y.op = "idle" /\ y.iceConn = IceConnectionState(y)
               /\ y.iceConn \in IceStates
<1> DEFINE z == updateIceConnectionState(x)
           w == setConnectionState(z, "new")
           y == [w EXCEPT !.op = "idle"]
<1>1. startOver(x) = y
  BY DEF startOver
<1>2. Changed(x, z, {"conn", "iceConn"}) /\ z.iceConn = IceConnectionState(x)
  BY Updated
<1> HIDE DEF z
<1>3. Changed(z, w, {"conn"}) /\ w.conn = "new"
  BY <1>2 DEF Changed, Fields, setConnectionState
<1> HIDE DEF w
<1>4. Changed(w, y, {"op"}) /\ y.op = "idle"
  BY <1>3 DEF Changed, Fields
<1> HIDE DEF y
<1>5. /\ Changed(x, y, {"conn", "iceConn", "op"}) /\ y.conn = "new"
      /\ y.iceConn = IceConnectionState(x) /\ y.live = x.live /\ y.tr = x.tr
  BY <1>2, <1>3, <1>4 DEF Changed, Fields
<1>6. IceConnectionState(y) = IceConnectionState(x)
  BY <1>5, IcsSame
<1>7. IceConnectionState(x) \in IceStates
  BY IcsType
<1> QED
  BY <1>1, <1>4, <1>5, <1>6, <1>7

LEMMA RollbackInv ==
    ASSUME Invariant(s), Rollback
    PROVE  Invariant(s')
<1> DEFINE epoch == s.connectEpoch + 1
           rollbacks == s.rollbacks - 1
           x == [s EXCEPT !.connectEpoch = epoch, !.session = "none", !.rollbacks = rollbacks]
           used == \E t \in s.live : \/ s.tr[t].dtls # "new"
                                     \/ s.tr[t].ice \notin {"new", "closed"}
                                     \/ s.tr[t].params
           z == stopSctp(x)
           y == [z EXCEPT !.op = "stoppingSctp"]
<1>1. /\ s' = IF used THEN y ELSE startOver(x)
      /\ s.op = "idle" /\ s.closing = "open"
  BY DEF Rollback
<1>2. s.connectEpoch \in Nat /\ epoch = s.connectEpoch + 1
  BY DEF Invariant, Shape
<1> HIDE DEF epoch
<1>3. /\ DOMAIN x = Fields /\ x.closing = s.closing /\ x.sctp = s.sctp /\ x.tr = s.tr
      /\ x.calls = s.calls /\ x.live = s.live /\ x.conn = s.conn /\ x.iceConn = s.iceConn
      /\ x.session = "none" /\ x.connectEpoch = epoch /\ x.op = s.op
  BY Facts DEF Fields
<1> HIDE DEF x
<1>4. s.conn # "closed" /\ s.iceConn = IceConnectionState(s)
  BY <1>1 DEF Invariant, StatesSound
<1>5. \A c \in DOMAIN s.calls : s.calls[c].epoch < epoch
  <2> SUFFICES ASSUME NEW c \in DOMAIN s.calls
               PROVE  s.calls[c].epoch < epoch
    OBVIOUS
  <2>1. s.calls[c].epoch \in Nat
    BY CallType, Facts DEF Call
  <2>2. s.calls[c].epoch <= s.connectEpoch
    BY TransportsAssumption DEF Invariant, CallsSound
  <2> QED
    BY <1>2, <2>1, <2>2
<1>6. \A w : w.calls = s.calls /\ w.tr = s.tr =>
          \A c \in DOMAIN s.calls, t \in Transports :
              At(w, c, t) = At(s, c, t) /\ (Active(w, c, t) <=> Active(s, c, t))
  BY DEF At, Active, OnCurrent
<1>7. ASSUME NEW w, w.calls = s.calls, w.tr = s.tr, w.connectEpoch = epoch
      PROVE  CallsSound(w)
  <2> SUFFICES ASSUME NEW c \in DOMAIN s.calls
               PROVE  /\ s.calls[c].epoch <= epoch
                      /\ \A t \in Transports :
                            /\ At(w, c, t).inc <= s.tr[t].inc
                            /\ s.calls[c].done => At(w, c, t).pc \in Ended
                            /\ Active(w, c, t) => s.tr[t].params /\ s.tr[t].iceStarts > 0
    BY <1>7 DEF CallsSound
  <2>1. /\ s.calls[c].epoch \in Nat
        /\ \A t \in Transports :
              /\ At(s, c, t).inc <= s.tr[t].inc
              /\ s.calls[c].done => At(s, c, t).pc \in Ended
              /\ Active(s, c, t) => s.tr[t].params /\ s.tr[t].iceStarts > 0
    BY CallType, Facts DEF Call, Invariant, CallsSound
  <2>2. s.calls[c].epoch <= epoch
    BY <1>2, <1>5, <2>1
  <2> QED
    BY <1>6, <1>7, <2>1, <2>2
<1>8. CASE used
  <2>1. Changed(x, z, {"sctp"}) /\ z.sctp \in Sctp /\ SctpSound(z)
    <3> DEFINE state == IF x.sctp.state \in {"started", "connected"} THEN "stopped" ELSE x.sctp.state
               sctp == [x.sctp EXCEPT !.state = state]
    <3>1. z = [x EXCEPT !.sctp = sctp]
      BY DEF stopSctp
    <3>2. Changed(x, z, {"sctp"}) /\ z.sctp = sctp
      BY <1>3, <3>1 DEF Changed, Fields
    <3>3. x.sctp \in Sctp /\ SctpSound(s)
      BY <1>3, Facts
    <3>4. sctp \in Sctp /\ sctp.starts = x.sctp.starts /\ sctp.state = state
      BY <3>3 DEF Sctp
    <3>5. state \in {"none", "idle"} => x.sctp.state \in {"none", "idle"}
      OBVIOUS
    <3> HIDE DEF z, sctp, state
    <3> QED
      BY <1>3, <3>2, <3>3, <3>4, <3>5 DEF SctpSound
  <2> HIDE DEF z
  <2>2. /\ DOMAIN y = Fields /\ y.closing = s.closing /\ y.sctp = z.sctp /\ y.tr = s.tr
        /\ y.calls = s.calls /\ y.live = s.live /\ y.conn = s.conn /\ y.iceConn = s.iceConn
        /\ y.session = "none" /\ y.connectEpoch = epoch /\ y.op = "stoppingSctp"
    BY <1>3, <2>1 DEF Changed, Fields
  <2> HIDE DEF y
  <2>3. IceConnectionState(y) = IceConnectionState(s)
    BY <2>2, IcsSame
  <2>4. Shape(y) /\ TransportsSound(y) /\ SctpSound(y) /\ StatesSound(y)
    BY <1>2, <1>4, <2>1, <2>2, <2>3
    DEF Invariant, Shape, TransportsSound, SctpSound, StatesSound
  <2>5. CallsSound(y)
    BY <1>7, <2>2
  <2>6. ReportSound(y) /\ SessionSound(y)
    BY <1>5, <2>2 DEF ReportSound, Usual, SessionSound
  <2> QED
    BY <1>1, <1>8, <2>4, <2>5, <2>6 DEF Invariant
<1>9. CASE ~used
  <2> HIDE DEF y
  <2> DEFINE w == startOver(x)
  <2>1. /\ Changed(x, w, {"conn", "iceConn", "op"})
        /\ w.conn = "new" /\ w.op = "idle" /\ w.iceConn = IceConnectionState(w)
        /\ w.iceConn \in IceStates
    BY <1>3, <1>4, StartsOver
  <2> HIDE DEF w
  <2>2. /\ DOMAIN w = Fields /\ w.closing = s.closing /\ w.sctp = s.sctp /\ w.tr = s.tr
        /\ w.calls = s.calls /\ w.live = s.live /\ w.session = "none" /\ w.connectEpoch = epoch
    BY <1>3, <2>1 DEF Changed, Fields
  <2>3. \A t \in Transports : ~s.tr[t].params
    BY <1>9 DEF Invariant, TransportsSound
  <2>4. Shape(w) /\ TransportsSound(w) /\ SctpSound(w) /\ StatesSound(w)
    BY <1>2, <2>1, <2>2 DEF Invariant, Shape, TransportsSound, SctpSound, StatesSound
  <2>5. CallsSound(w)
    BY <1>7, <2>2
  <2>6. \A c \in DOMAIN s.calls, t \in Transports : ~Active(s, c, t)
    BY <2>3 DEF Invariant, CallsSound
  <2>7. ReportSound(w)
    BY <1>6, <2>1, <2>2, <2>6 DEF ReportSound
  <2>8. SessionSound(w)
    BY <1>5, <2>1, <2>2, <2>3 DEF SessionSound
  <2> QED
    BY <1>1, <1>9, <2>4, <2>5, <2>7, <2>8 DEF Invariant, w
<1> QED
  BY <1>8, <1>9

LEMMA NewSound ==
    ASSUME NEW inc \in Nat
    PROVE  LET r == NewTransport(inc)
           IN  /\ r \in Transport /\ Sound(r) /\ ~r.params /\ r.inc = inc /\ r.ice = "new"
BY DEF NewTransport, Transport, Sound, IceStates, DtlsStates

LEMMA RollbackEndsInv ==
    ASSUME Invariant(s), RollbackEnds
    PROVE  Invariant(s')
<1> DEFINE new(t) == NewTransport(s.tr[t].inc + 1)
           tr == [t \in Transports |-> IF t \in s.live THEN new(t) ELSE s.tr[t]]
           sctp == IF s.sctp.state = "none" THEN s.sctp ELSE NewSctp("idle")
           x == [s EXCEPT !.tr = tr, !.sctp = sctp]
           y == startOver(x)
           z == [s EXCEPT !.op = "idle"]
<1>1. s.op = "stopping" /\ s' = IF s.closing = "open" THEN y ELSE z
  BY DEF RollbackEnds
<1>2. CASE s.closing # "open"
  <2>1. Changed(s, z, {"op"}) /\ z.op = "idle"
    BY Facts DEF Changed, Fields
  <2> HIDE DEF z
  <2>2. /\ DOMAIN z = Fields /\ z.closing = s.closing /\ z.sctp = s.sctp /\ z.tr = s.tr
        /\ z.calls = s.calls /\ z.live = s.live /\ z.conn = s.conn /\ z.iceConn = s.iceConn
        /\ z.session = s.session /\ z.connectEpoch = s.connectEpoch
    BY <2>1 DEF Changed, Fields
  <2>3. IceConnectionState(z) = IceConnectionState(s)
    BY <2>2, IcsSame
  <2>4. Shape(z) /\ TransportsSound(z) /\ SctpSound(z) /\ StatesSound(z)
    BY <2>1, <2>2, <2>3 DEF Invariant, Shape, TransportsSound, SctpSound, StatesSound
  <2>5. CallsSound(z)
    BY <2>2 DEF Invariant, CallsSound, At, Active, OnCurrent
  <2>6. ReportSound(z) /\ SessionSound(z)
    BY <1>2, <2>1, <2>2 DEF Invariant, ReportSound, Usual, SessionSound
  <2> QED
    BY <1>1, <1>2, <2>4, <2>5, <2>6 DEF Invariant
<1>3. CASE s.closing = "open"
  <2>1. \A t \in Transports : /\ s.tr[t].inc \in Nat /\ new(t) \in Transport /\ Sound(new(t))
                              /\ ~new(t).params /\ new(t).inc = s.tr[t].inc + 1
                              /\ s.tr[t] \in Transport /\ Sound(s.tr[t])
    <3> SUFFICES ASSUME NEW t \in Transports
                 PROVE  /\ s.tr[t].inc \in Nat /\ new(t) \in Transport /\ Sound(new(t))
                        /\ ~new(t).params /\ new(t).inc = s.tr[t].inc + 1
                        /\ s.tr[t] \in Transport /\ Sound(s.tr[t])
      OBVIOUS
    <3>1. s.tr[t] \in Transport /\ Sound(s.tr[t])
      BY Facts
    <3>2. s.tr[t].inc \in Nat /\ s.tr[t].inc + 1 \in Nat
      BY <3>1 DEF Transport
    <3> QED
      BY <3>1, <3>2, NewSound
  <2> HIDE DEF new
  <2>2. /\ tr \in [Transports -> Transport]
        /\ \A t \in Transports : tr[t] = IF t \in s.live THEN new(t) ELSE s.tr[t]
    BY <2>1
  <2>3. \A t \in Transports : Sound(tr[t]) /\ ~tr[t].params /\ s.tr[t].inc <= tr[t].inc
    <3> SUFFICES ASSUME NEW t \in Transports
                 PROVE  Sound(tr[t]) /\ ~tr[t].params /\ s.tr[t].inc <= tr[t].inc
      OBVIOUS
    <3>1. s.tr[t].params => t \in s.live
      BY DEF Invariant, TransportsSound
    <3>2. tr[t] = IF t \in s.live THEN new(t) ELSE s.tr[t]
      BY <2>2
    <3> HIDE DEF tr
    <3>3. CASE t \in s.live
      BY <2>1, <3>2, <3>3
    <3>4. CASE t \notin s.live
      BY <2>1, <3>1, <3>2, <3>4
    <3> QED
      BY <3>3, <3>4
  <2>4. sctp \in Sctp /\ (sctp.starts = 0 \/ (sctp = s.sctp /\ s.sctp.state = "none")) /\ sctp.starts <= 1
    <3>1. s.sctp \in Sctp /\ SctpSound(s)
      BY Facts
    <3>2. NewSctp("idle") \in Sctp /\ NewSctp("idle").starts = 0
      BY DEF NewSctp, Sctp
    <3>3. sctp = s.sctp \/ sctp = NewSctp("idle")
      OBVIOUS
    <3>4. sctp = s.sctp => s.sctp.state = "none" \/ sctp = NewSctp("idle")
      OBVIOUS
    <3> HIDE DEF sctp
    <3> QED
      BY <3>1, <3>2, <3>3, <3>4 DEF SctpSound
  <2> HIDE DEF tr, sctp
  <2>5. Changed(s, x, {"tr", "sctp"}) /\ x.tr = tr /\ x.sctp = sctp
    BY Facts DEF Changed, Fields
  <2> HIDE DEF x
  <2>6. x.conn = s.conn /\ DOMAIN x = Fields /\ s.conn # "closed"
    BY <1>3, <2>5 DEF Changed, Fields, Invariant, StatesSound
  <2>7. /\ Changed(x, y, {"conn", "iceConn", "op"})
        /\ y.conn = "new" /\ y.op = "idle" /\ y.iceConn = IceConnectionState(y)
        /\ y.iceConn \in IceStates
    BY <2>6, StartsOver
  <2> HIDE DEF y
  <2>8. /\ DOMAIN y = Fields /\ y.closing = s.closing /\ y.sctp = sctp /\ y.tr = tr
        /\ y.calls = s.calls /\ y.live = s.live /\ y.session = s.session
        /\ y.connectEpoch = s.connectEpoch
    BY <2>5, <2>7 DEF Changed, Fields
  <2>9. SctpSound(y)
    BY <2>4, <2>8, Facts DEF SctpSound
  <2>10. Shape(y) /\ TransportsSound(y) /\ StatesSound(y)
    BY <2>2, <2>3, <2>4, <2>7, <2>8 DEF Invariant, Shape, TransportsSound, StatesSound
  <2>11. \A c \in DOMAIN s.calls, t \in Transports : At(y, c, t) = At(s, c, t) /\ ~Active(y, c, t)
    <3> SUFFICES ASSUME NEW c \in DOMAIN s.calls, NEW t \in Transports
                 PROVE  At(y, c, t) = At(s, c, t) /\ ~Active(y, c, t)
      OBVIOUS
    <3>1. At(y, c, t) = At(s, c, t)
      BY <2>8 DEF At
    <3>2. /\ At(s, c, t).inc <= s.tr[t].inc
          /\ Active(s, c, t) => s.tr[t].params
      BY DEF Invariant, CallsSound
    <3>3. At(s, c, t).inc \in Nat
      BY CallType, Facts DEF Call, Place, At
    <3>4. CASE t \in s.live
      <4>1. y.tr[t].inc = s.tr[t].inc + 1 /\ s.tr[t].inc \in Nat
        BY <2>1, <2>2, <2>8, <3>4
      <4> QED
        BY <3>1, <3>2, <3>3, <4>1 DEF Active, OnCurrent
    <3>5. CASE t \notin s.live
      <4>1. y.tr[t] = s.tr[t]
        BY <2>2, <2>8, <3>5
      <4>2. ~s.tr[t].params
        BY <3>5 DEF Invariant, TransportsSound
      <4> QED
        BY <3>1, <3>2, <4>1, <4>2 DEF Active, OnCurrent
    <3> QED
      BY <3>4, <3>5
  <2>12. CallsSound(y)
    <3> SUFFICES ASSUME NEW c \in DOMAIN s.calls
                 PROVE  /\ s.calls[c].epoch <= s.connectEpoch
                        /\ \A t \in Transports :
                              /\ At(y, c, t).inc <= y.tr[t].inc
                              /\ s.calls[c].done => At(y, c, t).pc \in Ended
                              /\ Active(y, c, t) => y.tr[t].params /\ y.tr[t].iceStarts > 0
      BY <2>8 DEF CallsSound
    <3>1. /\ s.calls[c].epoch <= s.connectEpoch
          /\ \A t \in Transports : /\ At(s, c, t).inc <= s.tr[t].inc
                                   /\ s.calls[c].done => At(s, c, t).pc \in Ended
      BY DEF Invariant, CallsSound
    <3>2. \A t \in Transports : At(y, c, t).inc <= y.tr[t].inc
      <4> SUFFICES ASSUME NEW t \in Transports
                   PROVE  At(y, c, t).inc <= y.tr[t].inc
        OBVIOUS
      <4>1. At(s, c, t).inc \in Nat /\ s.tr[t].inc \in Nat
        BY <2>1, CallType, Facts DEF Call, Place, At
      <4>2. tr[t].inc \in Nat /\ s.tr[t].inc <= tr[t].inc /\ At(y, c, t).inc <= s.tr[t].inc
        BY <2>2, <2>3, <2>11, <3>1 DEF Transport
      <4>3. At(y, c, t).inc = At(s, c, t).inc /\ y.tr[t] = tr[t]
        BY <2>8, <2>11
      <4> QED
        BY <4>1, <4>2, <4>3
    <3> QED
      BY <2>11, <3>1, <3>2
  <2>13. ReportSound(y)
    BY <2>7, <2>8, <2>11 DEF ReportSound
  <2>14. SessionSound(y)
    <3>1. s.session = "none" => \A c \in DOMAIN s.calls : s.calls[c].epoch < s.connectEpoch
      BY DEF Invariant, SessionSound
    <3> QED
      BY <2>3, <2>7, <2>8, <3>1 DEF SessionSound
  <2> QED
    BY <1>1, <1>3, <2>9, <2>10, <2>12, <2>13, <2>14 DEF Invariant
<1> QED
  BY <1>2, <1>3

-----------------------------------------------------------------------------
(* The specification.                                                        *)

ActivationInv == Invariant(s) /\ scenario \in Scenarios

LEMMA InitInv == Init => ActivationInv
<1> SUFFICES ASSUME Init
             PROVE  Invariant(s) /\ scenario \in Scenarios
  BY DEF ActivationInv
<1>1. /\ scenario \in Scenarios /\ scenario.live \subseteq Transports /\ scenario.sctpLate \in BOOLEAN
  BY ScenariosAssumption DEF Init
<1>2. /\ DOMAIN s = Fields /\ s.tr = [t \in Transports |-> NewTransport(0)]
      /\ s.live = scenario.live /\ s.sctp = NewSctp(IF scenario.sctpLate THEN "none" ELSE "idle")
      /\ s.conn = "new" /\ s.iceConn = "new" /\ s.session = "none" /\ s.connectEpoch = 0
      /\ s.op = "idle" /\ s.closing = "open" /\ s.calls = <<>>
  BY DEF Init, Fields
<1>3. \A t \in Transports : /\ s.tr[t] \in Transport /\ Sound(s.tr[t]) /\ ~s.tr[t].params
                            /\ s.tr[t].ice = "new"
  <2>1. LET r == NewTransport(0)
        IN  r \in Transport /\ Sound(r) /\ ~r.params /\ r.inc = 0 /\ r.ice = "new"
    BY NewSound
  <2> QED
    BY <1>2, <2>1
<1>4. s.tr \in [Transports -> Transport]
  BY <1>2, <1>3
<1>5. s.sctp \in Sctp /\ s.sctp.starts = 0
  BY <1>2 DEF NewSctp, Sctp
<1>6. IsCalls(s.calls) /\ DOMAIN s.calls = {}
  <2>1. 0 \in Nat /\ <<>> \in [1..0 -> Call]
    OBVIOUS
  <2>2. DOMAIN <<>> = {}
    OBVIOUS
  <2> QED
    BY <1>2, <2>1, <2>2 DEF IsCalls
<1>7. Shape(s)
  BY <1>1, <1>2, <1>4, <1>5, <1>6 DEF Shape, IceStates
<1>8. IceConnectionState(s) = "new"
  <2>1. {s.tr[t].ice : t \in s.live} \subseteq {"new"}
    BY <1>1, <1>2, <1>3
  <2> QED
    BY <1>2, <2>1 DEF IceConnectionState
<1>9. TransportsSound(s) /\ SctpSound(s) /\ StatesSound(s)
  BY <1>2, <1>3, <1>5, <1>8 DEF TransportsSound, SctpSound, StatesSound
<1>10. CallsSound(s) /\ ReportSound(s) /\ SessionSound(s)
  BY <1>2, <1>3, <1>6 DEF CallsSound, ReportSound, SessionSound
<1> QED
  BY <1>1, <1>7, <1>9, <1>10 DEF Invariant

LEMMA NextInv == ActivationInv /\ [Next]_vars => ActivationInv'
<1> SUFFICES ASSUME Invariant(s), scenario \in Scenarios, [Next]_vars
             PROVE  Invariant(s') /\ scenario' = scenario
  BY DEF ActivationInv
<1>1. CASE UNCHANGED vars
  BY <1>1 DEF vars
<1>2. CASE Apply
  BY <1>2, ApplyInv DEF Apply
<1>3. CASE CreateDataChannel
  BY <1>3, CreateDataChannelInv DEF CreateDataChannel
<1>4. CASE Rollback
  BY <1>4, RollbackInv DEF Rollback
<1>5. CASE Close
  BY <1>5, CloseInv DEF Close
<1>6. ASSUME NEW t \in Transports, AddTransceiver(t)
      PROVE  Invariant(s') /\ scenario' = scenario
  BY <1>6, AddTransceiverInv DEF AddTransceiver
<1>7. ASSUME NEW c \in DOMAIN s.calls, Ends(c)
      PROVE  Invariant(s') /\ scenario' = scenario
  BY <1>7, EndsInv DEF Ends
<1>8. ASSUME NEW c \in DOMAIN s.calls, NEW t \in Transports, Resume(c, t)
      PROVE  Invariant(s') /\ scenario' = scenario
  BY <1>8, ResumeInv DEF Resume
<1>9. CASE Connect
  BY <1>9, ConnectStepInv DEF Connect
<1>10. CASE RollbackStops
  BY <1>10, RollbackStopsInv DEF RollbackStops
<1>11. CASE RollbackEnds
  BY <1>11, RollbackEndsInv DEF RollbackEnds
<1>12. CASE CloseEnds
  BY <1>12, CloseEndsInv DEF CloseEnds
<1>13. CASE SctpConnected
  BY <1>13, SctpConnectedInv DEF SctpConnected
<1>14. ASSUME NEW t \in Transports,
              Gathered(t) \/ IceConnected(t) \/ IceStartFails(t) \/ IceFails(t)
       PROVE  Invariant(s') /\ scenario' = scenario
  BY <1>14, IceInv DEF Gathered, IceConnected, IceStartFails, IceFails
<1>15. ASSUME NEW t \in Transports, DtlsConnected(t) \/ DtlsFails(t)
       PROVE  Invariant(s') /\ scenario' = scenario
  BY <1>15, DtlsInv DEF DtlsConnected, DtlsFails
<1>16. ASSUME NEW c \in DOMAIN s.calls, NEW t \in Transports, LateOutcome(c, t)
       PROVE  Invariant(s') /\ scenario' = scenario
  BY <1>16, LateOutcomeInv DEF LateOutcome
<1>17. CASE Rest
  BY <1>17 DEF Rest, vars
<1> QED
  BY <1>1, <1>2, <1>3, <1>4, <1>5, <1>6, <1>7, <1>8, <1>9, <1>10, <1>11, <1>12, <1>13, <1>14,
     <1>15, <1>16, <1>17 DEF Next, Application, Progress, Outcomes

\* The invariant, for every number of transports, answers, restarts, rollbacks and
\* failures: which call may still change which transport (TransportActivation.connect).
THEOREM ActivationInvariant == Spec => []ActivationInv
<1> QED
  BY InitInv, NextInv, PTL DEF Spec

\* However many calls of connect() overlap (transportActivation.ts), each generation's
\* checks start once, a transport makes one handshake, one association starts, and
\* iceConnectionState is that of the live transports.
THEOREM ActivationIsSound == Spec => []ActivationSound
<1>1. ActivationInv => ActivationSound
  <2> SUFFICES ASSUME Invariant(s)
               PROVE  ActivationSound
    BY DEF ActivationInv
  <2>1. TypeOK
    <3>1. \A t \in Transports : s.tr[t].wait \in {0, s.tr[t].gen}
      BY DEF Invariant, TransportsSound, Sound
    <3>2. \A c \in DOMAIN s.calls, t \in Transports : At(s, c, t).pc \in Pcs
      BY CallType, Facts DEF Call, Place, At
    <3> QED
      BY <3>1, <3>2 DEF Invariant, Shape, TypeOK, IceStates, Pcs
  <2>2. StartsOnce
    BY DEF Invariant, TransportsSound, Sound, SctpSound, StartsOnce
  <2>3. IceStateTrue
    BY DEF Invariant, StatesSound, IceStateTrue
  <2>4. \A t \in Transports :
            s.tr[t].dtls \in {"connecting", "connected"} => s.tr[t].params /\ s.tr[t].iceStarts > 0
    BY DEF Invariant, TransportsSound, Sound
  <2> QED
    BY <2>1, <2>2, <2>3, <2>4 DEF ActivationSound
<1> QED
  BY <1>1, ActivationInvariant, PTL

\* A connection that says "connecting" has a call of connect() that will report how it
\* ends, and one whose first session was rolled back (cleanupInitialProvisional) says
\* "new", whatever the retired calls still do.
THEOREM ReportIsTrue == Spec => []ReportTrue
<1>1. ActivationInv => ReportTrue
  <2> SUFFICES ASSUME Invariant(s), s.closing = "open", s.op = "idle",
                      Unfinished({s.connectEpoch}) = {}
               PROVE  s.conn # "connecting" /\ (s.session = "none" => s.conn = "new")
    BY DEF ActivationInv, ReportTrue
  <2>1. s.conn # "connecting"
    <3> SUFFICES ASSUME s.conn = "connecting"
                 PROVE  FALSE
      OBVIOUS
    <3>1. PICK c \in DOMAIN s.calls : Speaks(s, c)
      BY DEF Invariant, ReportSound, Usual
    <3>2. c \in Unfinished({s.connectEpoch})
      BY <3>1 DEF Speaks, Unfinished
    <3> QED
      BY <3>2
  <2>2. s.session = "none" => s.conn = "new"
    BY DEF Invariant, SessionSound
  <2> QED
    BY <2>1, <2>2
<1> QED
  BY <1>1, ActivationInvariant, PTL

=============================================================================
