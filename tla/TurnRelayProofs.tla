--------------------------- MODULE TurnRelayProofs ---------------------------
(* Proofs about TurnRelay for every set of clients and peers, every quota,  *)
(* and all lifetimes in which a channel is refreshed before it expires.     *)
EXTENDS TurnRelay, FiniteSetTheorems, SequenceTheorems, TLAPS

-----------------------------------------------------------------------------
(* The inductive invariant, in named parts.                                 *)

Phases == {"new", "allocating", "open", "closed"}
TxStates == {"off", "lookup", "sent", "unheard", "cancelled"}
Stages == {"none", "channel", "permission"}
OwnChannel == [number : Nat, refreshAt : Nat]
Channel == [number : Nat, peer : Peers, exp : Nat]

ClientType ==
    [id : Clients, phase : Phases, nonce : Nat, exp : Nat, refreshAt : Nat,
     channelNumber : Nat \ {0}, channelByAddr : [Peers -> OwnChannel],
     permissionByAddr : SUBSET Ips, bindQueue : Seq(Peers), permissionQueue : Seq(Peers)]
TxType ==
    [st : TxStates, retried : BOOLEAN, nonce : Nat, peer : Peers \union {NoPeer}, isNew : BOOLEAN]
AllocationType ==
    [st : {"none", "pending", "bound"}, exp : Nat, permissions : [Ips -> Nat],
     channels : SUBSET Channel]

TypeInv ==
    /\ scenario \in Scenarios
    /\ now \in 0..MaxTime /\ sends \in 0..MaxSends
    /\ cl \in ClientType
    /\ tx \in [Kinds -> TxType]
    /\ stage \in [Peers -> Stages]
    /\ alloc \in [Clients -> AllocationType]
    /\ sockets \subseteq Clients

\* The operation under way is the head of its queue.
HeadInv ==
    /\ tx["bind"].st # "off" =>
         cl.bindQueue # <<>> /\ Head(cl.bindQueue) = tx["bind"].peer
    /\ tx["permission"].st # "off" =>
         cl.permissionQueue # <<>> /\ Head(cl.permissionQueue) = tx["permission"].peer

\* A queue holds one operation for each key, and no more numbers are handed out
\* than calls of sendData came in.
QueueInv ==
    /\ \A i \in 1..Len(cl.bindQueue) : stage[cl.bindQueue[i]] = "channel"
    /\ \A i, j \in 1..Len(cl.bindQueue) : cl.bindQueue[i] = cl.bindQueue[j] => i = j
    /\ \A i, j \in 1..Len(cl.permissionQueue) :
          IpOf[cl.permissionQueue[i]] = IpOf[cl.permissionQueue[j]] => i = j
    /\ cl.channelNumber + Len(cl.bindQueue)
          <= sends + 1 + (IF tx["bind"].st = "off" THEN 0 ELSE 1)

\* Which transactions run in which phase, and with which nonce.
PhaseInv ==
    /\ cl.phase \in {"new", "allocating"} =>
         /\ \A k \in Kinds \ {"allocate"} : tx[k].st = "off"
         /\ cl.bindQueue = <<>> /\ cl.permissionQueue = <<>>
         /\ \A p \in Peers : cl.channelByAddr[p].number = 0
    /\ cl.phase \in {"new", "open"} => tx["allocate"].st = "off"
    /\ \A k \in Kinds : tx[k].st = "cancelled" => cl.phase = "closed"
    /\ \A k \in Kinds : tx[k].st # "off" => tx[k].nonce = cl.nonce

\* A number belongs to one peer, and a bind under way has one.
NumberInv ==
    /\ \A p \in Peers : /\ cl.channelByAddr[p].number < cl.channelNumber
                        /\ cl.channelByAddr[p].refreshAt <= now + channelRefreshTime
    /\ \A p, q \in Peers : cl.channelByAddr[p].number = cl.channelByAddr[q].number
                               => p = q \/ cl.channelByAddr[p].number = 0
    /\ tx["bind"].st # "off" => cl.channelByAddr[tx["bind"].peer].number # 0

\* An allocation was asked for with the password and a nonce.
AllocationInv ==
    /\ \A i \in Clients : Live(i) => scenario.password
    /\ \A i \in Clients : i > cl.id => alloc[i].st = "none" /\ alloc[i].exp = 0 /\ alloc[i].channels = {}
    /\ Live(cl.id) => cl.nonce # 0
    /\ cl.phase = "open" => scenario.password /\ cl.nonce # 0

Granted == clampLifetime(ClientLifetime)

\* The server's expiry is behind the client's next refresh.
KeptInv ==
    /\ alloc[cl.id].exp <= now + Granted
    /\ cl.phase = "open" => cl.exp = Granted
    /\ cl.phase = "open" /\ ~scenario.lossy /\ NonceHeld =>
         /\ alloc[cl.id].st = "bound"
         /\ alloc[cl.id].exp > cl.refreshAt
         /\ \A k \in Kinds : tx[k].st # "unheard"

\* What the server has bound, also by a request whose answer was lost, and what
\* the client uses without asking.
ChannelInv ==
    /\ \A c \in alloc[cl.id].channels :
         /\ c.number # 0 /\ c.number < cl.channelNumber
         /\ \A q \in Peers : cl.channelByAddr[q].number = c.number => q = c.peer
    /\ cl.phase = "open" /\ Live(cl.id) =>
         \A p \in Peers : LET own == cl.channelByAddr[p] IN
            own.number # 0 /\ own.refreshAt > now =>
               \E c \in alloc[cl.id].channels :
                  c.number = own.number /\ c.peer = p /\ c.exp >= own.refreshAt

RelayInv ==
    /\ TypeInv /\ HeadInv /\ QueueInv /\ PhaseInv /\ NumberInv
    /\ ClosedQuiet /\ RelayOwned /\ AllocationInv /\ KeptInv /\ ChannelInv
-----------------------------------------------------------------------------
(* What the client's operations do to its fields.                           *)

LEMMA KindsAre ==
    "allocate" \in Kinds /\ "refresh" \in Kinds /\ "bind" \in Kinds /\ "permission" \in Kinds
BY DEF Kinds

LEMMA OffType == Off \in TxType /\ Off.st = "off"
BY DEF Off, TxType, TxStates

LEMMA Clamp ==
    /\ Granted \in Nat \ {0} /\ clampLifetime(Granted) = Granted
    /\ \A e \in Nat : clampLifetime(e) \in Nat
    /\ \A e \in Nat : refreshDelay(e) \in Nat
    /\ refreshDelay(Granted) < Granted
BY ConstantsAssumption DEF Granted, clampLifetime, refreshDelay

LEMMA RemainingType ==
    ASSUME TypeInv, NEW k \in Kinds, tx' = Remaining(k)
    PROVE  /\ tx' \in [Kinds -> TxType] /\ tx'[k].st = "off"
           /\ \A j \in Kinds \ {k} : tx'[j] = tx[j]
BY OffType DEF TypeInv, Remaining

LEMMA AllocateEnds ==
    ASSUME TypeInv, NEW ok \in BOOLEAN, allocateEnds(ok)
    PROVE  /\ cl' \in ClientType /\ tx' = Remaining("allocate") /\ stage' = stage /\ sends' = sends
           /\ \A f \in {"id", "nonce", "channelNumber", "channelByAddr", "permissionByAddr",
                        "bindQueue", "permissionQueue"} : cl'[f] = cl[f]
           /\ ok => cl'.phase = "open" /\ cl'.exp = Granted
                    /\ cl'.refreshAt = now + refreshDelay(Granted)
           /\ ~ok => cl'.phase = "closed" /\ cl'.exp = cl.exp /\ cl'.refreshAt = cl.refreshAt
<1>1. cl \in ClientType /\ now \in Nat
  BY ConstantsAssumption DEF TypeInv
<1>2. now + refreshDelay(Granted) \in Nat /\ Granted \in Nat
  BY <1>1, Clamp
<1>3. /\ tx' = Remaining("allocate") /\ stage' = stage /\ sends' = sends
      /\ ok => cl' = [cl EXCEPT !.phase = "open", !.exp = Granted,
                                !.refreshAt = now + refreshDelay(Granted)]
      /\ ~ok => cl' = [cl EXCEPT !.phase = "closed"]
  BY DEF allocateEnds, Granted
<1> QED
  BY <1>1, <1>2, <1>3 DEF ClientType, Phases

LEMMA RefreshEnds ==
    ASSUME TypeInv, NEW ok \in BOOLEAN, refreshEnds(ok)
    PROVE  /\ cl' \in ClientType /\ tx' = Remaining("refresh") /\ stage' = stage /\ sends' = sends
           /\ \A f \in {"id", "phase", "nonce", "channelNumber", "channelByAddr", "permissionByAddr",
                        "bindQueue", "permissionQueue"} : cl'[f] = cl[f]
           /\ cl'.exp = IF ok THEN clampLifetime(cl.exp) ELSE cl.exp
           /\ cl'.refreshAt = now + refreshDelay(cl'.exp)
<1> DEFINE e == IF ok THEN clampLifetime(cl.exp) ELSE cl.exp
<1>1. cl \in ClientType /\ now \in Nat /\ cl.exp \in Nat
  BY ConstantsAssumption DEF TypeInv, ClientType
<1>2. e \in Nat
  BY <1>1, Clamp
<1>3. /\ tx' = Remaining("refresh") /\ stage' = stage /\ sends' = sends
      /\ cl' = [cl EXCEPT !.exp = e, !.refreshAt = now + refreshDelay(e)]
  BY DEF refreshEnds
<1> HIDE DEF e
<1>4. now + refreshDelay(e) \in Nat
  BY <1>1, <1>2, Clamp
<1>5. /\ cl' \in ClientType /\ cl'.exp = e /\ cl'.refreshAt = now + refreshDelay(e)
      /\ \A f \in {"id", "phase", "nonce", "channelNumber", "channelByAddr", "permissionByAddr",
                   "bindQueue", "permissionQueue"} : cl'[f] = cl[f]
  BY <1>1, <1>2, <1>3, <1>4 DEF ClientType
<1> QED
  BY <1>3, <1>5 DEF e

LEMMA GetPermission ==
    ASSUME NEW c \in ClientType, NEW p \in Peers
    PROVE  LET d == getPermission(c, p) IN
           /\ d \in ClientType
           /\ \A f \in {"id", "phase", "nonce", "exp", "refreshAt", "channelNumber", "channelByAddr",
                        "permissionByAddr", "bindQueue"} : d[f] = c[f]
           /\ \/ d.permissionQueue = c.permissionQueue
              \/ /\ d.permissionQueue = Append(c.permissionQueue, p)
                 /\ \A i \in 1..Len(c.permissionQueue) : IpOf[c.permissionQueue[i]] # IpOf[p]
<1>1. c.permissionQueue \in Seq(Peers) /\ DOMAIN c.permissionQueue = 1..Len(c.permissionQueue)
  BY DEF ClientType
<1>2. Append(c.permissionQueue, p) \in Seq(Peers)
  BY <1>1
<1>3. CASE getPermission(c, p) = c
  BY <1>3
<1>4. CASE getPermission(c, p) # c
  <2> DEFINE q == Append(c.permissionQueue, p)
  <2>1. /\ getPermission(c, p) = [c EXCEPT !.permissionQueue = q]
        /\ \A i \in DOMAIN c.permissionQueue : IpOf[c.permissionQueue[i]] # IpOf[p]
    BY <1>4 DEF getPermission
  <2> HIDE DEF q
  <2>2. /\ [c EXCEPT !.permissionQueue = q] \in ClientType
        /\ [c EXCEPT !.permissionQueue = q].permissionQueue = q
        /\ \A f \in {"id", "phase", "nonce", "exp", "refreshAt", "channelNumber", "channelByAddr",
                     "permissionByAddr", "bindQueue"} : [c EXCEPT !.permissionQueue = q][f] = c[f]
    BY <1>2 DEF ClientType, q
  <2> QED
    BY <1>1, <2>1, <2>2 DEF q
<1> QED
  BY <1>3, <1>4

LEMMA BindEnds ==
    ASSUME TypeInv, HeadInv, NEW ok \in BOOLEAN, tx["bind"].st # "off", bindEnds(ok)
    PROVE  LET p == tx["bind"].peer IN
           /\ p \in Peers /\ cl.bindQueue # <<>> /\ Head(cl.bindQueue) = p
           /\ cl' \in ClientType /\ tx' = Remaining("bind") /\ sends' = sends
           /\ stage' \in [Peers -> Stages] /\ \A q \in Peers : q # p => stage'[q] = stage[q]
           /\ \A f \in {"id", "phase", "nonce", "exp", "refreshAt", "channelNumber",
                        "permissionByAddr"} : cl'[f] = cl[f]
           /\ cl'.bindQueue = Tail(cl.bindQueue)
           /\ \/ cl'.permissionQueue = cl.permissionQueue
              \/ /\ cl'.permissionQueue = Append(cl.permissionQueue, p)
                 /\ \A i \in 1..Len(cl.permissionQueue) : IpOf[cl.permissionQueue[i]] # IpOf[p]
           /\ \A q \in Peers : q # p => cl'.channelByAddr[q] = cl.channelByAddr[q]
           /\ cl'.channelByAddr[p].number \in {0, cl.channelByAddr[p].number}
           /\ ok => /\ cl'.channelByAddr[p].number = cl.channelByAddr[p].number
                    /\ cl'.channelByAddr[p].refreshAt = now + channelRefreshTime
           /\ ~ok => cl'.channelByAddr[p].refreshAt = cl.channelByAddr[p].refreshAt
<1> DEFINE p == tx["bind"].peer
           b == Tail(cl.bindQueue)
           c == [cl EXCEPT !.bindQueue = b]
           d == [c EXCEPT !.channelByAddr = [c.channelByAddr EXCEPT ![p].refreshAt = now + channelRefreshTime]]
           u == [c EXCEPT !.channelByAddr = [c.channelByAddr EXCEPT ![p].number = 0]]
           Same(x) == \A f \in {"id", "phase", "nonce", "exp", "refreshAt", "channelNumber",
                                "permissionByAddr"} : x[f] = cl[f]
<1>1. /\ cl \in ClientType /\ now \in Nat /\ channelRefreshTime \in Nat
      /\ cl.bindQueue \in Seq(Peers) /\ cl.channelByAddr \in [Peers -> OwnChannel]
  BY ConstantsAssumption DEF TypeInv, ClientType
<1>2. p \in Peers /\ cl.bindQueue # <<>> /\ Head(cl.bindQueue) = p
  BY <1>1, HeadTailProperties DEF HeadInv
<1>3. b \in Seq(Peers)
  BY <1>1, <1>2, HeadTailProperties
<1>4. /\ tx' = Remaining("bind") /\ sends' = sends
      /\ ok => cl' = d
      /\ ~ok => cl' = getPermission(u, p) \/ cl' = getPermission(c, p)
      /\ stage' = [stage EXCEPT ![p] = IF ok \/ IpOf[p] \in cl.permissionByAddr
                                       THEN "none" ELSE "permission"]
  BY DEF bindEnds
<1> HIDE DEF p, b
<1>5. /\ c \in ClientType /\ c.bindQueue = b /\ Same(c)
      /\ c.permissionQueue = cl.permissionQueue /\ c.channelByAddr = cl.channelByAddr
  BY <1>1, <1>3 DEF ClientType
<1> HIDE DEF c
<1>6. /\ [cl.channelByAddr EXCEPT ![p].refreshAt = now + channelRefreshTime] \in [Peers -> OwnChannel]
      /\ [cl.channelByAddr EXCEPT ![p].number = 0] \in [Peers -> OwnChannel]
  <2> DEFINE o == cl.channelByAddr[p]
  <2>0. now + channelRefreshTime \in Nat
    BY <1>1
  <2>1. o \in OwnChannel
    BY <1>1, <1>2
  <2>2. [o EXCEPT !.refreshAt = now + channelRefreshTime] \in OwnChannel
    BY <2>0, <2>1 DEF OwnChannel
  <2>3. [o EXCEPT !.number = 0] \in OwnChannel
    BY <2>1 DEF OwnChannel
  <2>4. [cl.channelByAddr EXCEPT ![p].refreshAt = now + channelRefreshTime] \in [Peers -> OwnChannel]
    BY <1>1, <1>2, <2>2
  <2>5. [cl.channelByAddr EXCEPT ![p].number = 0] \in [Peers -> OwnChannel]
    BY <1>1, <1>2, <2>3
  <2> QED
    BY <2>4, <2>5
<1>7. /\ d \in ClientType /\ d.bindQueue = b /\ Same(d) /\ d.permissionQueue = cl.permissionQueue
      /\ d.channelByAddr = [cl.channelByAddr EXCEPT ![p].refreshAt = now + channelRefreshTime]
  BY <1>5, <1>6 DEF ClientType
<1>8. /\ u \in ClientType /\ u.bindQueue = b /\ Same(u) /\ u.permissionQueue = cl.permissionQueue
      /\ u.channelByAddr = [cl.channelByAddr EXCEPT ![p].number = 0]
  BY <1>5, <1>6 DEF ClientType
<1> HIDE DEF d, u
<1>9. stage' \in [Peers -> Stages] /\ \A q \in Peers : q # p => stage'[q] = stage[q]
  BY <1>2, <1>4 DEF TypeInv, Stages
<1>10. CASE ok
  <2>1. /\ \A q \in Peers : q # p => d.channelByAddr[q] = cl.channelByAddr[q]
        /\ d.channelByAddr[p].number = cl.channelByAddr[p].number
        /\ d.channelByAddr[p].refreshAt = now + channelRefreshTime
    BY <1>1, <1>2, <1>7 DEF OwnChannel
  <2> QED
    BY <1>2, <1>4, <1>7, <1>9, <1>10, <2>1 DEF p, b
<1>11. CASE ~ok
  <2>1. /\ \A q \in Peers : q # p => u.channelByAddr[q] = cl.channelByAddr[q]
        /\ u.channelByAddr[p].number = 0
        /\ u.channelByAddr[p].refreshAt = cl.channelByAddr[p].refreshAt
    BY <1>1, <1>2, <1>8 DEF OwnChannel
  <2>2. PICK x \in {u, c} : cl' = getPermission(x, p)
    BY <1>4, <1>11
  <2>3. /\ x \in ClientType /\ x.bindQueue = b /\ Same(x) /\ x.permissionQueue = cl.permissionQueue
        /\ \A q \in Peers : q # p => x.channelByAddr[q] = cl.channelByAddr[q]
        /\ x.channelByAddr[p].number \in {0, cl.channelByAddr[p].number}
        /\ x.channelByAddr[p].refreshAt = cl.channelByAddr[p].refreshAt
    BY <1>5, <1>8, <2>1
  <2>4. /\ cl' \in ClientType /\ Same(cl') /\ cl'.bindQueue = b /\ cl'.channelByAddr = x.channelByAddr
        /\ \/ cl'.permissionQueue = cl.permissionQueue
           \/ /\ cl'.permissionQueue = Append(cl.permissionQueue, p)
              /\ \A i \in 1..Len(cl.permissionQueue) : IpOf[cl.permissionQueue[i]] # IpOf[p]
    BY <1>2, <2>2, <2>3, GetPermission
  <2> QED
    BY <1>2, <1>4, <1>9, <1>11, <2>3, <2>4 DEF p, b
<1> QED
  BY <1>10, <1>11

LEMMA PermissionEnds ==
    ASSUME TypeInv, HeadInv, NEW ok \in BOOLEAN, tx["permission"].st # "off", permissionEnds(ok)
    PROVE  /\ cl.permissionQueue # <<>>
           /\ cl' \in ClientType /\ tx' = Remaining("permission") /\ sends' = sends
           /\ stage' \in [Peers -> Stages]
           /\ \A q \in Peers : stage[q] = "channel" => stage'[q] = "channel"
           /\ \A f \in {"id", "phase", "nonce", "exp", "refreshAt", "channelNumber", "channelByAddr",
                        "bindQueue"} : cl'[f] = cl[f]
           /\ cl'.permissionQueue = Tail(cl.permissionQueue)
<1> DEFINE q == Tail(cl.permissionQueue)
           a == IF ok THEN cl.permissionByAddr \union {IpOf[tx["permission"].peer]}
                ELSE cl.permissionByAddr
<1>1. cl \in ClientType /\ cl.permissionQueue \in Seq(Peers) /\ cl.permissionByAddr \subseteq Ips
  BY DEF TypeInv, ClientType
<1>2. tx["permission"].peer \in Peers /\ cl.permissionQueue # <<>> /\ q \in Seq(Peers)
  BY <1>1, HeadTailProperties DEF HeadInv
<1>3. a \in SUBSET Ips
  BY <1>1, <1>2 DEF Ips
<1>4. /\ cl' = [cl EXCEPT !.permissionQueue = q, !.permissionByAddr = a]
      /\ tx' = Remaining("permission") /\ sends' = sends
      /\ stage' = Permitted(IpOf[tx["permission"].peer])
  BY DEF permissionEnds
<1>5. /\ stage' \in [Peers -> Stages]
      /\ \A p \in Peers : stage[p] = "channel" => stage'[p] = "channel"
  BY <1>4 DEF TypeInv, Permitted, Stages
<1> HIDE DEF q, a
<1>6. /\ cl' \in ClientType /\ cl'.permissionQueue = q
      /\ \A f \in {"id", "phase", "nonce", "exp", "refreshAt", "channelNumber", "channelByAddr",
                   "bindQueue"} : cl'[f] = cl[f]
  BY <1>1, <1>2, <1>3, <1>4 DEF ClientType
<1> QED
  BY <1>2, <1>4, <1>5, <1>6 DEF q

LEMMA RequestType ==
    ASSUME NEW t \in [Kinds -> TxType], NEW k \in Kinds, NEW c \in ClientType
    PROVE  /\ request(k, t, c) \in [Kinds -> TxType]
           /\ request(k, t, c)[k].st = "lookup" /\ request(k, t, c)[k].nonce = c.nonce
           /\ request(k, t, c)[k].peer = t[k].peer
           /\ \A j \in Kinds \ {k} : request(k, t, c)[j] = t[j]
<1>1. c.nonce \in Nat
  BY DEF ClientType
<1> QED
  BY <1>1 DEF request, TxType, TxStates

LEMMA Retry ==
    ASSUME TypeInv, NEW k \in Kinds, retry(k)
    PROVE  /\ cl' \in ClientType /\ stage' = stage /\ sends' = sends
           /\ \A f \in {"id", "phase", "exp", "refreshAt", "channelNumber", "channelByAddr",
                        "permissionByAddr", "bindQueue", "permissionQueue"} : cl'[f] = cl[f]
           /\ tx' \in [Kinds -> TxType] /\ tx'[k].st = "lookup" /\ tx'[k].nonce = cl'.nonce
           /\ tx'[k].peer = tx[k].peer /\ \A j \in Kinds \ {k} : tx'[j] = tx[j]
<1> DEFINE n == now + scenario.nonceLifetime
           t == [tx EXCEPT ![k].retried = TRUE]
<1>1. cl \in ClientType /\ n \in Nat
  BY ConstantsAssumption DEF TypeInv
<1>2. cl' = [cl EXCEPT !.nonce = n] /\ tx' = request(k, t, cl') /\ stage' = stage /\ sends' = sends
  BY DEF retry
<1>3. t \in [Kinds -> TxType] /\ t[k].peer = tx[k].peer /\ \A j \in Kinds \ {k} : t[j] = tx[j]
  BY DEF TypeInv, TxType
<1> HIDE DEF n, t
<1>4. /\ cl' \in ClientType
      /\ \A f \in {"id", "phase", "exp", "refreshAt", "channelNumber", "channelByAddr",
                   "permissionByAddr", "bindQueue", "permissionQueue"} : cl'[f] = cl[f]
  BY <1>1, <1>2 DEF ClientType
<1>5. /\ request(k, t, cl') \in [Kinds -> TxType]
      /\ request(k, t, cl')[k].st = "lookup" /\ request(k, t, cl')[k].nonce = cl'.nonce
      /\ request(k, t, cl')[k].peer = t[k].peer
      /\ \A j \in Kinds \ {k} : request(k, t, cl')[j] = t[j]
  BY <1>3, <1>4, RequestType
<1> QED
  BY <1>2, <1>3, <1>4, <1>5

\* The transaction of kind k moves on to state st.
TxMoves(k, st) ==
    /\ tx' \in [Kinds -> TxType] /\ tx'[k].st = st
    /\ tx'[k].nonce = tx[k].nonce /\ tx'[k].peer = tx[k].peer
    /\ \A j \in Kinds \ {k} : tx'[j] = tx[j]

LEMMA SetTxState ==
    ASSUME TypeInv, NEW k \in Kinds, NEW st \in TxStates, tx' = [tx EXCEPT ![k].st = st]
    PROVE  TxMoves(k, st)
BY DEF TypeInv, TxMoves, TxType

LEMMA SendData ==
    ASSUME TypeInv, NEW p \in Peers, sendData(p)
    PROVE  /\ cl' \in ClientType /\ stage' \in [Peers -> Stages] /\ sends' \in 0..MaxSends
           /\ cl'.bindQueue = Append(cl.bindQueue, p) /\ sends' = sends + 1
           /\ stage'[p] = "channel" /\ \A q \in Peers \ {p} : stage'[q] = stage[q]
           /\ \A f \in {"id", "phase", "nonce", "exp", "refreshAt", "channelNumber", "channelByAddr",
                        "permissionByAddr", "permissionQueue"} : cl'[f] = cl[f]
<1> DEFINE q == Append(cl.bindQueue, p)
<1>1. cl \in ClientType /\ q \in Seq(Peers)
  BY DEF TypeInv, ClientType
<1>2. /\ cl' = [cl EXCEPT !.bindQueue = q] /\ stage' = [stage EXCEPT ![p] = "channel"]
      /\ sends < MaxSends /\ sends' = sends + 1
  BY DEF sendData
<1>3. /\ stage' \in [Peers -> Stages] /\ sends' \in 0..MaxSends
      /\ stage'[p] = "channel" /\ \A r \in Peers \ {p} : stage'[r] = stage[r]
  BY <1>2, ConstantsAssumption DEF TypeInv, Stages
<1> HIDE DEF q
<1>4. /\ cl' \in ClientType /\ cl'.bindQueue = q
      /\ \A f \in {"id", "phase", "nonce", "exp", "refreshAt", "channelNumber", "channelByAddr",
                   "permissionByAddr", "permissionQueue"} : cl'[f] = cl[f]
  BY <1>1, <1>2 DEF ClientType
<1> QED
  BY <1>2, <1>3, <1>4 DEF q

LEMMA EnsureChannel ==
    ASSUME TypeInv, ensureChannel
    PROVE  LET p == Head(cl.bindQueue) IN
           /\ p \in Peers /\ cl.bindQueue # <<>> /\ tx["bind"].st = "off"
           /\ cl' \in ClientType /\ tx' \in [Kinds -> TxType]
           /\ tx'["bind"].st = "lookup" /\ tx'["bind"].nonce = cl.nonce /\ tx'["bind"].peer = p
           /\ \A k \in Kinds \ {"bind"} : tx'[k] = tx[k]
           /\ \A f \in {"id", "phase", "nonce", "exp", "refreshAt",
                        "permissionByAddr", "bindQueue", "permissionQueue"} : cl'[f] = cl[f]
           /\ \A q \in Peers \ {p} : cl'.channelByAddr[q] = cl.channelByAddr[q]
           /\ \/ /\ cl.channelByAddr[p].number # 0
                 /\ cl'.channelByAddr = cl.channelByAddr /\ cl'.channelNumber = cl.channelNumber
              \/ /\ cl'.channelByAddr[p].number = cl.channelNumber /\ cl'.channelByAddr[p].refreshAt = 0
                 /\ cl'.channelNumber = cl.channelNumber + 1
<1> DEFINE p == Head(cl.bindQueue)
           isNew == cl.channelByAddr[p].number = 0
           own == [number |-> cl.channelNumber, refreshAt |-> 0]
           m == [cl.channelByAddr EXCEPT ![p] = own]
           n == cl.channelNumber + 1
           c == [cl EXCEPT !.channelByAddr = m, !.channelNumber = n]
           t == [tx EXCEPT !["bind"] = [Off EXCEPT !.peer = p, !.isNew = isNew]]
<1>1. /\ cl \in ClientType /\ cl.bindQueue \in Seq(Peers) /\ cl.channelNumber \in Nat \ {0}
      /\ cl.channelByAddr \in [Peers -> OwnChannel] /\ cl.nonce \in Nat
  BY DEF TypeInv, ClientType
<1>2. p \in Peers /\ cl.bindQueue # <<>> /\ tx["bind"].st = "off"
  BY <1>1, HeadTailProperties DEF ensureChannel
<1>3. /\ cl' = IF isNew THEN c ELSE cl
      /\ tx' = request("bind", t, cl')
  BY DEF ensureChannel
<1>4. /\ t \in [Kinds -> TxType] /\ t["bind"].peer = p
      /\ \A k \in Kinds \ {"bind"} : t[k] = tx[k]
  BY <1>2, OffType, KindsAre DEF TypeInv, TxType, Off
<1>5. /\ m \in [Peers -> OwnChannel] /\ m[p].number = cl.channelNumber /\ m[p].refreshAt = 0
      /\ \A q \in Peers \ {p} : m[q] = cl.channelByAddr[q]
  BY <1>1, <1>2 DEF OwnChannel
<1>n. n \in Nat \ {0}
  BY <1>1
<1> HIDE DEF p, m, n, t
<1>6. /\ c \in ClientType /\ c.channelByAddr = m /\ c.channelNumber = n
      /\ \A f \in {"id", "phase", "nonce", "exp", "refreshAt",
                   "permissionByAddr", "bindQueue", "permissionQueue"} : c[f] = cl[f]
  BY <1>1, <1>5, <1>n DEF ClientType
<1> HIDE DEF c
<1>7. cl' \in ClientType /\ cl'.nonce = cl.nonce
  BY <1>1, <1>3, <1>6
<1>8. /\ tx' \in [Kinds -> TxType] /\ tx'["bind"].st = "lookup" /\ tx'["bind"].nonce = cl.nonce
      /\ tx'["bind"].peer = p /\ \A k \in Kinds \ {"bind"} : tx'[k] = tx[k]
  BY <1>3, <1>4, <1>7, KindsAre, RequestType
<1> QED
  BY <1>2, <1>3, <1>5, <1>6, <1>7, <1>8 DEF p, n

LEMMA CreatePermission ==
    ASSUME TypeInv, createPermission
    PROVE  /\ cl.permissionQueue # <<>> /\ tx["permission"].st = "off"
           /\ tx' \in [Kinds -> TxType] /\ tx'["permission"].st = "lookup"
           /\ tx'["permission"].nonce = cl.nonce
           /\ tx'["permission"].peer = Head(cl.permissionQueue)
           /\ \A k \in Kinds \ {"permission"} : tx'[k] = tx[k]
<1> DEFINE p == Head(cl.permissionQueue)
           t == [tx EXCEPT !["permission"] = [Off EXCEPT !.peer = p]]
<1>1. cl \in ClientType /\ cl.permissionQueue \in Seq(Peers)
  BY DEF TypeInv, ClientType
<1>2. p \in Peers /\ cl.permissionQueue # <<>> /\ tx["permission"].st = "off"
  BY <1>1, HeadTailProperties DEF createPermission
<1>3. tx' = request("permission", t, cl)
  BY DEF createPermission
<1>4. /\ t \in [Kinds -> TxType] /\ t["permission"].peer = p
      /\ \A k \in Kinds \ {"permission"} : t[k] = tx[k]
  BY <1>2, OffType, KindsAre DEF TypeInv, TxType, Off
<1> HIDE DEF t
<1> QED
  BY <1>1, <1>2, <1>3, <1>4, KindsAre, RequestType

LEMMA CloseFields ==
    ASSUME TypeInv, close
    PROVE  /\ cl.phase \in {"allocating", "open"} /\ cl'.phase = "closed"
           /\ cl' \in ClientType /\ tx' \in [Kinds -> TxType]
           /\ \A f \in {"id", "nonce", "exp", "refreshAt", "channelNumber", "channelByAddr",
                        "permissionByAddr", "bindQueue", "permissionQueue"} : cl'[f] = cl[f]
           /\ \A k \in Kinds : /\ tx'[k].nonce = tx[k].nonce /\ tx'[k].peer = tx[k].peer
                               /\ tx'[k].st = IF tx[k].st \in {"sent", "unheard"}
                                              THEN "cancelled" ELSE tx[k].st
<1>1. cl \in ClientType /\ cl' = [cl EXCEPT !.phase = "closed"]
  BY DEF TypeInv, close
<1>2. /\ cl' \in ClientType /\ cl'.phase = "closed"
      /\ \A f \in {"id", "nonce", "exp", "refreshAt", "channelNumber", "channelByAddr",
                   "permissionByAddr", "bindQueue", "permissionQueue"} : cl'[f] = cl[f]
  BY <1>1 DEF ClientType, Phases
<1>3. /\ tx' \in [Kinds -> TxType]
      /\ \A k \in Kinds : /\ tx'[k].nonce = tx[k].nonce /\ tx'[k].peer = tx[k].peer
                          /\ tx'[k].st = IF tx[k].st \in {"sent", "unheard"}
                                         THEN "cancelled" ELSE tx[k].st
  BY DEF TypeInv, close, TxType, TxStates
<1> QED
  BY <1>2, <1>3 DEF close

LEMMA Fresh ==
    ASSUME NEW i \in Clients
    PROVE  /\ FreshClient(i) \in ClientType
           /\ FreshClient(i).id = i /\ FreshClient(i).phase = "new" /\ FreshClient(i).nonce = 0
           /\ FreshClient(i).bindQueue = <<>> /\ FreshClient(i).permissionQueue = <<>>
           /\ FreshClient(i).channelNumber = 1
           /\ \A p \in Peers : /\ FreshClient(i).channelByAddr[p].number = 0
                               /\ FreshClient(i).channelByAddr[p].refreshAt = 0
BY DEF FreshClient, ClientType, Phases, OwnChannel

-----------------------------------------------------------------------------
(* What the server does with a request.                                     *)

LEMMA Authenticated ==
    ASSUME TypeInv, NEW k \in Kinds
    PROVE  /\ authenticateRequest(tx[k]) \in {Success, 401, 438}
           /\ authenticateRequest(tx[k]) = Success <=> tx[k].nonce > now /\ scenario.password
<1>1. tx[k].nonce \in Nat /\ now \in Nat /\ scenario.password \in BOOLEAN
  BY ConstantsAssumption DEF TypeInv, TxType
<1> QED
  BY <1>1 DEF authenticateRequest, Success

LEMMA SetPermissionType ==
    ASSUME TypeInv, NEW a \in AllocationType, NEW p \in Peers
    PROVE  /\ setPermission(a, p) \in AllocationType
           /\ \A f \in {"st", "exp", "channels"} : setPermission(a, p)[f] = a[f]
<1> DEFINE m == [a.permissions EXCEPT ![IpOf[p]] = now + permissionLifetime]
<1>1. now + permissionLifetime \in Nat /\ a.permissions \in [Ips -> Nat]
  BY ConstantsAssumption DEF TypeInv, AllocationType
<1>2. m \in [Ips -> Nat]
  BY <1>1
<1>3. setPermission(a, p) = [a EXCEPT !.permissions = m]
  BY DEF setPermission
<1> HIDE DEF m
<1> QED
  BY <1>2, <1>3 DEF AllocationType

LEMMA AnswerFields == \A code, a : Answer(code, a).code = code /\ Answer(code, a).alloc = a
BY DEF Answer

\* The channels of allocation a after p was bound to a number.
Rebound(a, p, number) ==
    {c \in a.channels : c.peer # p} \union
    {[number |-> number, peer |-> p, exp |-> now + channelLifetime]}

LEMMA BindAnswer ==
    ASSUME TypeInv, NEW a \in AllocationType, NEW p \in Peers, NEW n \in Nat
    PROVE  LET r == handleChannelBindRequest(a, p, n) IN
           \/ r.alloc = a /\ r.code \in {400, 437}
           \/ /\ r.code = Success /\ r.alloc \in AllocationType
              /\ r.alloc.st = a.st /\ r.alloc.exp = a.exp
              /\ r.alloc.channels = Rebound(a, p, n)
<1> DEFINE b == setPermission(a, p)
           s == Rebound(a, p, n)
           d == [b EXCEPT !.channels = s]
           r == handleChannelBindRequest(a, p, n)
<1>1. b \in AllocationType /\ b.st = a.st /\ b.exp = a.exp /\ b.channels = a.channels
  BY SetPermissionType
<1>2. now + channelLifetime \in Nat /\ a.channels \subseteq Channel
  BY ConstantsAssumption DEF TypeInv, AllocationType
<1>3. s \in SUBSET Channel
  BY <1>2 DEF Rebound, Channel
<1>4. /\ s = {c \in b.channels : c.peer # p} \union
             {[number |-> n, peer |-> p, exp |-> now + channelLifetime]}
  BY <1>1 DEF Rebound
<1>5. \/ r = Answer(437, a) \/ r = Answer(400, a) \/ r = Answer(Success, d)
  BY <1>4 DEF handleChannelBindRequest
<1> HIDE DEF b, s, r
<1>6. d \in AllocationType
  BY <1>1, <1>3 DEF AllocationType
<1>7. d.st = a.st /\ d.exp = a.exp /\ d.channels = s
  BY <1>1 DEF AllocationType
<1> HIDE DEF d
<1>8. \/ r.alloc = a /\ (r.code = 437 \/ r.code = 400)
      \/ r.alloc = d /\ r.code = Success
  BY <1>5, AnswerFields, SMT
<1> QED
  BY <1>6, <1>7, <1>8 DEF r, s

LEMMA ServerAnswer ==
    ASSUME TypeInv, HeadInv, NEW k \in Kinds, tx[k].st # "off"
    PROVE  LET a == alloc[cl.id]
               r == handleClientPacket(k)
               auth == tx[k].nonce > now /\ scenario.password
           IN
           /\ r.alloc \in AllocationType
           /\ ~auth => r.alloc = a /\ r.code \in {401, 438}
           /\ auth => r.code \in {0, Success, 400, 437, 486}
           /\ auth /\ k = "refresh" /\ a.st # "none" => r.code = Success
           /\ \/ r.alloc = a /\ r.code \notin {0, Success}
              \/ /\ k = "allocate" /\ auth /\ r.code = 0 /\ a.st = "none"
                 /\ ~(Cardinality({i \in Clients : Live(i)}) >= maxAllocations)
                 /\ r.alloc.st = "pending" /\ r.alloc.exp = a.exp /\ r.alloc.channels = a.channels
              \/ /\ k = "refresh" /\ r.code = Success /\ r.alloc.st = a.st
                 /\ r.alloc.exp = now + clampLifetime(cl.exp) /\ r.alloc.channels = a.channels
              \/ /\ k = "permission" /\ r.code = Success /\ r.alloc.st = a.st
                 /\ r.alloc.exp = a.exp /\ r.alloc.channels = a.channels
              \/ /\ k = "bind" /\ r.code = Success /\ r.alloc.st = a.st /\ r.alloc.exp = a.exp
                 /\ r.alloc.channels = Rebound(a, tx[k].peer, cl.channelByAddr[tx[k].peer].number)
<1> DEFINE a == alloc[cl.id]
           r == handleClientPacket(k)
           auth == tx[k].nonce > now /\ scenario.password
           n == now + clampLifetime(cl.exp)
           pending == [a EXCEPT !.st = "pending"]
           renewed == [a EXCEPT !.exp = n]
<1>0. cl \in ClientType
  BY DEF TypeInv
<1>c. /\ cl.id \in Clients /\ cl.exp \in Nat
      /\ cl.bindQueue \in Seq(Peers) /\ cl.permissionQueue \in Seq(Peers)
      /\ cl.channelByAddr \in [Peers -> OwnChannel]
  BY <1>0 DEF ClientType
<1>1. /\ a \in AllocationType /\ cl.exp \in Nat /\ now \in Nat
      /\ cl.bindQueue \in Seq(Peers) /\ cl.permissionQueue \in Seq(Peers)
      /\ \A p \in Peers : cl.channelByAddr[p].number \in Nat
  <2>0. now \in Nat
    BY ConstantsAssumption DEF TypeInv
  <2>1. a \in AllocationType
    BY <1>c DEF TypeInv
  <2>2. \A p \in Peers : cl.channelByAddr[p] \in OwnChannel
    BY <1>c
  <2>3. \A x \in OwnChannel : x.number \in Nat
    BY DEF OwnChannel
  <2> QED
    BY <1>c, <2>0, <2>1, <2>2, <2>3
<1>2. n \in Nat
  <2>1. clampLifetime(cl.exp) \in Nat
    BY <1>1, Clamp
  <2> QED
    BY <1>1, <2>1
<1>3. k \in {"bind", "permission"} => tx[k].peer \in Peers
  BY <1>1, HeadTailProperties DEF HeadInv
<1>4. CASE ~auth
  <2>1. authenticateRequest(tx[k]) \in {401, 438} /\ authenticateRequest(tx[k]) # Success
    BY <1>4, Authenticated DEF Success
  <2>2. r = Answer(authenticateRequest(tx[k]), a)
    BY <2>1 DEF handleClientPacket, Kinds
  <2> QED
    BY <1>1, <1>4, <2>1, <2>2 DEF Answer, Success
<1>5. CASE auth
  <2>0. authenticateRequest(tx[k]) = Success
    BY <1>5, Authenticated
  <2>1. CASE k = "allocate"
    <3>1. r = handleAllocateRequest(a)
      BY <2>0, <2>1 DEF handleClientPacket
    <3>2. \/ r = Answer(437, a) \/ r = Answer(486, a)
          \/ /\ r = Answer(0, pending) /\ a.st = "none"
             /\ ~(Cardinality({i \in Clients : Live(i)}) >= maxAllocations)
      BY <3>1 DEF handleAllocateRequest
    <3> HIDE DEF r, a
    <3>3. /\ pending \in AllocationType /\ pending.st = "pending"
          /\ pending.exp = a.exp /\ pending.channels = a.channels
      BY <1>1 DEF AllocationType
    <3> HIDE DEF pending
    <3>4. \/ r.alloc = a /\ r.code \in {437, 486}
          \/ /\ r.alloc = pending /\ r.code = 0 /\ a.st = "none"
             /\ ~(Cardinality({i \in Clients : Live(i)}) >= maxAllocations)
      BY <3>2, AnswerFields
    <3> QED
      BY <1>1, <1>5, <2>1, <3>3, <3>4 DEF Success, r, a
  <2>2. CASE k = "refresh"
    <3>1. r = handleRefreshRequest(a, cl.exp)
      BY <2>0, <2>2 DEF handleClientPacket
    <3>2. (r = Answer(437, a) /\ a.st = "none") \/ r = Answer(Success, renewed)
      BY <3>1 DEF handleRefreshRequest
    <3> HIDE DEF n, r, a
    <3>3. /\ renewed \in AllocationType /\ renewed.exp = n
          /\ renewed.st = a.st /\ renewed.channels = a.channels
      BY <1>1, <1>2 DEF AllocationType
    <3> HIDE DEF renewed
    <3>4. \/ r.alloc = a /\ r.code = 437 /\ a.st = "none"
          \/ r.alloc = renewed /\ r.code = Success
      BY <3>2, AnswerFields
    <3> QED
      BY <1>1, <1>5, <2>2, <3>3, <3>4 DEF Success, r, a, n
  <2>3. CASE k = "permission"
    <3>1. r = handleCreatePermissionRequest(a, tx[k].peer)
      BY <2>0, <2>3 DEF handleClientPacket
    <3>2. \/ r = Answer(437, a)
          \/ r = Answer(Success, setPermission(a, tx[k].peer))
      BY <3>1 DEF handleCreatePermissionRequest
    <3>3. /\ setPermission(a, tx[k].peer) \in AllocationType
          /\ \A f \in {"st", "exp", "channels"} : setPermission(a, tx[k].peer)[f] = a[f]
      BY <1>1, <1>3, <2>3, SetPermissionType
    <3> HIDE DEF r, a
    <3> QED
      BY <1>1, <1>5, <2>3, <3>2, <3>3 DEF Answer, Success, r, a
  <2>4. CASE k = "bind"
    <3>1. r = handleChannelBindRequest(a, tx[k].peer, cl.channelByAddr[tx[k].peer].number)
      BY <2>0, <2>4 DEF handleClientPacket
    <3>2. tx[k].peer \in Peers /\ cl.channelByAddr[tx[k].peer].number \in Nat
      BY <1>1, <1>3, <2>4
    <3>3. \/ r.alloc = a /\ r.code \in {400, 437}
          \/ /\ r.code = Success /\ r.alloc \in AllocationType
             /\ r.alloc.st = a.st /\ r.alloc.exp = a.exp
             /\ r.alloc.channels = Rebound(a, tx[k].peer, cl.channelByAddr[tx[k].peer].number)
      BY <1>1, <3>1, <3>2, BindAnswer
    <3> HIDE DEF r
    <3> QED
      BY <1>1, <1>5, <2>4, <3>3 DEF Success, r
  <2> QED
    BY <2>1, <2>2, <2>3, <2>4 DEF Kinds
<1> QED
  BY <1>4, <1>5

LEMMA NoAllocationType ==
    /\ NoAllocation \in AllocationType
    /\ NoAllocation.st = "none" /\ NoAllocation.exp = 0 /\ NoAllocation.channels = {}
BY DEF NoAllocation, AllocationType

\* The clock: what has expired is gone, the rest is as it was.
LEMMA CleanupExpired ==
    ASSUME TypeInv, NEW t \in Nat, cleanupExpired(t), NEW i \in Clients
    PROVE  LET expired == alloc[i].st = "bound" /\ alloc[i].exp <= t IN
           /\ alloc' \in [Clients -> AllocationType]
           /\ expired => alloc'[i] = NoAllocation
           /\ ~expired => /\ alloc'[i].st = alloc[i].st /\ alloc'[i].exp = alloc[i].exp
                          /\ alloc'[i].channels = {c \in alloc[i].channels : c.exp > t}
<1> DEFINE E == {j \in Clients : alloc[j].st = "bound" /\ alloc[j].exp <= t}
           P(j) == [a \in Ips |-> IF alloc[j].permissions[a] <= t THEN 0 ELSE alloc[j].permissions[a]]
           C(j) == {c \in alloc[j].channels : c.exp > t}
           D(j) == [alloc[j] EXCEPT !.permissions = P(j), !.channels = C(j)]
<1>1. alloc' = [j \in Clients |-> IF j \in E THEN NoAllocation ELSE D(j)]
  BY DEF cleanupExpired
<1>2. ASSUME NEW j \in Clients
      PROVE  D(j) \in AllocationType /\ D(j).st = alloc[j].st /\ D(j).exp = alloc[j].exp /\ D(j).channels = C(j)
  <2>1. alloc[j] \in AllocationType
    BY DEF TypeInv
  <2>2. P(j) \in [Ips -> Nat] /\ C(j) \in SUBSET Channel
    BY <2>1 DEF AllocationType
  <2> HIDE DEF P, C
  <2> QED
    BY <2>1, <2>2 DEF AllocationType
<1> HIDE DEF D
<1>3. alloc' \in [Clients -> AllocationType]
  BY <1>1, <1>2, NoAllocationType
<1> QED
  BY <1>1, <1>2, <1>3

-----------------------------------------------------------------------------
(* The client's part of the invariant, operation by operation.              *)

ClientTypes ==
    /\ cl \in ClientType /\ tx \in [Kinds -> TxType] /\ stage \in [Peers -> Stages]
    /\ sends \in 0..MaxSends

ClientInv == HeadInv /\ QueueInv /\ PhaseInv /\ NumberInv /\ ClosedQuiet

LEMMA ClientFields ==
    ASSUME NEW c \in ClientType
    PROVE  /\ c.id \in Clients /\ c.nonce \in Nat /\ c.exp \in Nat /\ c.refreshAt \in Nat
           /\ c.channelNumber \in Nat /\ c.channelNumber # 0
           /\ c.bindQueue \in Seq(Peers) /\ c.permissionQueue \in Seq(Peers)
           /\ c.phase \in Phases
           /\ \A p \in Peers : c.channelByAddr[p].number \in Nat /\ c.channelByAddr[p].refreshAt \in Nat
<1>1. /\ c.id \in Clients /\ c.nonce \in Nat /\ c.exp \in Nat /\ c.refreshAt \in Nat
      /\ c.channelNumber \in Nat /\ c.channelNumber # 0
      /\ c.bindQueue \in Seq(Peers) /\ c.permissionQueue \in Seq(Peers)
      /\ c.phase \in Phases
      /\ c.channelByAddr \in [Peers -> OwnChannel]
  BY DEF ClientType
<1>2. \A x \in OwnChannel : x.number \in Nat /\ x.refreshAt \in Nat
  BY DEF OwnChannel
<1> QED
  BY <1>1, <1>2

LEMMA Times ==
    ASSUME TypeInv
    PROVE  /\ now \in Nat /\ sends \in Nat /\ channelRefreshTime \in Nat /\ channelLifetime \in Nat
           /\ channelRefreshTime <= channelLifetime
           /\ cl \in ClientType /\ cl.id \in Clients /\ Clients \subseteq Nat
<1>1. /\ now \in Nat /\ sends \in Nat /\ channelRefreshTime \in Nat /\ channelLifetime \in Nat
      /\ channelRefreshTime <= channelLifetime
  BY ConstantsAssumption DEF TypeInv
<1> QED
  BY <1>1, ClientFields, ConstantsAssumption DEF TypeInv

\* The client is left alone; time may pass.
LEMMA ClientFrame ==
    ASSUME TypeInv, ClientInv, UNCHANGED <<cl, tx, stage, sends>>, now' \in Nat, now' >= now
    PROVE  ClientTypes' /\ ClientInv'
<1>1. ClientTypes' /\ HeadInv' /\ QueueInv' /\ PhaseInv' /\ ClosedQuiet'
  BY DEF TypeInv, ClientInv, ClientTypes, HeadInv, QueueInv, PhaseInv, ClosedQuiet
<1>2. NumberInv'
  <2>1. \A p \in Peers : cl.channelByAddr[p].refreshAt \in Nat
    BY Times, ClientFields
  <2> QED
    BY <2>1, Times DEF ClientInv, NumberInv
<1> QED
  BY <1>1, <1>2 DEF ClientInv

\* A transaction that is under way gets to another state.
LEMMA ClientTxMoves ==
    ASSUME TypeInv, ClientInv, UNCHANGED <<now, cl, stage, sends>>, NEW k \in Kinds,
           NEW st \in {"sent", "unheard", "cancelled"}, tx[k].st # "off", TxMoves(k, st),
           cl.phase = "closed" <=> st = "cancelled"
    PROVE  ClientTypes' /\ ClientInv'
<1>1. ClientTypes' /\ tx'[k].st = st /\ tx'[k].nonce = tx[k].nonce /\ tx'[k].peer = tx[k].peer
  BY DEF TypeInv, ClientTypes, TxMoves
<1>2. \A j \in Kinds : /\ tx'[j].peer = tx[j].peer /\ tx'[j].nonce = tx[j].nonce
                       /\ tx'[j].st = "off" <=> tx[j].st = "off"
                       /\ tx'[j].st # tx[j].st => tx'[j].st = st
  BY <1>1 DEF TxMoves
<1>3. HeadInv' /\ QueueInv' /\ NumberInv'
  BY <1>2, KindsAre DEF ClientInv, HeadInv, QueueInv, NumberInv
<1>4. PhaseInv'
  BY <1>2, KindsAre DEF ClientInv, PhaseInv
<1>5. ClosedQuiet'
  BY <1>2 DEF ClientInv, ClosedQuiet
<1> QED
  BY <1>1, <1>3, <1>4, <1>5 DEF ClientInv

LEMMA ClientAllocateEnds ==
    ASSUME TypeInv, ClientInv, UNCHANGED now, NEW ok \in BOOLEAN, allocateEnds(ok),
           tx["allocate"].st # "off", ok => tx["allocate"].st = "sent"
    PROVE  ClientTypes' /\ ClientInv' /\ (ok => cl.phase = "allocating")
<1>1. /\ tx' \in [Kinds -> TxType] /\ tx'["allocate"].st = "off"
      /\ \A j \in Kinds \ {"allocate"} : tx'[j] = tx[j]
  BY AllocateEnds, RemainingType, KindsAre
<1>2. /\ cl' \in ClientType /\ stage' = stage /\ sends' = sends
      /\ \A f \in {"id", "nonce", "channelNumber", "channelByAddr", "permissionByAddr",
                   "bindQueue", "permissionQueue"} : cl'[f] = cl[f]
      /\ cl'.phase = IF ok THEN "open" ELSE "closed"
  BY AllocateEnds
<1>3. /\ cl.phase \in {"allocating", "closed"} /\ (ok => cl.phase = "allocating")
      /\ cl.phase = "closed" => \A k \in Kinds : tx[k].st \notin {"sent", "unheard"}
  BY Times, ClientFields, KindsAre DEF ClientInv, PhaseInv, ClosedQuiet, Phases
<1>4. ClientTypes'
  BY <1>1, <1>2 DEF TypeInv, ClientTypes
<1>5. HeadInv' /\ QueueInv' /\ NumberInv'
  BY <1>1, <1>2 DEF ClientInv, HeadInv, QueueInv, NumberInv, Kinds
<1>6. PhaseInv'
  BY <1>1, <1>2, <1>3 DEF ClientInv, PhaseInv, Kinds
<1>7. ClosedQuiet'
  BY <1>1, <1>2, <1>3 DEF ClientInv, PhaseInv, ClosedQuiet, Kinds
<1> QED
  BY <1>3, <1>4, <1>5, <1>6, <1>7 DEF ClientInv

LEMMA ClientRefreshEnds ==
    ASSUME TypeInv, ClientInv, UNCHANGED now, NEW ok \in BOOLEAN, refreshEnds(ok)
    PROVE  ClientTypes' /\ ClientInv'
<1>1. /\ tx' \in [Kinds -> TxType] /\ tx'["refresh"].st = "off"
      /\ \A j \in Kinds \ {"refresh"} : tx'[j] = tx[j]
  BY RefreshEnds, RemainingType, KindsAre
<1>2. /\ cl' \in ClientType /\ stage' = stage /\ sends' = sends
      /\ \A f \in {"id", "phase", "nonce", "channelNumber", "channelByAddr", "permissionByAddr",
                   "bindQueue", "permissionQueue"} : cl'[f] = cl[f]
  BY RefreshEnds
<1>4. ClientTypes'
  BY <1>1, <1>2 DEF TypeInv, ClientTypes
<1>5. HeadInv' /\ QueueInv' /\ NumberInv'
  BY <1>1, <1>2 DEF ClientInv, HeadInv, QueueInv, NumberInv, Kinds
<1>6. PhaseInv' /\ ClosedQuiet'
  BY <1>1, <1>2 DEF ClientInv, PhaseInv, ClosedQuiet, Kinds
<1> QED
  BY <1>4, <1>5, <1>6 DEF ClientInv

LEMMA ClientBindEnds ==
    ASSUME TypeInv, ClientInv, UNCHANGED now, NEW ok \in BOOLEAN, bindEnds(ok),
           tx["bind"].st # "off"
    PROVE  ClientTypes' /\ ClientInv'
<1> DEFINE p == tx["bind"].peer
           b == cl.bindQueue
           q == cl.permissionQueue
<1>h. HeadInv
  BY DEF ClientInv
<1>1. /\ tx' \in [Kinds -> TxType] /\ tx'["bind"].st = "off"
      /\ \A j \in Kinds \ {"bind"} : tx'[j] = tx[j]
  BY <1>h, BindEnds, RemainingType, KindsAre
<1>2. /\ p \in Peers /\ b # <<>> /\ Head(b) = p
      /\ cl' \in ClientType /\ sends' = sends
      /\ stage' \in [Peers -> Stages] /\ \A r \in Peers : r # p => stage'[r] = stage[r]
      /\ \A f \in {"id", "phase", "nonce", "exp", "refreshAt", "channelNumber",
                   "permissionByAddr"} : cl'[f] = cl[f]
      /\ cl'.bindQueue = Tail(b)
      /\ \/ cl'.permissionQueue = q
         \/ /\ cl'.permissionQueue = Append(q, p)
            /\ \A i \in 1..Len(q) : IpOf[q[i]] # IpOf[p]
  BY <1>h, BindEnds
<1>3. /\ \A r \in Peers : r # p => cl'.channelByAddr[r] = cl.channelByAddr[r]
      /\ cl'.channelByAddr[p].number \in {0, cl.channelByAddr[p].number}
      /\ cl'.channelByAddr[p].refreshAt \in {cl.channelByAddr[p].refreshAt, now + channelRefreshTime}
  BY <1>h, BindEnds
<1>4. ClientTypes'
  BY <1>1, <1>2 DEF TypeInv, ClientTypes
<1>5. /\ b \in Seq(Peers) /\ q \in Seq(Peers) /\ cl.channelNumber \in Nat /\ sends \in Nat
      /\ now \in Nat /\ channelRefreshTime \in Nat
      /\ \A r \in Peers : cl.channelByAddr[r].number \in Nat /\ cl.channelByAddr[r].refreshAt \in Nat
  BY Times, ClientFields
<1>6. /\ Len(b) \in Nat \ {0} /\ b[1] = p /\ Len(Tail(b)) = Len(b) - 1
      /\ \A i \in 1..Len(Tail(b)) : Tail(b)[i] = b[i + 1] /\ b[i + 1] \in Peers
  BY <1>2, <1>5, HeadTailProperties
<1> HIDE DEF p, b, q
<1>7. HeadInv'
  <2>1. tx["permission"].st # "off" =>
           cl'.permissionQueue # <<>> /\ Head(cl'.permissionQueue) = tx["permission"].peer
    <3>1. q # <<>> => Append(q, p) # <<>> /\ Head(Append(q, p)) = Head(q)
      BY <1>2, <1>5
    <3> QED
      BY <1>h, <1>2, <3>1 DEF HeadInv, q
  <2> QED
    BY <1>1, <2>1 DEF HeadInv, Kinds
<1>8. QueueInv'
  <2>i. QueueInv
    BY DEF ClientInv
  <2>1. \A i \in 1..Len(Tail(b)) : stage'[Tail(b)[i]] = "channel"
    <3>1. /\ \A i \in 1..Len(b) : stage[b[i]] = "channel"
          /\ \A i, j \in 1..Len(b) : b[i] = b[j] => i = j
      BY <2>i DEF QueueInv, b
    <3> SUFFICES ASSUME NEW i \in 1..Len(Tail(b)) PROVE stage'[Tail(b)[i]] = "channel"
      OBVIOUS
    <3>2. i + 1 \in 1..Len(b) /\ i + 1 # 1 /\ 1 \in 1..Len(b)
      BY <1>6
    <3>3. b[i + 1] # p /\ b[i + 1] \in Peers /\ stage[b[i + 1]] = "channel"
      BY <1>6, <3>1, <3>2
    <3> QED
      BY <1>2, <1>6, <3>3
  <2>2. \A i, j \in 1..Len(Tail(b)) : Tail(b)[i] = Tail(b)[j] => i = j
    BY <1>6, <2>i DEF QueueInv, b
  <2>3. \A i, j \in 1..Len(cl'.permissionQueue) :
           IpOf[cl'.permissionQueue[i]] = IpOf[cl'.permissionQueue[j]] => i = j
    <3>1. \A i, j \in 1..Len(q) : IpOf[q[i]] = IpOf[q[j]] => i = j
      BY <2>i DEF QueueInv, q
    <3>2. CASE cl'.permissionQueue = q
      BY <3>1, <3>2
    <3>3. CASE cl'.permissionQueue = Append(q, p) /\ \A i \in 1..Len(q) : IpOf[q[i]] # IpOf[p]
      <4>1. /\ Len(q) \in Nat /\ Len(Append(q, p)) = Len(q) + 1 /\ Append(q, p)[Len(q) + 1] = p
            /\ \A i \in 1..Len(q) : Append(q, p)[i] = q[i]
        BY <1>2, <1>5
      <4> QED
        BY <3>1, <3>3, <4>1
    <3> QED
      BY <1>2, <3>2, <3>3
  <2>4. cl'.channelNumber + Len(Tail(b)) <= sends' + 1
    <3>1. cl.channelNumber + Len(b) <= sends + 2
      BY <1>5, <1>6, <2>i DEF QueueInv, b
    <3> QED
      BY <1>2, <1>5, <1>6, <3>1
  <2> QED
    BY <1>1, <1>2, <1>5, <2>1, <2>2, <2>3, <2>4 DEF QueueInv
<1>9. PhaseInv' /\ ClosedQuiet'
  <2>1. cl.phase \in {"open", "closed"}
    BY Times, ClientFields, KindsAre DEF ClientInv, PhaseInv, Phases
  <2> QED
    BY <1>1, <1>2, <2>1 DEF ClientInv, PhaseInv, ClosedQuiet, Kinds
<1>10. NumberInv'
  <2>i. NumberInv
    BY DEF ClientInv
  <2>1. \A r \in Peers : /\ cl'.channelByAddr[r].number < cl'.channelNumber
                         /\ cl'.channelByAddr[r].refreshAt <= now + channelRefreshTime
    <3>1. \A r \in Peers : /\ cl.channelByAddr[r].number < cl.channelNumber
                           /\ cl.channelByAddr[r].refreshAt <= now + channelRefreshTime
      BY <2>i DEF NumberInv
    <3>2. cl.channelNumber # 0 /\ cl'.channelNumber = cl.channelNumber
      BY <1>2, Times, ClientFields
    <3> SUFFICES ASSUME NEW r \in Peers
                 PROVE  /\ cl'.channelByAddr[r].number < cl.channelNumber
                        /\ cl'.channelByAddr[r].refreshAt <= now + channelRefreshTime
      BY <3>2
    <3>3. CASE r = p
      BY <1>3, <1>5, <3>1, <3>2, <3>3
    <3>4. CASE r # p
      BY <1>3, <3>1, <3>4
    <3> QED
      BY <3>3, <3>4
  <2>2. \A r \in Peers : cl'.channelByAddr[r].number \in {0, cl.channelByAddr[r].number}
    BY <1>3
  <2>3. \A r, s \in Peers : cl'.channelByAddr[r].number = cl'.channelByAddr[s].number
                               => r = s \/ cl'.channelByAddr[r].number = 0
    BY <2>2, <2>i DEF NumberInv
  <2> QED
    BY <1>1, <2>1, <2>3 DEF NumberInv
<1> QED
  BY <1>4, <1>7, <1>8, <1>9, <1>10 DEF ClientInv

LEMMA ClientPermissionEnds ==
    ASSUME TypeInv, ClientInv, UNCHANGED now, NEW ok \in BOOLEAN, permissionEnds(ok),
           tx["permission"].st # "off"
    PROVE  ClientTypes' /\ ClientInv'
<1> DEFINE q == cl.permissionQueue
<1>h. HeadInv
  BY DEF ClientInv
<1>1. /\ tx' \in [Kinds -> TxType] /\ tx'["permission"].st = "off"
      /\ \A j \in Kinds \ {"permission"} : tx'[j] = tx[j]
  BY <1>h, PermissionEnds, RemainingType, KindsAre
<1>2. /\ q # <<>> /\ cl' \in ClientType /\ sends' = sends
      /\ stage' \in [Peers -> Stages]
      /\ \A r \in Peers : stage[r] = "channel" => stage'[r] = "channel"
      /\ \A f \in {"id", "phase", "nonce", "exp", "refreshAt", "channelNumber", "channelByAddr",
                   "bindQueue"} : cl'[f] = cl[f]
      /\ cl'.permissionQueue = Tail(q)
  BY <1>h, PermissionEnds
<1>3. ClientTypes'
  BY <1>1, <1>2 DEF TypeInv, ClientTypes
<1>4. q \in Seq(Peers) /\ cl.bindQueue \in Seq(Peers)
  BY Times, ClientFields
<1>5. /\ Len(q) \in Nat \ {0} /\ Len(Tail(q)) = Len(q) - 1
      /\ \A i \in 1..Len(Tail(q)) : Tail(q)[i] = q[i + 1]
  BY <1>2, <1>4, HeadTailProperties
<1>6. HeadInv' /\ NumberInv'
  BY <1>1, <1>2 DEF ClientInv, HeadInv, NumberInv, Kinds
<1>7. QueueInv'
  <2>1. \A i \in 1..Len(cl.bindQueue) : stage'[cl.bindQueue[i]] = "channel"
    BY <1>2, <1>4 DEF ClientInv, QueueInv
  <2> HIDE DEF q
  <2>2. \A i, j \in 1..Len(Tail(q)) : IpOf[Tail(q)[i]] = IpOf[Tail(q)[j]] => i = j
    <3>1. \A i, j \in 1..Len(q) : IpOf[q[i]] = IpOf[q[j]] => i = j
      BY DEF ClientInv, QueueInv, q
    <3> QED
      BY <1>5, <3>1
  <2> QED
    <3>1. /\ cl'.bindQueue = cl.bindQueue /\ cl'.permissionQueue = Tail(q)
          /\ cl'.channelNumber = cl.channelNumber /\ sends' = sends /\ tx'["bind"] = tx["bind"]
      BY <1>1, <1>2, KindsAre DEF q
    <3> QED
      BY <2>1, <2>2, <3>1 DEF ClientInv, QueueInv
<1>8. PhaseInv' /\ ClosedQuiet'
  <2>1. cl.phase \in {"open", "closed"}
    BY Times, ClientFields, KindsAre DEF ClientInv, PhaseInv, Phases
  <2> QED
    BY <1>1, <1>2, <2>1 DEF ClientInv, PhaseInv, ClosedQuiet, Kinds
<1> QED
  BY <1>3, <1>6, <1>7, <1>8 DEF ClientInv

\* Only the Allocate request is ever answered with a challenge.
LEMMA ClientRetry ==
    ASSUME TypeInv, ClientInv, UNCHANGED now, NEW k \in Kinds, retry(k),
           tx[k].st # "off", cl.phase = "allocating"
    PROVE  ClientTypes' /\ ClientInv'
<1>1. k = "allocate"
  BY DEF ClientInv, PhaseInv
<1>2. /\ cl' \in ClientType /\ stage' = stage /\ sends' = sends
      /\ \A f \in {"id", "phase", "exp", "refreshAt", "channelNumber", "channelByAddr",
                   "permissionByAddr", "bindQueue", "permissionQueue"} : cl'[f] = cl[f]
      /\ tx' \in [Kinds -> TxType] /\ tx'["allocate"].st = "lookup" /\ tx'["allocate"].nonce = cl'.nonce
      /\ \A j \in Kinds \ {"allocate"} : tx'[j] = tx[j]
  BY <1>1, Retry
<1>3. ClientTypes'
  BY <1>2 DEF TypeInv, ClientTypes
<1>4. /\ HeadInv' /\ QueueInv' /\ NumberInv'
  <2>1. /\ cl'.bindQueue = cl.bindQueue /\ cl'.permissionQueue = cl.permissionQueue
        /\ cl'.channelNumber = cl.channelNumber /\ cl'.channelByAddr = cl.channelByAddr
        /\ tx'["bind"] = tx["bind"] /\ tx'["permission"] = tx["permission"]
        /\ stage' = stage /\ sends' = sends
    BY <1>2, KindsAre
  <2> QED
    BY <2>1 DEF ClientInv, HeadInv, QueueInv, NumberInv
<1>5. PhaseInv' /\ ClosedQuiet'
  BY <1>2 DEF ClientInv, PhaseInv, ClosedQuiet, Kinds
<1> QED
  BY <1>3, <1>4, <1>5 DEF ClientInv

LEMMA ClientSendData ==
    ASSUME TypeInv, ClientInv, NEW p \in Peers, sendData(p)
    PROVE  ClientTypes' /\ ClientInv'
<1> DEFINE b == cl.bindQueue
<1>1. /\ cl' \in ClientType /\ stage' \in [Peers -> Stages] /\ sends' \in 0..MaxSends
      /\ cl'.bindQueue = Append(b, p) /\ sends' = sends + 1
      /\ stage'[p] = "channel" /\ \A q \in Peers \ {p} : stage'[q] = stage[q]
      /\ \A f \in {"id", "phase", "nonce", "exp", "refreshAt", "channelNumber", "channelByAddr",
                   "permissionByAddr", "permissionQueue"} : cl'[f] = cl[f]
  BY SendData
<1>2. cl.phase = "open" /\ stage[p] = "none" /\ tx' = tx /\ now' = now
  BY DEF sendData
<1>3. ClientTypes'
  BY <1>1, <1>2 DEF TypeInv, ClientTypes
<1>4. /\ b \in Seq(Peers) /\ cl.channelNumber \in Nat /\ sends \in Nat
      /\ Len(b) \in Nat /\ \A i \in 1..Len(b) : b[i] \in Peers
  BY Times, ClientFields
<1>5. /\ Len(Append(b, p)) = Len(b) + 1 /\ Append(b, p)[Len(b) + 1] = p
      /\ \A i \in 1..Len(b) : Append(b, p)[i] = b[i]
      /\ Append(b, p) # <<>> /\ (b # <<>> => Head(Append(b, p)) = Head(b))
  BY <1>4, AppendProperties, HeadTailAppend
<1>6. /\ \A i \in 1..Len(b) : stage[b[i]] = "channel"
      /\ \A i, j \in 1..Len(b) : b[i] = b[j] => i = j
      /\ cl.channelNumber + Len(b) <= sends + 1 + (IF tx["bind"].st = "off" THEN 0 ELSE 1)
  BY DEF ClientInv, QueueInv
<1>7. /\ cl'.permissionQueue = cl.permissionQueue /\ cl'.channelNumber = cl.channelNumber
      /\ cl'.channelByAddr = cl.channelByAddr /\ cl'.phase = cl.phase /\ cl'.nonce = cl.nonce
  BY <1>1
<1>8. HeadInv'
  <2>1. /\ tx["bind"].st # "off" => b # <<>> /\ Head(b) = tx["bind"].peer
        /\ tx["permission"].st # "off" =>
             cl.permissionQueue # <<>> /\ Head(cl.permissionQueue) = tx["permission"].peer
    BY DEF ClientInv, HeadInv
  <2>2. cl'.bindQueue # <<>> /\ (b # <<>> => Head(cl'.bindQueue) = Head(b))
    BY <1>1, <1>5
  <2> HIDE DEF b
  <2> QED
    BY <1>2, <1>7, <2>1, <2>2 DEF HeadInv
<1> HIDE DEF b
<1>9. QueueInv'
  <2>1. \A i \in 1..Len(b) : b[i] # p
    BY <1>2, <1>6
  <2>2. \A i \in 1..Len(b) + 1 : stage'[Append(b, p)[i]] = "channel"
    <3> SUFFICES ASSUME NEW i \in 1..Len(b) + 1 PROVE stage'[Append(b, p)[i]] = "channel"
      OBVIOUS
    <3>1. CASE i = Len(b) + 1
      BY <1>1, <1>5, <3>1
    <3>2. CASE i # Len(b) + 1
      <4>1. i \in 1..Len(b)
        BY <1>4, <3>2
      <4> QED
        BY <1>1, <1>4, <1>5, <1>6, <2>1, <4>1
    <3> QED
      BY <3>1, <3>2
  <2>3. \A i, j \in 1..Len(b) + 1 : Append(b, p)[i] = Append(b, p)[j] => i = j
    BY <1>4, <1>5, <1>6, <2>1
  <2>4. cl.channelNumber + (Len(b) + 1) <= sends + 1 + 1 + (IF tx["bind"].st = "off" THEN 0 ELSE 1)
    BY <1>4, <1>6
  <2> QED
    BY <1>1, <1>2, <1>5, <1>7, <2>2, <2>3, <2>4 DEF ClientInv, QueueInv
<1>10. PhaseInv' /\ ClosedQuiet' /\ NumberInv'
  BY <1>2, <1>7 DEF ClientInv, PhaseInv, ClosedQuiet, NumberInv
<1> QED
  BY <1>3, <1>8, <1>9, <1>10 DEF ClientInv

LEMMA ClientEnsureChannel ==
    ASSUME TypeInv, ClientInv, ensureChannel
    PROVE  ClientTypes' /\ ClientInv'
<1> DEFINE p == Head(cl.bindQueue)
<1>1. /\ p \in Peers /\ cl.bindQueue # <<>> /\ tx["bind"].st = "off"
      /\ cl' \in ClientType /\ tx' \in [Kinds -> TxType]
      /\ tx'["bind"].st = "lookup" /\ tx'["bind"].nonce = cl.nonce /\ tx'["bind"].peer = p
      /\ \A k \in Kinds \ {"bind"} : tx'[k] = tx[k]
      /\ \A f \in {"id", "phase", "nonce", "exp", "refreshAt",
                   "permissionByAddr", "bindQueue", "permissionQueue"} : cl'[f] = cl[f]
      /\ \A q \in Peers \ {p} : cl'.channelByAddr[q] = cl.channelByAddr[q]
      /\ \/ /\ cl.channelByAddr[p].number # 0
            /\ cl'.channelByAddr = cl.channelByAddr /\ cl'.channelNumber = cl.channelNumber
         \/ /\ cl'.channelByAddr[p].number = cl.channelNumber /\ cl'.channelByAddr[p].refreshAt = 0
            /\ cl'.channelNumber = cl.channelNumber + 1
  BY EnsureChannel
<1>2. stage' = stage /\ sends' = sends /\ now' = now
  BY DEF ensureChannel
<1>3. ClientTypes'
  BY <1>1, <1>2 DEF TypeInv, ClientTypes
<1>4. /\ cl'.bindQueue = cl.bindQueue /\ cl'.permissionQueue = cl.permissionQueue
      /\ cl'.phase = cl.phase /\ cl'.nonce = cl.nonce /\ tx'["permission"] = tx["permission"]
      /\ tx'["allocate"] = tx["allocate"] /\ tx'["refresh"] = tx["refresh"]
  BY <1>1, KindsAre
<1>5. /\ cl.bindQueue \in Seq(Peers) /\ cl.channelNumber \in Nat /\ cl.channelNumber # 0 /\ sends \in Nat
      /\ now \in Nat /\ channelRefreshTime \in Nat
      /\ Len(cl.bindQueue) \in Nat
      /\ \A q \in Peers : cl.channelByAddr[q].number \in Nat
  BY Times, ClientFields
<1>6. cl.phase \notin {"new", "allocating"}
  BY <1>1 DEF ClientInv, PhaseInv
<1>7. HeadInv'
  BY <1>1, <1>4 DEF ClientInv, HeadInv
<1> HIDE DEF p
<1>8. QueueInv'
  <2>1. cl'.channelNumber <= cl.channelNumber + 1 /\ cl'.channelNumber \in Nat
    BY <1>1, <1>5
  <2>2. cl.channelNumber + Len(cl.bindQueue) <= sends + 1
    BY <1>1, <1>5 DEF ClientInv, QueueInv
  <2>3. cl'.channelNumber + Len(cl.bindQueue) <= sends + 1 + 1
    BY <1>5, <2>1, <2>2
  <2> QED
    BY <1>1, <1>2, <1>4, <2>3 DEF ClientInv, QueueInv
<1>9. PhaseInv' /\ ClosedQuiet'
  BY <1>1, <1>4, <1>6 DEF ClientInv, PhaseInv, ClosedQuiet, Kinds
<1>10. NumberInv'
  <2>i. /\ \A q \in Peers : /\ cl.channelByAddr[q].number < cl.channelNumber
                            /\ cl.channelByAddr[q].refreshAt <= now + channelRefreshTime
        /\ \A q, r \in Peers : cl.channelByAddr[q].number = cl.channelByAddr[r].number
                                 => q = r \/ cl.channelByAddr[q].number = 0
    BY DEF ClientInv, NumberInv
  <2>1. CASE /\ cl.channelByAddr[p].number # 0
             /\ cl'.channelByAddr = cl.channelByAddr /\ cl'.channelNumber = cl.channelNumber
    BY <1>1, <1>2, <2>1, <2>i DEF NumberInv
  <2>2. CASE /\ cl'.channelByAddr[p].number = cl.channelNumber /\ cl'.channelByAddr[p].refreshAt = 0
             /\ cl'.channelNumber = cl.channelNumber + 1
    <3>1. \A q \in Peers : /\ cl'.channelByAddr[q].number < cl'.channelNumber
                           /\ cl'.channelByAddr[q].refreshAt <= now + channelRefreshTime
      <4> SUFFICES ASSUME NEW q \in Peers
                   PROVE  /\ cl'.channelByAddr[q].number < cl.channelNumber + 1
                          /\ cl'.channelByAddr[q].refreshAt <= now + channelRefreshTime
        BY <2>2
      <4>1. CASE q = p
        BY <1>5, <2>2, <4>1
      <4>2. CASE q # p
        BY <1>1, <1>5, <2>i, <4>2
      <4> QED
        BY <4>1, <4>2
    <3>2. \A q \in Peers \ {p} : cl'.channelByAddr[q].number # cl.channelNumber
      BY <1>1, <1>5, <2>i
    <3>3. \A q, r \in Peers : cl'.channelByAddr[q].number = cl'.channelByAddr[r].number
                                 => q = r \/ cl'.channelByAddr[q].number = 0
      BY <1>1, <2>2, <2>i, <3>2
    <3> QED
      BY <1>1, <1>2, <1>5, <2>2, <3>1, <3>3 DEF NumberInv
  <2> QED
    BY <1>1, <2>1, <2>2
<1> QED
  BY <1>3, <1>7, <1>8, <1>9, <1>10 DEF ClientInv

LEMMA ClientCreatePermission ==
    ASSUME TypeInv, ClientInv, createPermission
    PROVE  ClientTypes' /\ ClientInv'
<1>1. /\ cl.permissionQueue # <<>> /\ tx["permission"].st = "off"
      /\ tx' \in [Kinds -> TxType] /\ tx'["permission"].st = "lookup"
      /\ tx'["permission"].nonce = cl.nonce
      /\ tx'["permission"].peer = Head(cl.permissionQueue)
      /\ \A k \in Kinds \ {"permission"} : tx'[k] = tx[k]
  BY CreatePermission
<1>2. UNCHANGED <<now, cl, stage, sends>>
  BY DEF createPermission
<1>3. ClientTypes'
  BY <1>1, <1>2 DEF TypeInv, ClientTypes
<1>4. tx'["bind"] = tx["bind"]
  BY <1>1, KindsAre
<1>5. HeadInv' /\ QueueInv' /\ NumberInv'
  BY <1>1, <1>2, <1>4 DEF ClientInv, HeadInv, QueueInv, NumberInv
<1>6. cl.phase \notin {"new", "allocating"}
  BY <1>1 DEF ClientInv, PhaseInv
<1>7. PhaseInv' /\ ClosedQuiet'
  BY <1>1, <1>2, <1>6 DEF ClientInv, PhaseInv, ClosedQuiet, Kinds
<1> QED
  BY <1>3, <1>5, <1>7 DEF ClientInv

LEMMA ClientClose ==
    ASSUME TypeInv, ClientInv, close
    PROVE  ClientTypes' /\ ClientInv'
<1>1. /\ cl'.phase = "closed"
      /\ cl' \in ClientType /\ tx' \in [Kinds -> TxType]
      /\ \A f \in {"id", "nonce", "exp", "refreshAt", "channelNumber", "channelByAddr",
                   "permissionByAddr", "bindQueue", "permissionQueue"} : cl'[f] = cl[f]
      /\ \A k \in Kinds : /\ tx'[k].nonce = tx[k].nonce /\ tx'[k].peer = tx[k].peer
                          /\ tx'[k].st = IF tx[k].st \in {"sent", "unheard"}
                                         THEN "cancelled" ELSE tx[k].st
  BY CloseFields
<1>2. stage' = stage /\ sends' = sends /\ now' = now
  BY DEF close
<1>3. ClientTypes'
  BY <1>1, <1>2 DEF TypeInv, ClientTypes
<1>4. /\ cl'.bindQueue = cl.bindQueue /\ cl'.permissionQueue = cl.permissionQueue
      /\ cl'.channelNumber = cl.channelNumber /\ cl'.channelByAddr = cl.channelByAddr
      /\ cl'.nonce = cl.nonce
      /\ \A k \in Kinds : /\ tx'[k].nonce = tx[k].nonce /\ tx'[k].peer = tx[k].peer
                          /\ tx'[k].st = "off" <=> tx[k].st = "off"
                          /\ tx'[k].st \notin {"sent", "unheard"}
  BY <1>1
<1>5. HeadInv' /\ QueueInv' /\ NumberInv'
  BY <1>2, <1>4, KindsAre DEF ClientInv, HeadInv, QueueInv, NumberInv
<1>6. PhaseInv' /\ ClosedQuiet'
  BY <1>1, <1>4 DEF ClientInv, PhaseInv, ClosedQuiet
<1> QED
  BY <1>3, <1>5, <1>6 DEF ClientInv

\* A request that starts without a peer: Allocate or Refresh.
LEMMA ClientRequest ==
    ASSUME TypeInv, ClientInv, connectionMade \/ refresh
    PROVE  ClientTypes' /\ ClientInv'
<1>1. PICK k \in {"allocate", "refresh"} :
        /\ tx' = request(k, tx, cl)
        /\ k = "allocate" => cl.phase = "new" /\ cl' = [cl EXCEPT !.phase = "allocating"]
        /\ k = "refresh" => cl.phase = "open" /\ cl' = cl
  BY DEF connectionMade, refresh, RefreshDue
<1>2. cl \in ClientType /\ UNCHANGED <<now, stage, sends>>
  BY DEF TypeInv, connectionMade, refresh
<1>3. /\ cl' \in ClientType
      /\ \A f \in {"id", "nonce", "exp", "refreshAt", "channelNumber", "channelByAddr",
                   "permissionByAddr", "bindQueue", "permissionQueue"} : cl'[f] = cl[f]
      /\ k = "allocate" => cl'.phase = "allocating"
  BY <1>1, <1>2 DEF ClientType, Phases
<1>4. /\ tx' \in [Kinds -> TxType] /\ tx'[k].st = "lookup" /\ tx'[k].nonce = cl.nonce
      /\ \A j \in Kinds \ {k} : tx'[j] = tx[j]
  BY <1>1, <1>2, KindsAre, RequestType DEF TypeInv
<1>5. ClientTypes'
  BY <1>2, <1>3, <1>4 DEF TypeInv, ClientTypes
<1>6. /\ cl'.bindQueue = cl.bindQueue /\ cl'.permissionQueue = cl.permissionQueue
      /\ cl'.channelNumber = cl.channelNumber /\ cl'.channelByAddr = cl.channelByAddr
      /\ cl'.nonce = cl.nonce
      /\ tx'["bind"] = tx["bind"] /\ tx'["permission"] = tx["permission"]
  BY <1>3, <1>4, KindsAre
<1>7. HeadInv' /\ QueueInv' /\ NumberInv'
  BY <1>2, <1>6 DEF ClientInv, HeadInv, QueueInv, NumberInv
<1>8. PhaseInv' /\ ClosedQuiet'
  <2>1. CASE k = "allocate"
    BY <1>1, <1>3, <1>4, <1>6, <2>1 DEF ClientInv, PhaseInv, ClosedQuiet, Kinds
  <2>2. CASE k = "refresh"
    BY <1>1, <1>4, <2>2 DEF ClientInv, PhaseInv, ClosedQuiet, Kinds
  <2> QED
    BY <2>1, <2>2
<1> QED
  BY <1>5, <1>7, <1>8 DEF ClientInv

LEMMA ClientCreateTurnClient ==
    ASSUME TypeInv, ClientInv, createTurnClient
    PROVE  ClientTypes' /\ ClientInv'
<1>1. /\ cl' \in ClientType /\ cl'.phase = "new"
      /\ cl'.bindQueue = <<>> /\ cl'.permissionQueue = <<>> /\ cl'.channelNumber = 1
      /\ \A p \in Peers : cl'.channelByAddr[p].number = 0 /\ cl'.channelByAddr[p].refreshAt = 0
  BY Fresh DEF createTurnClient
<1>2. UNCHANGED <<now, tx, stage, sends>> /\ \A k \in Kinds : tx[k].st = "off"
  BY DEF createTurnClient, Settled
<1>3. ClientTypes'
  BY <1>1, <1>2 DEF TypeInv, ClientTypes
<1>4. HeadInv' /\ PhaseInv' /\ ClosedQuiet'
  BY <1>1, <1>2, KindsAre DEF HeadInv, PhaseInv, ClosedQuiet
<1>5. QueueInv' /\ NumberInv'
  BY <1>1, <1>2, Times, KindsAre DEF QueueInv, NumberInv
<1> QED
  BY <1>3, <1>4, <1>5 DEF ClientInv

-----------------------------------------------------------------------------
(* The parts that relate the client and the server: what keeps them.        *)

ServerTypes ==
    /\ scenario \in Scenarios /\ now \in 0..MaxTime
    /\ alloc \in [Clients -> AllocationType] /\ sockets \subseteq Clients

LEMMA AllocationFields ==
    ASSUME TypeInv, NEW i \in Clients
    PROVE  /\ alloc[i] \in AllocationType /\ alloc[i].exp \in Nat
           /\ alloc[i].st \in {"none", "pending", "bound"} /\ alloc[i].channels \subseteq Channel
<1>1. alloc[i] \in AllocationType
  BY DEF TypeInv
<1> QED
  BY <1>1 DEF AllocationType

LEMMA AllocationFrame ==
    ASSUME TypeInv, AllocationInv, scenario' = scenario,
           cl'.id = cl.id, cl'.nonce = cl.nonce, cl'.phase = "open" => cl.phase = "open",
           \A i \in Clients : alloc'[i].st # "none" =>
              \/ alloc[i].st # "none"
              \/ i = cl.id /\ scenario.password /\ cl.nonce # 0,
           \A i \in Clients : i > cl.id => alloc'[i] = alloc[i]
                \/ (alloc'[i].st = "none" /\ alloc'[i].exp = 0 /\ alloc'[i].channels = {})
    PROVE  AllocationInv'
BY Times DEF AllocationInv, Live

LEMMA KeptFrame ==
    ASSUME TypeInv, KeptInv, scenario' = scenario, now' = now,
           cl'.id = cl.id, cl'.nonce = cl.nonce, cl'.phase = "open" => cl.phase = "open",
           cl'.exp = cl.exp, cl'.refreshAt = cl.refreshAt,
           \A k \in Kinds : tx'[k].st = "unheard" => tx[k].st = "unheard",
           alloc'[cl.id].exp \in Nat, alloc'[cl.id].exp <= now + Granted,
           cl.phase = "open" /\ alloc[cl.id].st = "bound" =>
              alloc'[cl.id].st = "bound" /\ alloc'[cl.id].exp >= alloc[cl.id].exp
    PROVE  KeptInv'
<1>1. alloc[cl.id].exp \in Nat /\ cl.refreshAt \in Nat /\ Granted' = Granted
  BY Times, ClientFields, AllocationFields DEF Granted, clampLifetime
<1>2. cl.phase = "open" /\ ~scenario.lossy /\ cl.nonce > now =>
         alloc'[cl.id].st = "bound" /\ alloc'[cl.id].exp > cl.refreshAt
  <2> SUFFICES ASSUME cl.phase = "open", ~scenario.lossy, cl.nonce > now
               PROVE  alloc'[cl.id].st = "bound" /\ alloc'[cl.id].exp > cl.refreshAt
    OBVIOUS
  <2>1. alloc[cl.id].st = "bound" /\ alloc[cl.id].exp > cl.refreshAt
    BY DEF KeptInv, NonceHeld
  <2> QED
    BY <1>1, <2>1
<1> QED
  BY <1>1, <1>2 DEF KeptInv, NonceHeld

LEMMA ChannelFrame ==
    ASSUME TypeInv, ChannelInv, now' = now, cl' \in ClientType,
           cl'.id = cl.id, cl'.phase = "open" => cl.phase = "open",
           cl'.channelNumber = cl.channelNumber,
           \A q \in Peers : /\ cl'.channelByAddr[q].number \in {0, cl.channelByAddr[q].number}
                            /\ cl'.channelByAddr[q].refreshAt = cl.channelByAddr[q].refreshAt,
           alloc'[cl.id].channels \subseteq alloc[cl.id].channels,
           cl.phase = "open" /\ alloc'[cl.id].st # "none" =>
              alloc[cl.id].st # "none" /\ alloc'[cl.id].channels = alloc[cl.id].channels
    PROVE  ChannelInv'
BY DEF ChannelInv, Live

\* A binding of p is added or renewed, and the client may have heard of it.
LEMMA ChannelBound ==
    ASSUME TypeInv, NumberInv, ChannelInv, now' = now, cl' \in ClientType, NEW p \in Peers,
           cl'.id = cl.id, cl'.phase = cl.phase, cl'.channelNumber = cl.channelNumber,
           cl.channelByAddr[p].number # 0,
           \A q \in Peers : cl'.channelByAddr[q].number = cl.channelByAddr[q].number,
           \A q \in Peers : q # p => cl'.channelByAddr[q].refreshAt = cl.channelByAddr[q].refreshAt,
           cl'.channelByAddr[p].refreshAt <= now + channelRefreshTime,
           alloc'[cl.id].st = alloc[cl.id].st,
           alloc'[cl.id].channels = Rebound(alloc[cl.id], p, cl.channelByAddr[p].number)
    PROVE  ChannelInv'
<1> DEFINE n == cl.channelByAddr[p].number
           new == [number |-> n, peer |-> p, exp |-> now + channelLifetime]
           A == alloc[cl.id].channels
           B == alloc'[cl.id].channels
<1>1. /\ now \in Nat /\ channelRefreshTime \in Nat /\ channelLifetime \in Nat
      /\ channelRefreshTime <= channelLifetime
      /\ \A q \in Peers : /\ cl.channelByAddr[q].number \in Nat /\ cl'.channelByAddr[q].refreshAt \in Nat
  BY Times, ClientFields
<1>2. B = {c \in A : c.peer # p} \union {new}
  BY DEF Rebound
<1>3. new.number = n /\ new.peer = p /\ new.exp = now + channelLifetime
  OBVIOUS
<1> HIDE DEF new
<1>4. \A c \in B : /\ c.number # 0 /\ c.number < cl.channelNumber
                   /\ \A q \in Peers : cl.channelByAddr[q].number = c.number => q = c.peer
  <2> SUFFICES ASSUME NEW c \in B
               PROVE  /\ c.number # 0 /\ c.number < cl.channelNumber
                      /\ \A q \in Peers : cl.channelByAddr[q].number = c.number => q = c.peer
    OBVIOUS
  <2>1. CASE c \in A
    BY <2>1 DEF ChannelInv
  <2>2. CASE c = new
    BY <1>3, <2>2 DEF NumberInv
  <2> QED
    BY <1>2, <2>1, <2>2
<1>5. ASSUME cl.phase = "open", alloc[cl.id].st # "none", NEW q \in Peers,
             cl'.channelByAddr[q].number # 0, cl'.channelByAddr[q].refreshAt > now
      PROVE  \E c \in B : /\ c.number = cl'.channelByAddr[q].number /\ c.peer = q
                          /\ c.exp >= cl'.channelByAddr[q].refreshAt
  <2>1. CASE q = p
    <3>1. now + channelLifetime >= cl'.channelByAddr[p].refreshAt
      BY <1>1
    <3> QED
      BY <1>2, <1>3, <2>1, <3>1
  <2>2. CASE q # p
    <3>1. PICK c \in A : /\ c.number = cl.channelByAddr[q].number /\ c.peer = q
                         /\ c.exp >= cl.channelByAddr[q].refreshAt
      BY <1>5, <2>2 DEF ChannelInv, Live
    <3> QED
      BY <1>2, <2>2, <3>1
  <2> QED
    BY <2>1, <2>2
<1> QED
  BY <1>4, <1>5 DEF ChannelInv, Live

-----------------------------------------------------------------------------
(* The steps.                                                               *)

\* Sockets and allocations: a new one stays within the quota.
LEMMA OwnedFrame ==
    ASSUME TypeInv, RelayOwned, sockets' = {i \in Clients : alloc'[i].st # "none"},
           sockets' \subseteq sockets
    PROVE  RelayOwned' /\ sockets' \subseteq Clients
<1>1. IsFiniteSet(sockets) /\ sockets' \in SUBSET sockets
  BY ConstantsAssumption, FS_Subset DEF TypeInv
<1>2. Cardinality(sockets') <= Cardinality(sockets) /\ Cardinality(sockets) \in Nat
      /\ Cardinality(sockets') \in Nat
  BY <1>1, FS_Subset, FS_CardinalityType
<1> QED
  BY <1>2, ConstantsAssumption DEF RelayOwned, Live

LEMMA OwnedAdd ==
    ASSUME TypeInv, RelayOwned, NEW i \in Clients,
           ~(Cardinality({j \in Clients : Live(j)}) >= maxAllocations),
           sockets' = sockets \union {i}, sockets' = {j \in Clients : alloc'[j].st # "none"}
    PROVE  RelayOwned' /\ sockets' \subseteq Clients
<1>1. IsFiniteSet(sockets)
  BY ConstantsAssumption, FS_Subset DEF TypeInv
<1>2. Cardinality(sockets) \in Nat
  BY <1>1, FS_CardinalityType
<1>3. Cardinality(sockets \union {i}) \in {Cardinality(sockets), Cardinality(sockets) + 1}
  BY <1>1, FS_AddElement
<1>4. Cardinality(sockets) < maxAllocations /\ maxAllocations \in Nat
  BY <1>2, ConstantsAssumption DEF RelayOwned
<1>5. Cardinality(sockets') <= maxAllocations
  BY <1>2, <1>3, <1>4
<1> QED
  BY <1>5 DEF RelayOwned, Live

\* The server's half of a delivery.
Served(k) ==
    LET r == handleClientPacket(k)
    IN  /\ alloc' = [alloc EXCEPT ![cl.id] = r.alloc]
        /\ sockets' = IF r.alloc.st = "pending" THEN sockets \union {cl.id} ELSE sockets
        /\ UNCHANGED <<scenario, now>>

LEMMA Serve ==
    ASSUME RelayInv, NEW k \in Kinds, tx[k].st \in {"sent", "unheard"}, Served(k)
    PROVE  LET a == alloc[cl.id]
               b == alloc'[cl.id]
               code == handleClientPacket(k).code
               auth == cl.nonce > now /\ scenario.password
           IN
           /\ ServerTypes' /\ RelayOwned' /\ b \in AllocationType
           /\ \A i \in Clients \ {cl.id} : alloc'[i] = alloc[i]
           /\ cl.phase \in {"allocating", "open"} /\ (cl.phase = "allocating" <=> k = "allocate")
           /\ b.st # "none" => a.st # "none" \/ (k = "allocate" /\ scenario.password /\ cl.nonce # 0)
           /\ a.st = "bound" => b.st = "bound"
           /\ k # "allocate" => b.st = a.st
           /\ b.exp = a.exp \/ (k = "refresh" /\ b.exp = now + Granted)
           /\ \/ b.channels = a.channels
              \/ /\ k = "bind" /\ code = Success /\ b.st = a.st
                 /\ b.channels = Rebound(a, tx[k].peer, cl.channelByAddr[tx[k].peer].number)
           /\ tx[k].nonce = cl.nonce
           /\ code = Success /\ k = "refresh" => b.exp = now + Granted
           /\ code = Success /\ k = "bind" =>
                 b.channels = Rebound(a, tx[k].peer, cl.channelByAddr[tx[k].peer].number)
           /\ k = "allocate" => code # Success
           /\ code \in {0, Success, 400, 401, 437, 438, 486}
           /\ auth <=> code \notin {401, 438}
           /\ k # "allocate" => code # 0
           /\ auth /\ k = "refresh" /\ a.st # "none" => code = Success
<1> DEFINE a == alloc[cl.id]
           r == handleClientPacket(k)
           auth == cl.nonce > now /\ scenario.password
<1>i. TypeInv /\ HeadInv /\ PhaseInv /\ ClosedQuiet /\ RelayOwned /\ AllocationInv /\ KeptInv
  BY DEF RelayInv
<1>1. /\ cl.id \in Clients /\ now \in Nat /\ cl.nonce \in Nat /\ a \in AllocationType
      /\ a.st \in {"none", "pending", "bound"} /\ cl.phase \in Phases
  BY <1>i, Times, ClientFields, AllocationFields
<1>2. cl.phase \in {"allocating", "open"} /\ (cl.phase = "allocating" <=> k = "allocate")
  BY <1>1, <1>i DEF PhaseInv, ClosedQuiet, Phases
<1>3. tx[k].nonce = cl.nonce
  BY <1>i DEF PhaseInv
<1>4. k = "refresh" => clampLifetime(cl.exp) = Granted
  BY <1>2, <1>i, Clamp DEF KeptInv
<1>5. /\ r.alloc \in AllocationType
      /\ ~auth => r.alloc = a /\ r.code \in {401, 438}
      /\ auth => r.code \in {0, Success, 400, 437, 486}
      /\ auth /\ k = "refresh" /\ a.st # "none" => r.code = Success
      /\ \/ r.alloc = a /\ r.code \notin {0, Success}
         \/ /\ k = "allocate" /\ auth /\ r.code = 0 /\ a.st = "none"
            /\ ~(Cardinality({i \in Clients : Live(i)}) >= maxAllocations)
            /\ r.alloc.st = "pending" /\ r.alloc.exp = a.exp /\ r.alloc.channels = a.channels
         \/ /\ k = "refresh" /\ r.code = Success /\ r.alloc.st = a.st
            /\ r.alloc.exp = now + clampLifetime(cl.exp) /\ r.alloc.channels = a.channels
         \/ /\ k = "permission" /\ r.code = Success /\ r.alloc.st = a.st
            /\ r.alloc.exp = a.exp /\ r.alloc.channels = a.channels
         \/ /\ k = "bind" /\ r.code = Success /\ r.alloc.st = a.st /\ r.alloc.exp = a.exp
            /\ r.alloc.channels = Rebound(a, tx[k].peer, cl.channelByAddr[tx[k].peer].number)
  BY <1>3, <1>i, ServerAnswer
<1>6. /\ alloc' = [alloc EXCEPT ![cl.id] = r.alloc]
      /\ sockets' = IF r.alloc.st = "pending" THEN sockets \union {cl.id} ELSE sockets
      /\ UNCHANGED <<scenario, now>>
  BY DEF Served
<1> HIDE DEF r
<1>7. /\ alloc' \in [Clients -> AllocationType] /\ alloc'[cl.id] = r.alloc
      /\ \A i \in Clients \ {cl.id} : alloc'[i] = alloc[i]
  BY <1>1, <1>5, <1>6, <1>i DEF TypeInv
<1>8. RelayOwned' /\ sockets' \subseteq Clients
  <2>1. sockets = {i \in Clients : alloc[i].st # "none"}
    BY <1>i DEF RelayOwned, Live
  <2>2. CASE a.st = "none" /\ r.alloc.st = "pending"
    <3>1. ~(Cardinality({i \in Clients : Live(i)}) >= maxAllocations)
      BY <1>5, <2>2
    <3>2. sockets' = sockets \union {cl.id} /\ sockets' = {j \in Clients : alloc'[j].st # "none"}
      BY <1>1, <1>6, <1>7, <2>1, <2>2
    <3> QED
      BY <1>1, <1>i, <3>1, <3>2, OwnedAdd
  <2>3. CASE ~(a.st = "none" /\ r.alloc.st = "pending")
    <3>1. r.alloc.st = a.st
      BY <1>5, <2>3
    <3>2. sockets' = sockets
      BY <1>1, <1>6, <2>1, <3>1
    <3>3. sockets' = {j \in Clients : alloc'[j].st # "none"}
      BY <1>7, <2>1, <3>1, <3>2
    <3> QED
      BY <1>i, <3>2, <3>3, OwnedFrame
  <2> QED
    BY <2>2, <2>3
<1>9. ServerTypes'
  BY <1>6, <1>7, <1>8, <1>i DEF ServerTypes, TypeInv
<1>10. auth => cl.nonce # 0
  BY <1>1
<1>11. /\ r.alloc.st # "none" => a.st # "none" \/ (k = "allocate" /\ scenario.password /\ cl.nonce # 0)
       /\ a.st = "bound" => r.alloc.st = "bound"
       /\ k # "allocate" => r.alloc.st = a.st
       /\ r.alloc.exp = a.exp \/ (k = "refresh" /\ r.alloc.exp = now + Granted)
       /\ \/ r.alloc.channels = a.channels
          \/ /\ k = "bind" /\ r.code = Success /\ r.alloc.st = a.st
             /\ r.alloc.channels = Rebound(a, tx[k].peer, cl.channelByAddr[tx[k].peer].number)
  BY <1>4, <1>5, <1>10
<1>12. /\ r.code = Success /\ k = "refresh" => r.alloc.exp = now + Granted
       /\ r.code = Success /\ k = "bind" =>
            r.alloc.channels = Rebound(a, tx[k].peer, cl.channelByAddr[tx[k].peer].number)
       /\ k = "allocate" => r.code # Success
       /\ k # "allocate" => r.code # 0
  BY <1>4, <1>5 DEF Success
<1>13. /\ r.code \in {0, Success, 400, 401, 437, 438, 486}
       /\ auth <=> r.code \notin {401, 438}
  BY <1>5 DEF Success
<1> QED
  BY <1>2, <1>3, <1>5, <1>7, <1>8, <1>9, <1>11, <1>12, <1>13 DEF r

LEMMA Assembled ==
    ASSUME ClientTypes', ServerTypes', ClientInv', RelayOwned', AllocationInv', KeptInv', ChannelInv'
    PROVE  RelayInv'
BY DEF RelayInv, TypeInv, ClientTypes, ServerTypes, ClientInv

LEMMA Parts ==
    ASSUME RelayInv
    PROVE  TypeInv /\ ClientInv /\ RelayOwned /\ AllocationInv /\ KeptInv /\ ChannelInv
BY DEF RelayInv, ClientInv

\* The server handles the request and the client hears nothing, or hears the
\* answer: success, failure, a challenge, or one it has to drop.
LEMMA DeliverStep ==
    ASSUME RelayInv, NEW k \in Kinds, deliver(k) \/ deliverUnanswered(k)
    PROVE  RelayInv'
<1> DEFINE a == alloc[cl.id]
           b == alloc'[cl.id]
           code == handleClientPacket(k).code
           auth == cl.nonce > now /\ scenario.password
<1>i. TypeInv /\ ClientInv /\ RelayOwned /\ AllocationInv /\ KeptInv /\ ChannelInv
      /\ HeadInv /\ PhaseInv /\ NumberInv /\ ClosedQuiet
  BY Parts DEF ClientInv
<1>1. /\ tx[k].st \in {"sent", "unheard"} /\ tx[k].st # "off" /\ Served(k)
      /\ \/ UNCHANGED <<cl, tx, stage, sends>>
         \/ code = Success /\ Ends(k, TRUE)
         \/ code \notin {Success, 401, 0} /\ Heard(k, code) /\ Ends(k, FALSE)
         \/ code = 401 /\ Heard(k, code) /\ retry(k)
         \/ ~Heard(k, code) /\ tx' = [tx EXCEPT ![k].st = "unheard"] /\ UNCHANGED <<cl, stage, sends>>
  BY DEF deliver, deliverUnanswered, responseReceived, Served
<1>2. /\ ServerTypes' /\ RelayOwned' /\ b \in AllocationType
      /\ \A i \in Clients \ {cl.id} : alloc'[i] = alloc[i]
      /\ cl.phase \in {"allocating", "open"} /\ (cl.phase = "allocating" <=> k = "allocate")
      /\ b.st # "none" => a.st # "none" \/ (k = "allocate" /\ scenario.password /\ cl.nonce # 0)
      /\ a.st = "bound" => b.st = "bound"
      /\ b.exp = a.exp \/ (k = "refresh" /\ b.exp = now + Granted)
      /\ \/ b.channels = a.channels
         \/ /\ k = "bind" /\ code = Success /\ b.st = a.st
            /\ b.channels = Rebound(a, tx[k].peer, cl.channelByAddr[tx[k].peer].number)
      /\ tx[k].nonce = cl.nonce
  BY <1>1, Serve
<1>3. /\ code = Success /\ k = "refresh" => b.exp = now + Granted
      /\ code = Success /\ k = "bind" =>
            b.channels = Rebound(a, tx[k].peer, cl.channelByAddr[tx[k].peer].number) /\ b.st = a.st
      /\ k = "allocate" => code # Success
      /\ auth <=> code \notin {401, 438}
      /\ auth /\ k = "refresh" /\ a.st # "none" => code = Success
  <2>1. /\ code = Success /\ k = "refresh" => b.exp = now + Granted
        /\ code = Success /\ k = "bind" =>
              b.channels = Rebound(a, tx[k].peer, cl.channelByAddr[tx[k].peer].number)
        /\ k = "allocate" => code # Success
        /\ auth <=> code \notin {401, 438}
        /\ auth /\ k = "refresh" /\ a.st # "none" => code = Success
    BY <1>1, Serve
  <2>2. k = "bind" => b.st = a.st
    BY <1>1, Serve
  <2> QED
    BY <2>1, <2>2
<1>4. now' = now /\ scenario' = scenario
  BY <1>1 DEF Served
<1> HIDE DEF code
<1>5. /\ cl \in ClientType /\ cl.id \in Clients /\ now \in Nat /\ now' \in Nat /\ Granted \in Nat
      /\ Clients \subseteq Nat /\ cl.nonce \in Nat
      /\ channelRefreshTime \in Nat /\ a.exp \in Nat /\ b.exp \in Nat
  BY <1>2, <1>4, <1>i, Times, ClientFields, AllocationFields, Clamp DEF AllocationType
<1>6. b.exp >= a.exp /\ b.exp <= now + Granted
  BY <1>2, <1>5, <1>i DEF KeptInv
<1>7. /\ \A i \in Clients : alloc'[i].st # "none" =>
            alloc[i].st # "none" \/ (i = cl.id /\ scenario.password /\ cl.nonce # 0)
      /\ \A i \in Clients : i > cl.id => alloc'[i] = alloc[i]
  <2>1. \A i \in Clients : i > cl.id => i # cl.id
    BY <1>5
  <2>2. b.st # "none" => a.st # "none" \/ (scenario.password /\ cl.nonce # 0)
    BY <1>2
  <2> QED
    BY <1>2, <2>1, <2>2, Zenon
<1>8. cl.phase = "open" => (b.st # "none" => a.st # "none")
  BY <1>2
<1>9. k = "bind" => /\ tx[k].peer \in Peers /\ cl.channelByAddr[tx[k].peer].number # 0
                    /\ cl.channelByAddr[tx[k].peer].refreshAt <= now + channelRefreshTime
  <2>1. k = "bind" => cl.bindQueue \in Seq(Peers) /\ cl.bindQueue # <<>> /\ tx[k].peer = Head(cl.bindQueue)
    BY <1>1, <1>5, <1>i, ClientFields DEF HeadInv
  <2> QED
    BY <1>1, <1>i, <2>1, HeadTailProperties DEF NumberInv
<1>10. CASE UNCHANGED <<cl, tx, stage, sends>>
  <2>1. ClientTypes' /\ ClientInv'
    BY <1>4, <1>5, <1>10, <1>i, ClientFrame
  <2>2. AllocationInv'
    BY <1>4, <1>7, <1>10, <1>i, AllocationFrame
  <2>3. KeptInv'
    BY <1>2, <1>4, <1>5, <1>6, <1>10, <1>i, KeptFrame
  <2>4. ChannelInv'
    <3>1. CASE b.channels = a.channels
      BY <1>4, <1>5, <1>8, <1>10, <1>i, <3>1, ChannelFrame
    <3>2. CASE b.channels # a.channels
      <4>1. /\ k = "bind" /\ b.st = a.st
            /\ b.channels = Rebound(a, tx[k].peer, cl.channelByAddr[tx[k].peer].number)
        BY <1>2, <3>2
      <4> QED
        BY <1>4, <1>5, <1>9, <1>10, <1>i, <4>1, ChannelBound
    <3> QED
      BY <3>1, <3>2
  <2> QED
    BY <1>2, <2>1, <2>2, <2>3, <2>4, Assembled
<1>11. CASE ~Heard(k, code) /\ tx' = [tx EXCEPT ![k].st = "unheard"] /\ UNCHANGED <<cl, stage, sends>>
  <2>1. TxMoves(k, "unheard")
    BY <1>11, <1>i, SetTxState DEF TxStates
  <2>2. ClientTypes' /\ ClientInv'
    BY <1>1, <1>2, <1>4, <1>11, <1>i, <2>1, ClientTxMoves
  <2>3. AllocationInv'
    BY <1>4, <1>7, <1>11, <1>i, AllocationFrame
  <2>4. ~auth
    BY <1>3, <1>11 DEF Heard
  <2>5. KeptInv'
    <3>1. ~(cl.phase = "open" /\ cl.nonce > now)
      BY <1>i, <2>4 DEF AllocationInv
    <3> QED
      BY <1>4, <1>6, <1>11, <1>i, <3>1 DEF KeptInv, NonceHeld, Granted, clampLifetime
  <2>6. code # Success
    BY <1>3, <2>4 DEF Success
  <2>7. ChannelInv'
    BY <1>2, <1>4, <1>5, <1>8, <1>11, <1>i, <2>6, ChannelFrame
  <2> QED
    BY <1>2, <2>2, <2>3, <2>5, <2>7, Assembled
<1>12. CASE code = 401 /\ Heard(k, code) /\ retry(k)
  <2>1. cl.nonce = 0
    BY <1>2, <1>12 DEF Heard
  <2>2. cl.phase = "allocating" /\ a.st = "none" /\ b.st = "none"
    BY <1>2, <1>i, <2>1 DEF AllocationInv, Live
  <2>3. ClientTypes' /\ ClientInv'
    BY <1>1, <1>4, <1>12, <1>i, <2>2, ClientRetry
  <2>4. /\ cl' \in ClientType
        /\ cl'.id = cl.id /\ cl'.phase = cl.phase /\ cl'.channelNumber = cl.channelNumber
        /\ cl'.channelByAddr = cl.channelByAddr
    BY <1>12, <1>i, Retry
  <2>5. AllocationInv'
    BY <1>4, <1>7, <1>i, <2>2, <2>4 DEF AllocationInv, Live
  <2>6. KeptInv'
    BY <1>4, <1>6, <2>2, <2>4 DEF KeptInv, Granted, clampLifetime
  <2>7. ChannelInv'
    <3>1. code # Success
      BY <1>12 DEF Success
    <3> QED
      BY <1>2, <1>4, <1>i, <2>2, <2>4, <3>1, ChannelFrame
  <2> QED
    BY <1>2, <2>3, <2>5, <2>6, <2>7, Assembled
<1>13. ASSUME NEW ok \in BOOLEAN, Ends(k, ok), ok => code = Success,
              ~ok => code \notin {Success, 401, 0} /\ Heard(k, code)
       PROVE  RelayInv'
  <2>1. CASE k = "allocate"
    <3>1. ok = FALSE /\ allocateEnds(ok)
      BY <1>3, <1>13, <2>1 DEF Ends
    <3>2. ClientTypes' /\ ClientInv'
      BY <1>1, <1>4, <1>i, <2>1, <3>1, ClientAllocateEnds
    <3>3. /\ cl' \in ClientType /\ cl'.phase = "closed" /\ cl'.id = cl.id /\ cl'.nonce = cl.nonce
          /\ cl'.channelNumber = cl.channelNumber /\ cl'.channelByAddr = cl.channelByAddr
      BY <1>i, <3>1, AllocateEnds
    <3>4. AllocationInv'
      BY <1>4, <1>7, <1>i, <3>3, AllocationFrame
    <3>5. KeptInv'
      BY <1>4, <1>6, <3>3 DEF KeptInv, Granted, clampLifetime
    <3>6. ChannelInv'
      BY <1>2, <1>4, <1>i, <2>1, <3>3, ChannelFrame
    <3> QED
      BY <1>2, <3>2, <3>4, <3>5, <3>6, Assembled
  <2>2. CASE k = "refresh"
    <3>1. refreshEnds(ok)
      BY <1>13, <2>2 DEF Ends
    <3>2. ClientTypes' /\ ClientInv'
      BY <1>4, <1>i, <3>1, ClientRefreshEnds
    <3>3. /\ cl' \in ClientType /\ cl'.phase = cl.phase /\ cl'.id = cl.id /\ cl'.nonce = cl.nonce
          /\ cl'.channelNumber = cl.channelNumber /\ cl'.channelByAddr = cl.channelByAddr
          /\ cl'.exp = IF ok THEN clampLifetime(cl.exp) ELSE cl.exp
          /\ cl'.refreshAt = now + refreshDelay(cl'.exp)
      BY <1>i, <3>1, RefreshEnds
    <3>4. AllocationInv'
      BY <1>4, <1>7, <1>i, <3>3, AllocationFrame
    <3>5. ChannelInv'
      BY <1>2, <1>4, <1>8, <1>i, <2>2, <3>3, ChannelFrame
    <3>6. KeptInv'
      <4>1. cl.phase = "open" /\ cl.exp = Granted
        BY <1>2, <1>i, <2>2 DEF KeptInv
      <4>2. cl'.exp = Granted
        BY <3>3, <4>1, Clamp
      <4>3. cl'.refreshAt < now + Granted
        BY <1>5, <3>3, <4>2, Clamp
      <4>4. ~scenario.lossy /\ cl.nonce > now =>
              /\ b.st = "bound" /\ b.exp = now + Granted
              /\ \A j \in Kinds : tx'[j].st # "unheard"
        <5> SUFFICES ASSUME ~scenario.lossy, cl.nonce > now
                     PROVE  /\ b.st = "bound" /\ b.exp = now + Granted
                            /\ \A j \in Kinds : tx'[j].st # "unheard"
          OBVIOUS
        <5>1. a.st = "bound" /\ \A j \in Kinds : tx[j].st # "unheard"
          BY <1>i, <4>1 DEF KeptInv, NonceHeld
        <5>2. auth
          BY <1>i, <4>1 DEF AllocationInv
        <5>3. code = Success
          BY <1>3, <2>2, <5>1, <5>2
        <5>4. tx' = Remaining("refresh")
          BY <1>i, <3>1, RefreshEnds
        <5>5. \A j \in Kinds : tx'[j].st \in {"off", tx[j].st}
          BY <1>i, <5>4, RemainingType, KindsAre
        <5> QED
          BY <1>2, <1>3, <2>2, <5>1, <5>3, <5>5
      <4> QED
        BY <1>4, <1>6, <3>3, <4>2, <4>3, <4>4 DEF KeptInv, NonceHeld, Granted, clampLifetime
    <3> QED
      BY <1>2, <3>2, <3>4, <3>5, <3>6, Assembled
  <2>3. CASE k = "bind"
    <3> DEFINE p == tx["bind"].peer
    <3>1. bindEnds(ok) /\ tx["bind"].st # "off"
      BY <1>1, <1>13, <2>3 DEF Ends
    <3>2. ClientTypes' /\ ClientInv'
      BY <1>4, <1>i, <3>1, ClientBindEnds
    <3>3. /\ p \in Peers /\ cl' \in ClientType /\ tx' = Remaining("bind")
          /\ cl'.phase = cl.phase /\ cl'.id = cl.id /\ cl'.nonce = cl.nonce
          /\ cl'.channelNumber = cl.channelNumber /\ cl'.exp = cl.exp /\ cl'.refreshAt = cl.refreshAt
          /\ \A q \in Peers : q # p => cl'.channelByAddr[q] = cl.channelByAddr[q]
          /\ cl'.channelByAddr[p].number \in {0, cl.channelByAddr[p].number}
          /\ ok => /\ cl'.channelByAddr[p].number = cl.channelByAddr[p].number
                   /\ cl'.channelByAddr[p].refreshAt = now + channelRefreshTime
          /\ ~ok => cl'.channelByAddr[p].refreshAt = cl.channelByAddr[p].refreshAt
      BY <1>i, <3>1, BindEnds
    <3>4. AllocationInv'
      BY <1>4, <1>7, <1>i, <3>3, AllocationFrame
    <3>5. KeptInv'
      <4>1. \A j \in Kinds : tx'[j].st = "unheard" => tx[j].st = "unheard"
        BY <1>i, <3>3, RemainingType, KindsAre
      <4> QED
        BY <1>2, <1>4, <1>5, <1>6, <1>i, <3>3, <4>1, KeptFrame
    <3>6. ChannelInv'
      <4>1. CASE ok
        <5>1. b.channels = Rebound(a, p, cl.channelByAddr[p].number) /\ b.st = a.st
          BY <1>3, <1>13, <2>3, <4>1
        <5> QED
          BY <1>4, <1>5, <1>9, <1>i, <2>3, <3>3, <4>1, <5>1, ChannelBound
      <4>2. CASE ~ok
        <5>1. b.channels = a.channels
          BY <1>2, <1>13, <4>2
        <5>2. \A q \in Peers : /\ cl'.channelByAddr[q].number \in {0, cl.channelByAddr[q].number}
                               /\ cl'.channelByAddr[q].refreshAt = cl.channelByAddr[q].refreshAt
          BY <3>3, <4>2
        <5> QED
          BY <1>4, <1>8, <1>i, <3>3, <5>1, <5>2, ChannelFrame
      <4> QED
        BY <4>1, <4>2
    <3> QED
      BY <1>2, <3>2, <3>4, <3>5, <3>6, Assembled
  <2>4. CASE k = "permission"
    <3>1. permissionEnds(ok) /\ tx["permission"].st # "off"
      BY <1>1, <1>13, <2>4 DEF Ends
    <3>2. ClientTypes' /\ ClientInv'
      BY <1>4, <1>i, <3>1, ClientPermissionEnds
    <3>3. /\ cl' \in ClientType /\ tx' = Remaining("permission")
          /\ cl'.phase = cl.phase /\ cl'.id = cl.id /\ cl'.nonce = cl.nonce
          /\ cl'.channelNumber = cl.channelNumber /\ cl'.exp = cl.exp /\ cl'.refreshAt = cl.refreshAt
          /\ cl'.channelByAddr = cl.channelByAddr
      BY <1>i, <3>1, PermissionEnds
    <3>4. AllocationInv'
      BY <1>4, <1>7, <1>i, <3>3, AllocationFrame
    <3>5. KeptInv'
      <4>1. \A j \in Kinds : tx'[j].st = "unheard" => tx[j].st = "unheard"
        BY <1>i, <3>3, RemainingType, KindsAre
      <4> QED
        BY <1>2, <1>4, <1>5, <1>6, <1>i, <3>3, <4>1, KeptFrame
    <3>6. ChannelInv'
      BY <1>2, <1>4, <1>8, <1>i, <2>4, <3>3, ChannelFrame
    <3> QED
      BY <1>2, <3>2, <3>4, <3>5, <3>6, Assembled
  <2> QED
    BY <2>1, <2>2, <2>3, <2>4 DEF Kinds
<1> QED
  BY <1>1, <1>10, <1>11, <1>12, <1>13

\* A step of the client alone that changes neither its channels nor the times of
\* its refresh, and opens nothing.
LEMMA ClientOnlyStep ==
    ASSUME RelayInv, ClientTypes', ClientInv', UNCHANGED <<scenario, now, alloc, sockets>>,
           cl'.id = cl.id, cl'.nonce = cl.nonce, cl'.phase = "open" => cl.phase = "open",
           cl'.phase = "open" => cl'.exp = cl.exp /\ cl'.refreshAt = cl.refreshAt,
           cl'.channelNumber = cl.channelNumber,
           \A q \in Peers : /\ cl'.channelByAddr[q].number \in {0, cl.channelByAddr[q].number}
                            /\ cl'.channelByAddr[q].refreshAt = cl.channelByAddr[q].refreshAt,
           \A k \in Kinds : tx'[k].st = "unheard" => tx[k].st = "unheard"
    PROVE  RelayInv'
<1>i. TypeInv /\ ClientInv /\ RelayOwned /\ AllocationInv /\ KeptInv /\ ChannelInv
  BY Parts
<1>1. ServerTypes' /\ RelayOwned'
  BY <1>i DEF TypeInv, ServerTypes, RelayOwned, Live
<1>2. AllocationInv'
  BY <1>i, AllocationFrame
<1>3. KeptInv'
  BY <1>i DEF KeptInv, NonceHeld, Granted, clampLifetime
<1>4. ChannelInv'
  BY <1>i, ChannelFrame DEF ClientTypes
<1> QED
  BY <1>1, <1>2, <1>3, <1>4, Assembled

LEMMA ResolvedStep ==
    ASSUME RelayInv, NEW k \in Kinds, resolved(k)
    PROVE  RelayInv'
<1> DEFINE st == IF cl.phase = "closed" THEN "cancelled" ELSE "sent"
<1>i. TypeInv /\ ClientInv
  BY Parts
<1>1. /\ tx[k].st = "lookup" /\ tx' = [tx EXCEPT ![k].st = st] /\ st \in {"cancelled", "sent"}
      /\ UNCHANGED <<scenario, now, cl, stage, sends, alloc, sockets>>
  BY DEF resolved
<1>2. cl.phase = "closed" <=> st = "cancelled"
  OBVIOUS
<1> HIDE DEF st
<1>3. TxMoves(k, st)
  BY <1>1, <1>i, SetTxState DEF TxStates
<1>4. ClientTypes' /\ ClientInv'
  BY <1>1, <1>2, <1>3, <1>i, ClientTxMoves
<1>5. \A j \in Kinds : tx'[j].st = "unheard" => tx[j].st = "unheard"
  BY <1>1, <1>3 DEF TxMoves
<1> QED
  BY <1>1, <1>4, <1>5, ClientOnlyStep

LEMMA FailsStep ==
    ASSUME RelayInv, NEW k \in Kinds, transactionFails(k)
    PROVE  RelayInv'
<1>i. TypeInv /\ ClientInv /\ HeadInv /\ PhaseInv /\ RelayOwned /\ AllocationInv /\ KeptInv /\ ChannelInv
  BY Parts DEF ClientInv
<1>1. /\ tx[k].st \in {"unheard", "cancelled", "sent"} /\ tx[k].st # "off"
      /\ tx[k].st = "sent" => scenario.lossy
      /\ Ends(k, FALSE) /\ UNCHANGED <<scenario, now, alloc, sockets>>
  BY DEF transactionFails
<1>2. CASE k = "allocate"
  <2>1. allocateEnds(FALSE) /\ tx["allocate"].st # "off"
    BY <1>1, <1>2 DEF Ends
  <2>2. ClientTypes' /\ ClientInv'
    BY <1>1, <1>i, <2>1, ClientAllocateEnds
  <2>3. /\ cl'.phase = "closed" /\ cl'.id = cl.id /\ cl'.nonce = cl.nonce
        /\ cl'.channelNumber = cl.channelNumber /\ cl'.channelByAddr = cl.channelByAddr
        /\ tx' = Remaining("allocate")
    BY <1>i, <2>1, AllocateEnds
  <2>4. \A q \in Peers : cl'.channelByAddr[q].number \in {0, cl.channelByAddr[q].number}
    BY <2>3
  <2>5. \A j \in Kinds : tx'[j].st = "unheard" => tx[j].st = "unheard"
    BY <1>i, <2>3, RemainingType, KindsAre
  <2> QED
    BY <1>1, <2>2, <2>3, <2>4, <2>5, ClientOnlyStep
<1>3. CASE k = "refresh"
  <2>1. refreshEnds(FALSE)
    BY <1>1, <1>3 DEF Ends
  <2>2. ClientTypes' /\ ClientInv'
    BY <1>1, <1>i, <2>1, ClientRefreshEnds
  <2>3. /\ cl' \in ClientType /\ cl'.phase = cl.phase /\ cl'.id = cl.id /\ cl'.nonce = cl.nonce
        /\ cl'.channelNumber = cl.channelNumber /\ cl'.channelByAddr = cl.channelByAddr
        /\ cl'.exp = cl.exp
    BY <1>i, <2>1, RefreshEnds
  <2>4. ServerTypes' /\ RelayOwned'
    BY <1>1, <1>i DEF TypeInv, ServerTypes, RelayOwned, Live
  <2>5. AllocationInv'
    BY <1>1, <1>i, <2>3, AllocationFrame
  <2>6. ChannelInv'
    BY <1>1, <1>i, <2>3, ChannelFrame
  <2>7. ~(cl.phase = "open" /\ ~scenario.lossy /\ cl.nonce > now)
    <3>1. cl.phase = "open" /\ ~scenario.lossy /\ cl.nonce > now => tx[k].st # "unheard"
      BY <1>i DEF KeptInv, NonceHeld
    <3>2. cl.phase = "open" => tx[k].st # "cancelled"
      BY <1>i DEF PhaseInv
    <3> QED
      BY <1>1, <3>1, <3>2
  <2>8. KeptInv'
    BY <1>1, <1>i, <2>3, <2>7 DEF KeptInv, NonceHeld, Granted, clampLifetime
  <2> QED
    BY <2>2, <2>4, <2>5, <2>6, <2>8, Assembled
<1>4. CASE k = "bind"
  <2> DEFINE p == tx["bind"].peer
  <2>1. bindEnds(FALSE) /\ tx["bind"].st # "off"
    BY <1>1, <1>4 DEF Ends
  <2>2. ClientTypes' /\ ClientInv'
    BY <1>1, <1>i, <2>1, ClientBindEnds
  <2>3. /\ p \in Peers /\ cl' \in ClientType /\ tx' = Remaining("bind")
        /\ cl'.phase = cl.phase /\ cl'.id = cl.id /\ cl'.nonce = cl.nonce
        /\ cl'.channelNumber = cl.channelNumber /\ cl'.exp = cl.exp /\ cl'.refreshAt = cl.refreshAt
        /\ \A q \in Peers : q # p => cl'.channelByAddr[q] = cl.channelByAddr[q]
        /\ cl'.channelByAddr[p].number \in {0, cl.channelByAddr[p].number}
        /\ cl'.channelByAddr[p].refreshAt = cl.channelByAddr[p].refreshAt
    BY <1>i, <2>1, BindEnds
  <2>4. \A q \in Peers : /\ cl'.channelByAddr[q].number \in {0, cl.channelByAddr[q].number}
                         /\ cl'.channelByAddr[q].refreshAt = cl.channelByAddr[q].refreshAt
    BY <2>3
  <2>5. \A j \in Kinds : tx'[j].st = "unheard" => tx[j].st = "unheard"
    BY <1>i, <2>3, RemainingType, KindsAre
  <2> HIDE DEF p
  <2> QED
    BY <1>1, <2>2, <2>3, <2>4, <2>5, ClientOnlyStep
<1>5. CASE k = "permission"
  <2>1. permissionEnds(FALSE) /\ tx["permission"].st # "off"
    BY <1>1, <1>5 DEF Ends
  <2>2. ClientTypes' /\ ClientInv'
    BY <1>1, <1>i, <2>1, ClientPermissionEnds
  <2>3. /\ cl' \in ClientType /\ tx' = Remaining("permission")
        /\ cl'.phase = cl.phase /\ cl'.id = cl.id /\ cl'.nonce = cl.nonce
        /\ cl'.channelNumber = cl.channelNumber /\ cl'.exp = cl.exp /\ cl'.refreshAt = cl.refreshAt
        /\ cl'.channelByAddr = cl.channelByAddr
    BY <1>i, <2>1, PermissionEnds
  <2>4. \A q \in Peers : cl'.channelByAddr[q].number \in {0, cl.channelByAddr[q].number}
    BY <2>3
  <2>5. \A j \in Kinds : tx'[j].st = "unheard" => tx[j].st = "unheard"
    BY <1>i, <2>3, RemainingType, KindsAre
  <2> QED
    BY <1>1, <2>2, <2>3, <2>4, <2>5, ClientOnlyStep
<1> QED
  BY <1>2, <1>3, <1>4, <1>5 DEF Kinds

\* The relay socket is bound; the client hears of it or not.
LEMMA RelayBoundStep ==
    ASSUME RelayInv, NEW i \in Clients, NEW heard \in BOOLEAN, handleRelayBound(i, heard)
    PROVE  RelayInv'
<1> DEFINE e == now + Granted
<1>i. TypeInv /\ ClientInv /\ PhaseInv /\ ClosedQuiet /\ RelayOwned /\ AllocationInv /\ KeptInv /\ ChannelInv
  BY Parts DEF ClientInv
<1>1. /\ alloc[i].st = "pending" /\ alloc' = [alloc EXCEPT ![i].st = "bound", ![i].exp = e]
      /\ UNCHANGED <<scenario, now, sockets>>
  BY DEF handleRelayBound, Granted
<1>2. /\ now \in Nat /\ e \in Nat /\ Granted \in Nat /\ cl.id \in Clients /\ cl \in ClientType
      /\ alloc[i] \in AllocationType /\ alloc \in [Clients -> AllocationType]
      /\ Clients \subseteq Nat /\ alloc[cl.id].exp \in Nat
  BY <1>i, Times, Clamp, AllocationFields DEF TypeInv
<1> HIDE DEF e
<1>3. /\ alloc' \in [Clients -> AllocationType]
      /\ alloc'[i].st = "bound" /\ alloc'[i].exp = e /\ alloc'[i].channels = alloc[i].channels
      /\ \A j \in Clients \ {i} : alloc'[j] = alloc[j]
  <2>1. [[alloc[i] EXCEPT !.st = "bound"] EXCEPT !.exp = e] \in AllocationType
    BY <1>2 DEF AllocationType
  <2> QED
    BY <1>1, <1>2, <2>1 DEF AllocationType
<1>4. \A j \in Clients : alloc'[j].st # "none" <=> alloc[j].st # "none"
  BY <1>1, <1>3
<1>5. ServerTypes' /\ RelayOwned'
  BY <1>1, <1>3, <1>4, <1>i DEF TypeInv, ServerTypes, RelayOwned, Live
<1>6. i <= cl.id /\ \A j \in Clients : j > cl.id => alloc'[j] = alloc[j]
  <2>1. ~(i > cl.id)
    BY <1>1, <1>i DEF AllocationInv
  <2>2. i \in Nat /\ cl.id \in Nat
    BY <1>2
  <2>3. i <= cl.id
    BY <2>1, <2>2
  <2>4. ASSUME NEW j \in Clients, j > cl.id PROVE j \in Clients \ {i}
    BY <2>1, <2>4
  <2> QED
    BY <1>3, <2>3, <2>4
<1>7. CASE UNCHANGED <<cl, tx, stage, sends>>
  <2>1. ClientTypes' /\ ClientInv'
    BY <1>1, <1>2, <1>7, <1>i, ClientFrame
  <2>2. AllocationInv'
    BY <1>1, <1>4, <1>6, <1>7, <1>i, AllocationFrame
  <2>3. KeptInv'
    <3>1. alloc'[cl.id].exp \in Nat /\ alloc'[cl.id].exp <= now + Granted
      <4>1. CASE i = cl.id
        BY <1>2, <1>3, <4>1 DEF e
      <4>2. CASE i # cl.id
        BY <1>2, <1>3, <1>i, <4>2 DEF KeptInv
      <4> QED
        BY <4>1, <4>2
    <3>2. alloc[cl.id].st = "bound" => alloc'[cl.id] = alloc[cl.id]
      BY <1>1, <1>2, <1>3
    <3> QED
      BY <1>1, <1>2, <1>7, <1>i, <3>1, <3>2, KeptFrame
  <2>4. ChannelInv'
    <3>1. alloc'[cl.id].channels = alloc[cl.id].channels
      BY <1>2, <1>3
    <3> QED
      BY <1>1, <1>2, <1>4, <1>7, <1>i, <3>1, ChannelFrame
  <2> QED
    BY <1>5, <2>1, <2>2, <2>3, <2>4, Assembled
<1>8. CASE Waiting(i) /\ allocateEnds(TRUE)
  <2>1. i = cl.id /\ tx["allocate"].st = "sent"
    BY <1>8 DEF Waiting
  <2>2. ClientTypes' /\ ClientInv' /\ cl.phase = "allocating"
    BY <1>1, <1>8, <1>i, <2>1, ClientAllocateEnds
  <2>3. /\ cl' \in ClientType /\ cl'.id = cl.id /\ cl'.nonce = cl.nonce
        /\ cl'.channelByAddr = cl.channelByAddr /\ cl'.channelNumber = cl.channelNumber
        /\ cl'.exp = Granted /\ cl'.refreshAt = now + refreshDelay(Granted)
        /\ tx' = Remaining("allocate")
    BY <1>8, <1>i, AllocateEnds
  <2>4. AllocationInv'
    <3>1. scenario.password /\ cl.nonce # 0
      BY <1>1, <1>i, <2>1 DEF AllocationInv, Live
    <3> QED
      BY <1>1, <1>4, <1>6, <1>i, <2>3, <3>1 DEF AllocationInv, Live
  <2>5. KeptInv'
    <3>1. \A j \in Kinds : tx'[j].st # "unheard"
      <4>1. \A j \in Kinds \ {"allocate"} : tx[j].st = "off"
        BY <1>i, <2>2 DEF PhaseInv
      <4> QED
        BY <1>i, <2>3, <4>1, RemainingType, KindsAre
    <3>2. e > cl'.refreshAt /\ e <= now + Granted
      BY <1>2, <2>3, Clamp DEF e
    <3> QED
      BY <1>1, <1>3, <2>1, <2>3, <3>1, <3>2 DEF KeptInv, Granted, clampLifetime
  <2>6. ChannelInv'
    <3>1. \A p \in Peers : cl.channelByAddr[p].number = 0
      BY <1>i, <2>2 DEF PhaseInv
    <3> QED
      BY <1>3, <1>i, <2>1, <2>3, <3>1 DEF ChannelInv
  <2> QED
    BY <1>5, <2>2, <2>4, <2>5, <2>6, Assembled
<1> QED
  BY <1>7, <1>8 DEF handleRelayBound

\* An allocation goes: its client is not using it.
LEMMA DeleteStep ==
    ASSUME RelayInv, NEW i \in Clients, deleteAllocation(i), UNCHANGED <<scenario, now>>,
           ClientTypes', ClientInv',
           \A f \in {"id", "nonce", "exp", "refreshAt", "channelNumber", "channelByAddr"} :
              cl'[f] = cl[f],
           cl'.phase = "open" => cl.phase = "open",
           \A k \in Kinds : tx'[k].st = "unheard" => tx[k].st = "unheard",
           i = cl.id /\ cl.phase = "open" => alloc[i].st # "bound"
    PROVE  RelayInv'
<1>i. TypeInv /\ ClientInv /\ RelayOwned /\ AllocationInv /\ KeptInv /\ ChannelInv
  BY Parts
<1>1. alloc' = [alloc EXCEPT ![i] = NoAllocation] /\ sockets' = sockets \ {i}
  BY DEF deleteAllocation
<1>2. /\ alloc' \in [Clients -> AllocationType] /\ alloc'[i] = NoAllocation
      /\ \A j \in Clients \ {i} : alloc'[j] = alloc[j]
  BY <1>1, <1>i, NoAllocationType DEF TypeInv
<1>3. alloc'[i].st = "none" /\ alloc'[i].exp = 0 /\ alloc'[i].channels = {}
  BY <1>2, NoAllocationType
<1>4. sockets' = {j \in Clients : alloc'[j].st # "none"} /\ sockets' \subseteq sockets
  BY <1>1, <1>2, <1>3, <1>i DEF RelayOwned, Live, TypeInv
<1>5. ServerTypes' /\ RelayOwned'
  BY <1>2, <1>4, <1>i, OwnedFrame DEF ServerTypes, TypeInv
<1>6. cl'.id = cl.id /\ cl'.nonce = cl.nonce /\ cl'.exp = cl.exp /\ cl'.refreshAt = cl.refreshAt
      /\ cl'.channelNumber = cl.channelNumber /\ cl'.channelByAddr = cl.channelByAddr
  OBVIOUS
<1>7. \A j \in Clients : \/ alloc'[j] = alloc[j]
                         \/ /\ j = i /\ alloc'[j].st = "none" /\ alloc'[j].exp = 0
                            /\ alloc'[j].channels = {}
  BY <1>2, <1>3
<1>8. cl.id \in Clients /\ now \in Nat /\ Granted \in Nat /\ alloc[cl.id].exp \in Nat /\ cl' \in ClientType
  BY <1>i, Times, Clamp, AllocationFields DEF ClientTypes
<1>9. AllocationInv'
  BY <1>6, <1>7, <1>i, AllocationFrame
<1>10. KeptInv'
  <2>1. alloc'[cl.id].exp \in Nat /\ alloc'[cl.id].exp <= now + Granted
    BY <1>7, <1>8, <1>i DEF KeptInv
  <2>2. cl.phase = "open" /\ alloc[cl.id].st = "bound" => alloc'[cl.id] = alloc[cl.id]
    BY <1>7, <1>8
  <2>3. cl.phase = "open" /\ alloc[cl.id].st = "bound" =>
           alloc'[cl.id].st = "bound" /\ alloc'[cl.id].exp >= alloc[cl.id].exp
    BY <1>8, <2>2
  <2> QED
    BY <1>6, <1>i, <2>1, <2>3, KeptFrame
<1>11. ChannelInv'
  <2>1. \/ alloc'[cl.id] = alloc[cl.id]
        \/ alloc'[cl.id].st = "none" /\ alloc'[cl.id].channels = {}
    BY <1>7, <1>8
  <2> QED
    BY <1>6, <1>8, <1>i, <2>1, ChannelFrame
<1> QED
  BY <1>5, <1>9, <1>10, <1>11, Assembled

LEMMA RelayBindFailureStep ==
    ASSUME RelayInv, NEW i \in Clients, handleRelayBindFailure(i)
    PROVE  RelayInv'
<1>i. TypeInv /\ ClientInv
  BY Parts
<1>1. /\ alloc[i].st = "pending" /\ deleteAllocation(i) /\ UNCHANGED <<scenario, now>>
      /\ IF Waiting(i) THEN allocateEnds(FALSE) ELSE UNCHANGED <<cl, tx, stage, sends>>
  BY DEF handleRelayBindFailure
<1>2. CASE Waiting(i)
  <2>1. tx["allocate"].st # "off" /\ allocateEnds(FALSE)
    BY <1>1, <1>2 DEF Waiting
  <2>2. ClientTypes' /\ ClientInv'
    BY <1>1, <1>i, <2>1, ClientAllocateEnds
  <2>3. /\ cl'.phase = "closed" /\ tx' = Remaining("allocate")
        /\ \A f \in {"id", "nonce", "exp", "refreshAt", "channelNumber", "channelByAddr"} : cl'[f] = cl[f]
    BY <1>i, <2>1, AllocateEnds
  <2>4. \A k \in Kinds : tx'[k].st = "unheard" => tx[k].st = "unheard"
    BY <1>i, <2>3, RemainingType, KindsAre
  <2> QED
    BY <1>1, <2>2, <2>3, <2>4, DeleteStep
<1>3. CASE UNCHANGED <<cl, tx, stage, sends>>
  <2>1. ClientTypes' /\ ClientInv'
    BY <1>1, <1>3, <1>i, Times, ClientFrame
  <2> QED
    BY <1>1, <1>3, <2>1, DeleteStep
<1> QED
  BY <1>1, <1>2, <1>3

LEMMA ClientClosedStep ==
    ASSUME RelayInv, NEW i \in Clients, handleClientClosed(i)
    PROVE  RelayInv'
<1>i. TypeInv /\ ClientInv
  BY Parts
<1>1. /\ deleteAllocation(i) /\ UNCHANGED <<scenario, now, cl, tx, stage, sends>>
      /\ i < cl.id \/ cl.phase = "closed"
  BY DEF handleClientClosed, Gone
<1>2. ClientTypes' /\ ClientInv'
  BY <1>1, <1>i, Times, ClientFrame
<1>3. ~(i = cl.id /\ cl.phase = "open")
  <2>1. i \in Nat /\ cl.id \in Nat
    BY <1>i, Times
  <2> QED
    BY <1>1, <2>1
<1> QED
  BY <1>1, <1>2, <1>3, DeleteStep

-----------------------------------------------------------------------------
(* The steps of the client's own operations and of the clock.               *)

LEMMA RequestStep ==
    ASSUME RelayInv, connectionMade \/ refresh
    PROVE  RelayInv'
<1>i. TypeInv /\ ClientInv
  BY Parts
<1>1. ClientTypes' /\ ClientInv'
  BY <1>i, ClientRequest
<1>2. UNCHANGED <<scenario, now, alloc, sockets>>
  BY DEF connectionMade, refresh
<1>3. /\ \A f \in {"id", "nonce", "exp", "refreshAt", "channelNumber", "channelByAddr"} : cl'[f] = cl[f]
      /\ cl'.phase = "open" => cl.phase = "open"
  <2>1. cl' = cl \/ cl' = [cl EXCEPT !.phase = "allocating"]
    BY DEF connectionMade, refresh
  <2>2. cl \in ClientType
    BY <1>i, Times
  <2> QED
    BY <2>1, <2>2 DEF ClientType
<1>4. \A k \in Kinds : tx'[k].st = "unheard" => tx[k].st = "unheard"
  <2>1. PICK k \in {"allocate", "refresh"} : tx' = request(k, tx, cl)
    BY DEF connectionMade, refresh
  <2>2. tx'[k].st = "lookup" /\ \A j \in Kinds \ {k} : tx'[j] = tx[j]
    BY <1>i, <2>1, Times, KindsAre, RequestType DEF TypeInv
  <2> QED
    BY <2>2
<1> QED
  BY <1>1, <1>2, <1>3, <1>4, ClientOnlyStep

LEMMA SendDataStep ==
    ASSUME RelayInv, NEW p \in Peers, sendData(p)
    PROVE  RelayInv'
<1>i. TypeInv /\ ClientInv
  BY Parts
<1>1. ClientTypes' /\ ClientInv'
  BY <1>i, ClientSendData
<1>2. UNCHANGED <<scenario, now, tx, alloc, sockets>>
  BY DEF sendData
<1>3. \A f \in {"id", "phase", "nonce", "exp", "refreshAt", "channelNumber", "channelByAddr"} :
         cl'[f] = cl[f]
  BY <1>i, SendData
<1> QED
  BY <1>1, <1>2, <1>3, ClientOnlyStep

LEMMA CreatePermissionStep ==
    ASSUME RelayInv, createPermission
    PROVE  RelayInv'
<1>i. TypeInv /\ ClientInv
  BY Parts
<1>1. ClientTypes' /\ ClientInv'
  BY <1>i, ClientCreatePermission
<1>2. UNCHANGED <<scenario, now, cl, alloc, sockets>>
  BY DEF createPermission
<1>3. \A k \in Kinds : tx'[k].st = "unheard" => tx[k].st = "unheard"
  BY <1>i, CreatePermission
<1> QED
  BY <1>1, <1>2, <1>3, ClientOnlyStep

LEMMA CloseStep ==
    ASSUME RelayInv, close
    PROVE  RelayInv'
<1>i. TypeInv /\ ClientInv
  BY Parts
<1>1. ClientTypes' /\ ClientInv'
  BY <1>i, ClientClose
<1>2. UNCHANGED <<scenario, now, alloc, sockets>>
  BY DEF close
<1>3. /\ cl'.phase = "closed"
      /\ \A f \in {"id", "nonce", "exp", "refreshAt", "channelNumber", "channelByAddr"} : cl'[f] = cl[f]
      /\ \A k \in Kinds : tx'[k].st = "unheard" => tx[k].st = "unheard"
  BY <1>i, CloseFields
<1> QED
  BY <1>1, <1>2, <1>3, ClientOnlyStep

\* A new number is larger than every number the server may know.
LEMMA EnsureChannelStep ==
    ASSUME RelayInv, ensureChannel
    PROVE  RelayInv'
<1> DEFINE p == Head(cl.bindQueue)
<1>i. TypeInv /\ ClientInv /\ RelayOwned /\ AllocationInv /\ KeptInv /\ ChannelInv
  BY Parts
<1>1. ClientTypes' /\ ClientInv'
  BY <1>i, ClientEnsureChannel
<1>2. UNCHANGED <<scenario, now, alloc, sockets>>
  BY DEF ensureChannel
<1>3. /\ p \in Peers /\ cl' \in ClientType /\ tx'["bind"].st = "lookup"
      /\ \A k \in Kinds \ {"bind"} : tx'[k] = tx[k]
      /\ \A f \in {"id", "phase", "nonce", "exp", "refreshAt"} : cl'[f] = cl[f]
      /\ \A q \in Peers \ {p} : cl'.channelByAddr[q] = cl.channelByAddr[q]
      /\ \/ cl'.channelByAddr = cl.channelByAddr /\ cl'.channelNumber = cl.channelNumber
         \/ /\ cl'.channelByAddr[p].number = cl.channelNumber /\ cl'.channelByAddr[p].refreshAt = 0
            /\ cl'.channelNumber = cl.channelNumber + 1
  BY <1>i, EnsureChannel
<1> HIDE DEF p
<1>4. \A k \in Kinds : tx'[k].st = "unheard" => tx[k].st = "unheard"
  BY <1>3
<1>5. CASE cl'.channelByAddr = cl.channelByAddr /\ cl'.channelNumber = cl.channelNumber
  BY <1>1, <1>2, <1>3, <1>4, <1>5, ClientOnlyStep
<1>6. CASE /\ cl'.channelByAddr[p].number = cl.channelNumber /\ cl'.channelByAddr[p].refreshAt = 0
           /\ cl'.channelNumber = cl.channelNumber + 1
  <2>1. /\ cl.id \in Clients /\ now \in Nat /\ cl.channelNumber \in Nat
        /\ alloc[cl.id].exp \in Nat /\ alloc[cl.id].channels \subseteq Channel
    BY <1>i, Times, AllocationFields, ClientFields
  <2>2. ServerTypes' /\ RelayOwned'
    BY <1>2, <1>i DEF TypeInv, ServerTypes, RelayOwned, Live
  <2>3. AllocationInv'
    BY <1>2, <1>3, <1>i, AllocationFrame
  <2>4. KeptInv'
    <3>1. alloc'[cl.id].exp <= now + Granted
      BY <1>2, <1>i DEF KeptInv
    <3> QED
      BY <1>2, <1>3, <1>4, <1>i, <2>1, <3>1, KeptFrame
  <2>5. ChannelInv'
    <3>1. ASSUME NEW c \in alloc[cl.id].channels
          PROVE  /\ c.number # 0 /\ c.number < cl.channelNumber + 1
                 /\ \A q \in Peers : cl'.channelByAddr[q].number = c.number => q = c.peer
      <4>1. c.number \in Nat
        BY <2>1 DEF Channel
      <4>2. /\ c.number # 0 /\ c.number < cl.channelNumber
            /\ \A q \in Peers : cl.channelByAddr[q].number = c.number => q = c.peer
        BY <1>i DEF ChannelInv
      <4> QED
        BY <1>3, <1>6, <2>1, <4>1, <4>2
    <3>2. ASSUME cl.phase = "open", Live(cl.id), NEW q \in Peers,
                 cl'.channelByAddr[q].number # 0, cl'.channelByAddr[q].refreshAt > now
          PROVE  \E c \in alloc[cl.id].channels :
                    /\ c.number = cl'.channelByAddr[q].number /\ c.peer = q
                    /\ c.exp >= cl'.channelByAddr[q].refreshAt
      <4>1. q # p
        BY <1>6, <2>1, <3>2
      <4>2. cl'.channelByAddr[q] = cl.channelByAddr[q]
        BY <1>3, <4>1
      <4> QED
        BY <1>i, <3>2, <4>2 DEF ChannelInv
    <3> QED
      BY <1>2, <1>3, <1>6, <3>1, <3>2 DEF ChannelInv, Live
  <2> QED
    BY <1>1, <2>2, <2>3, <2>4, <2>5, Assembled
<1> QED
  BY <1>3, <1>5, <1>6

\* The next client is one the server has not heard of.
LEMMA CreateTurnClientStep ==
    ASSUME RelayInv, createTurnClient
    PROVE  RelayInv'
<1>i. TypeInv /\ ClientInv /\ RelayOwned /\ AllocationInv
  BY Parts
<1>1. ClientTypes' /\ ClientInv'
  BY <1>i, ClientCreateTurnClient
<1>2. UNCHANGED <<scenario, now, alloc, sockets>> /\ cl.id + 1 \in Clients /\ cl' = FreshClient(cl.id + 1)
  BY DEF createTurnClient
<1>3. cl'.id = cl.id + 1 /\ cl'.phase = "new" /\ cl.id \in Nat /\ now \in Nat /\ Clients \subseteq Nat
  BY <1>2, <1>i, Fresh, Times
<1>4. alloc[cl.id + 1].st = "none" /\ alloc[cl.id + 1].exp = 0 /\ alloc[cl.id + 1].channels = {}
  BY <1>2, <1>3, <1>i DEF AllocationInv
<1>5. ServerTypes' /\ RelayOwned'
  BY <1>2, <1>i DEF TypeInv, ServerTypes, RelayOwned, Live
<1>6. AllocationInv'
  <2>1. ASSUME NEW i \in Clients, i > cl.id + 1
        PROVE  alloc[i].st = "none" /\ alloc[i].exp = 0 /\ alloc[i].channels = {}
    <3>1. i > cl.id
      BY <1>3, <2>1
    <3> QED
      BY <1>i, <3>1 DEF AllocationInv
  <2> QED
    BY <1>2, <1>3, <1>4, <1>i, <2>1 DEF AllocationInv, Live
<1>7. KeptInv'
  <2>1. 0 <= now + Granted /\ Granted' = Granted
    BY <1>3, Clamp DEF Granted, clampLifetime
  <2> QED
    BY <1>2, <1>3, <1>4, <2>1 DEF KeptInv
<1>8. ChannelInv'
  BY <1>2, <1>3, <1>4 DEF ChannelInv
<1> QED
  BY <1>1, <1>5, <1>6, <1>7, <1>8, Assembled

\* The clock: an open client refreshes before the server forgets anything.
LEMMA TickStep ==
    ASSUME RelayInv, tick
    PROVE  RelayInv'
<1>i. TypeInv /\ ClientInv /\ RelayOwned /\ AllocationInv /\ KeptInv /\ ChannelInv
  BY Parts
<1>1. /\ now < MaxTime /\ now' = now + 1 /\ Settled /\ ~RefreshDue
      /\ cleanupExpired(now + 1)
      /\ UNCHANGED <<scenario, cl, tx, stage, sends>>
  BY DEF tick
<1>2. now \in Nat /\ now' \in 0..MaxTime /\ now + 1 \in Nat /\ now' >= now /\ cl.id \in Clients
      /\ cl \in ClientType /\ cl.refreshAt \in Nat /\ cl.nonce \in Nat /\ alloc[cl.id].exp \in Nat
      /\ alloc[cl.id].channels \subseteq Channel /\ Granted \in Nat
  <2>1. now \in Nat /\ now' \in 0..MaxTime /\ now + 1 \in Nat /\ now' >= now
    BY <1>1, <1>i, Times, ConstantsAssumption
  <2> QED
    BY <1>i, <2>1, Times, ClientFields, AllocationFields, Clamp
<1>3. ClientTypes' /\ ClientInv'
  BY <1>1, <1>2, <1>i, ClientFrame
<1>4. /\ alloc' \in [Clients -> AllocationType]
      /\ \A i \in Clients :
            IF alloc[i].st = "bound" /\ alloc[i].exp <= now + 1 THEN alloc'[i] = NoAllocation
            ELSE /\ alloc'[i].st = alloc[i].st /\ alloc'[i].exp = alloc[i].exp
                 /\ alloc'[i].channels = {c \in alloc[i].channels : c.exp > now + 1}
  BY <1>1, <1>2, <1>i, CleanupExpired
<1>5. \A i \in Clients :
         \/ alloc[i].st = "bound" /\ alloc[i].exp <= now + 1
            /\ alloc'[i].st = "none" /\ alloc'[i].exp = 0 /\ alloc'[i].channels = {}
         \/ ~(alloc[i].st = "bound" /\ alloc[i].exp <= now + 1)
            /\ alloc'[i].st = alloc[i].st /\ alloc'[i].exp = alloc[i].exp
            /\ alloc'[i].channels = {c \in alloc[i].channels : c.exp > now + 1}
  BY <1>4, NoAllocationType
<1>6. ServerTypes' /\ RelayOwned'
  <2>1. sockets' = sockets \ {i \in Clients : alloc[i].st = "bound" /\ alloc[i].exp <= now + 1}
    BY <1>1 DEF cleanupExpired
  <2>2. sockets' = {i \in Clients : alloc'[i].st # "none"} /\ sockets' \subseteq sockets
    BY <1>5, <1>i, <2>1 DEF RelayOwned, Live, TypeInv
  <2>3. RelayOwned' /\ sockets' \subseteq Clients
    BY <1>i, <2>2, OwnedFrame
  <2> QED
    BY <1>1, <1>2, <1>4, <1>i, <2>3 DEF ServerTypes, TypeInv
<1>7. AllocationInv'
  <2>1. \A i \in Clients : alloc'[i].st # "none" => alloc[i].st # "none"
    BY <1>5
  <2>2. ASSUME NEW i \in Clients, i > cl.id
        PROVE  alloc'[i].st = "none" /\ alloc'[i].exp = 0 /\ alloc'[i].channels = {}
    BY <1>5, <1>i, <2>2 DEF AllocationInv
  <2> QED
    BY <1>1, <1>i, <2>1, <2>2, AllocationFrame
<1>8. cl.phase = "open" => cl.refreshAt > now
  BY <1>1, <1>2, KindsAre DEF RefreshDue, Settled
<1>9. KeptInv'
  <2>1. alloc'[cl.id].exp <= now + 1 + Granted
    <3>1. alloc'[cl.id].exp = 0 \/ alloc'[cl.id].exp = alloc[cl.id].exp
      BY <1>2, <1>5
    <3> QED
      BY <1>2, <1>i, <3>1 DEF KeptInv
  <2>2. ASSUME cl.phase = "open", ~scenario.lossy, cl.nonce > now + 1
        PROVE  /\ alloc'[cl.id].st = "bound" /\ alloc'[cl.id].exp > cl.refreshAt
               /\ \A k \in Kinds : tx[k].st # "unheard"
    <3>1. cl.nonce > now
      BY <1>2, <2>2
    <3>2. /\ alloc[cl.id].st = "bound" /\ alloc[cl.id].exp > cl.refreshAt
          /\ \A k \in Kinds : tx[k].st # "unheard"
      BY <1>i, <2>2, <3>1 DEF KeptInv, NonceHeld
    <3>3. ~(alloc[cl.id].exp <= now + 1)
      BY <1>2, <1>8, <2>2, <3>2
    <3> QED
      BY <1>2, <1>5, <3>2, <3>3
  <2>3. Granted' = Granted
    BY DEF Granted, clampLifetime
  <2> QED
    BY <1>1, <1>i, <2>1, <2>2, <2>3 DEF KeptInv, NonceHeld
<1>10. ChannelInv'
  <2>1. alloc'[cl.id].channels \subseteq alloc[cl.id].channels
    BY <1>2, <1>5
  <2>2. ASSUME cl.phase = "open", alloc'[cl.id].st # "none", NEW p \in Peers,
               cl.channelByAddr[p].number # 0, cl.channelByAddr[p].refreshAt > now + 1
        PROVE  \E c \in alloc'[cl.id].channels :
                  /\ c.number = cl.channelByAddr[p].number /\ c.peer = p
                  /\ c.exp >= cl.channelByAddr[p].refreshAt
    <3>1. /\ alloc[cl.id].st # "none"
          /\ alloc'[cl.id].channels = {c \in alloc[cl.id].channels : c.exp > now + 1}
      BY <1>2, <1>5, <2>2
    <3>2. cl.channelByAddr[p].refreshAt \in Nat
      BY <1>2, ClientFields
    <3>3. cl.channelByAddr[p].refreshAt > now
      BY <1>2, <2>2, <3>2
    <3>4. PICK c \in alloc[cl.id].channels :
                  /\ c.number = cl.channelByAddr[p].number /\ c.peer = p
                  /\ c.exp >= cl.channelByAddr[p].refreshAt
      BY <1>i, <2>2, <3>1, <3>3 DEF ChannelInv, Live
    <3>5. c.exp \in Nat
      BY <1>2 DEF Channel
    <3>6. c.exp > now + 1
      BY <1>2, <2>2, <3>2, <3>4, <3>5
    <3> QED
      BY <3>1, <3>4, <3>6
  <2> QED
    BY <1>1, <1>i, <2>1, <2>2 DEF ChannelInv, Live
<1> QED
  BY <1>3, <1>6, <1>7, <1>9, <1>10, Assembled

LEMMA InitRelay == Init => RelayInv
<1> SUFFICES ASSUME Init PROVE RelayInv
  OBVIOUS
<1>1. /\ scenario \in Scenarios /\ now = 0 /\ cl = FreshClient(1) /\ tx = [k \in Kinds |-> Off]
      /\ stage = [p \in Peers |-> "none"] /\ sends = 0
      /\ alloc = [i \in Clients |-> NoAllocation] /\ sockets = {}
  BY DEF Init
<1>2. /\ cl \in ClientType /\ cl.id = 1 /\ cl.phase = "new" /\ cl.nonce = 0
      /\ cl.bindQueue = <<>> /\ cl.permissionQueue = <<>> /\ cl.channelNumber = 1
      /\ \A p \in Peers : cl.channelByAddr[p].number = 0 /\ cl.channelByAddr[p].refreshAt = 0
      /\ 1 \in Clients
  BY <1>1, Fresh, ConstantsAssumption
<1>3. tx \in [Kinds -> TxType] /\ \A k \in Kinds : tx[k].st = "off"
  BY <1>1, OffType
<1>4. /\ alloc \in [Clients -> AllocationType]
      /\ \A i \in Clients : alloc[i].st = "none" /\ alloc[i].exp = 0 /\ alloc[i].channels = {}
  BY <1>1, NoAllocationType
<1>5. TypeInv
  <2>1. now \in 0..MaxTime /\ sends \in 0..MaxSends
    BY <1>1, ConstantsAssumption
  <2> QED
    BY <1>1, <1>2, <1>3, <1>4, <2>1 DEF TypeInv, Stages
<1>6. HeadInv /\ PhaseInv /\ ClosedQuiet
  BY <1>2, <1>3, KindsAre DEF HeadInv, PhaseInv, ClosedQuiet
<1>7. QueueInv /\ NumberInv
  <2>1. channelRefreshTime \in Nat
    BY <1>5, Times
  <2>2. Len(cl.bindQueue) = 0 /\ Len(cl.permissionQueue) = 0
    BY <1>2
  <2>3. QueueInv
    BY <1>1, <1>2, <1>3, <2>2, KindsAre DEF QueueInv
  <2> QED
    BY <1>1, <1>2, <1>3, <2>1, <2>3, KindsAre DEF NumberInv
<1>8. RelayOwned
  BY <1>1, <1>4, FS_EmptySet, ConstantsAssumption DEF RelayOwned, Live
<1>9. AllocationInv /\ ChannelInv
  BY <1>2, <1>4 DEF AllocationInv, ChannelInv, Live
<1>10. KeptInv
  <2>1. now = 0 /\ Granted \in Nat
    BY <1>1, Clamp
  <2>2. 0 <= now + Granted
    BY <2>1
  <2>3. alloc[cl.id].exp = 0 /\ cl.phase # "open"
    BY <1>2, <1>4
  <2> QED
    BY <2>2, <2>3 DEF KeptInv
<1> QED
  BY <1>5, <1>6, <1>7, <1>8, <1>9, <1>10 DEF RelayInv

LEMMA StutterRelay ==
    ASSUME RelayInv, UNCHANGED vars
    PROVE  RelayInv'
BY DEF RelayInv, TypeInv, HeadInv, QueueInv, PhaseInv, NumberInv, ClosedQuiet, RelayOwned,
       AllocationInv, KeptInv, ChannelInv, Granted, clampLifetime, Live, NonceHeld, vars

LEMMA NextRelay == RelayInv /\ [Next]_vars => RelayInv'
<1> SUFFICES ASSUME RelayInv, [Next]_vars PROVE RelayInv'
  OBVIOUS
<1>1. ASSUME NEW k \in Kinds, \/ resolved(k) \/ deliver(k) \/ transactionFails(k) \/ deliverUnanswered(k)
      PROVE  RelayInv'
  BY <1>1, ResolvedStep, DeliverStep, FailsStep
<1>2. ASSUME NEW i \in Clients,
             \/ handleRelayBound(i, TRUE) \/ handleRelayBound(i, FALSE)
             \/ handleClientClosed(i) \/ handleRelayBindFailure(i)
      PROVE  RelayInv'
  BY <1>2, RelayBoundStep, ClientClosedStep, RelayBindFailureStep
<1>3. CASE ensureChannel \/ createPermission \/ connectionMade \/ refresh \/ close
  BY <1>3, EnsureChannelStep, CreatePermissionStep, RequestStep, CloseStep
<1>4. CASE createTurnClient \/ tick \/ \E p \in Peers : sendData(p)
  BY <1>4, CreateTurnClientStep, TickStep, SendDataStep
<1>5. CASE UNCHANGED vars
  BY <1>5, StutterRelay
<1> QED
  BY <1>1, <1>2, <1>3, <1>4, <1>5 DEF Next, Progress

\* The inductive invariant holds in every reachable state: the operations at the
\* heads of the client's queues, its nonce and its numbers, and what the server
\* has granted it, stay in step.
THEOREM RelayInvariant == Spec => []RelayInv
BY InitRelay, NextRelay, PTL DEF Spec

\* A closed client sends no request any more: close() cancels what is on the wire,
\* and behind the lookup of the server's name no transaction starts.
THEOREM ClosedClientQuiet == Spec => []ClosedQuiet
<1>1. RelayInv => ClosedQuiet
  BY DEF RelayInv
<1> QED
  BY <1>1, RelayInvariant, PTL

\* The refresh loop is ahead of the server's expiry whatever the lifetimes are, as
\* long as nothing times out and the nonce is good; sockets and allocations of the
\* server come and go together and stay within the quota.
THEOREM RelayIsKept == Spec => []RelayKept
<1>1. RelayInv => RelayKept
  BY DEF RelayInv, KeptInv, RelayKept, AllocationKept
<1> QED
  BY <1>1, RelayInvariant, PTL

-----------------------------------------------------------------------------
(* The queues are as short as the sets of keys, and the channels agree.     *)

\* A sequence whose elements have different keys is no longer than the keys are.
LEMMA DistinctKeys ==
    ASSUME NEW K, IsFiniteSet(K), NEW s \in Seq(Peers), NEW f \in [1..Len(s) -> K],
           \A i, j \in 1..Len(s) : f[i] = f[j] => i = j
    PROVE  Len(s) <= Cardinality(K)
<1> DEFINE D == 1..Len(s)
<1>1. Len(s) \in Nat /\ 1 \in Int /\ Len(s) \in Int
  OBVIOUS
<1>2. IsFiniteSet(1..Len(s)) /\ Cardinality(1..Len(s)) = Len(s)
  <2>1. /\ IsFiniteSet(1..Len(s))
        /\ Cardinality(1..Len(s)) = IF 1 > Len(s) THEN 0 ELSE Len(s) - 1 + 1
    BY <1>1, FS_Interval, Zenon
  <2> QED
    BY <1>1, <2>1
<1>3. Cardinality(K) \in Nat
  BY FS_CardinalityType
<1>4. ~(Cardinality(K) < Cardinality(D))
  <2>1. IsFiniteSet(D) /\ f \in [D -> K] /\ \A x, y \in D : f[x] = f[y] => x = y
    BY <1>2
  <2> HIDE DEF D
  <2>2. Cardinality(K) < Cardinality(D) => \E x, y \in D : x # y /\ f[x] = f[y]
    BY <2>1, FS_PigeonHole
  <2> QED
    BY <2>1, <2>2
<1> QED
  BY <1>1, <1>2, <1>3, <1>4

LEMMA IpsFinite == IsFiniteSet(Ips)
<1> DEFINE f == [p \in Peers |-> IpOf[p]]
<1>1. f \in Surjection(Peers, Ips)
  BY DEF Surjection, Ips
<1> QED
  BY <1>1, FS_Surjection, ConstantsAssumption

LEMMA QueueLengths ==
    ASSUME TypeInv, QueueInv
    PROVE  Len(cl.permissionQueue) <= Cardinality(Ips) /\ Len(cl.bindQueue) <= Cardinality(Peers)
<1> DEFINE s == cl.permissionQueue
           f == [i \in 1..Len(s) |-> IpOf[s[i]]]
           b == cl.bindQueue
<1>1. s \in Seq(Peers) /\ b \in Seq(Peers)
  BY Times, ClientFields
<1>2. \A i, j \in 1..Len(s) : IpOf[s[i]] = IpOf[s[j]] => i = j
  BY DEF QueueInv
<1>3. \A i, j \in 1..Len(b) : b[i] = b[j] => i = j
  BY DEF QueueInv
<1>4. f \in [1..Len(s) -> Ips] /\ \A i, j \in 1..Len(s) : f[i] = f[j] => i = j
  <2>1. \A i \in 1..Len(s) : s[i] \in Peers
    BY <1>1
  <2> HIDE DEF s
  <2> QED
    BY <1>2, <2>1 DEF Ips
<1>5. b \in [1..Len(b) -> Peers]
  BY <1>1
<1> HIDE DEF s, b, f
<1>6. Len(s) <= Cardinality(Ips)
  BY <1>1, <1>4, IpsFinite, DistinctKeys
<1>7. Len(b) <= Cardinality(Peers)
  BY <1>1, <1>3, <1>5, ConstantsAssumption, DistinctKeys
<1> QED
  BY <1>6, <1>7 DEF s, b

LEMMA RelayTypes == RelayInv => TypeOK
<1> SUFFICES ASSUME RelayInv PROVE TypeOK
  OBVIOUS
<1>i. TypeInv /\ HeadInv /\ QueueInv
  BY DEF RelayInv
<1>1. /\ cl.id \in Clients /\ cl.phase \in Phases /\ cl.channelNumber \in Nat /\ cl.channelNumber # 0
      /\ cl.bindQueue \in Seq(Peers)
  BY <1>i, Times, ClientFields
<1>2. now \in 0..MaxTime /\ sends \in 0..MaxSends /\ sockets \subseteq Clients
  BY <1>i DEF TypeInv
<1>3. cl.channelNumber \in 1..MaxSends + 1
  <2>1. /\ Len(cl.bindQueue) \in Nat
        /\ tx["bind"].st # "off" => Len(cl.bindQueue) >= 1
    BY <1>1, <1>i DEF HeadInv
  <2>2. cl.channelNumber + Len(cl.bindQueue) <= sends + 1 + (IF tx["bind"].st = "off" THEN 0 ELSE 1)
    BY <1>i DEF QueueInv
  <2>3. cl.channelNumber <= sends + 1 /\ sends \in Nat /\ sends <= MaxSends
    BY <1>1, <1>2, <2>1, <2>2, ConstantsAssumption
  <2> QED
    BY <1>1, <2>3, ConstantsAssumption
<1>4. /\ \A k \in Kinds : tx[k].st \in {"off", "lookup", "sent", "unheard", "cancelled"}
      /\ \A p \in Peers : stage[p] \in {"none", "channel", "permission"}
  BY <1>i DEF TypeInv, TxType, TxStates, Stages
<1>5. \A i \in Clients : alloc[i].st \in {"none", "pending", "bound"}
  BY <1>i, AllocationFields
<1> QED
  BY <1>1, <1>2, <1>3, <1>4, <1>5, <1>i, QueueLengths DEF TypeOK, Phases

LEMMA RelayChannelsAgree == RelayInv => ChannelsAgree
<1> SUFFICES ASSUME RelayInv, NEW p \in Peers
             PROVE  /\ handleRelayPacket(p) \subseteq {p}
                    /\ cl.channelByAddr[p].number # 0
                           => relayChannelData(cl.channelByAddr[p].number) \subseteq {p}
  BY DEF ChannelsAgree
<1>1. \A c \in alloc[cl.id].channels :
         /\ c.number # 0
         /\ \A q \in Peers : cl.channelByAddr[q].number = c.number => q = c.peer
  BY DEF RelayInv, ChannelInv
<1>2. handleSendIndication(p) \subseteq {p}
  BY DEF handleSendIndication
<1>3. \A c \in alloc[cl.id].channels : c.peer = p => handleChannelData(c.number) \subseteq {p}
  BY <1>1 DEF handleChannelData
<1> QED
  BY <1>1, <1>2, <1>3 DEF handleRelayPacket, relayChannelData

LEMMA RelayChannelLive == RelayInv => ChannelLive
<1> SUFFICES ASSUME RelayInv, NEW p \in Peers, cl.phase = "open", Live(cl.id),
                    cl.channelByAddr[p].number # 0, cl.channelByAddr[p].refreshAt > now
             PROVE  relayChannelData(cl.channelByAddr[p].number) = {p}
  BY DEF ChannelLive
<1>1. relayChannelData(cl.channelByAddr[p].number) \subseteq {p}
  BY RelayChannelsAgree DEF ChannelsAgree
<1>2. \E c \in alloc[cl.id].channels : c.number = cl.channelByAddr[p].number /\ c.peer = p
  BY DEF RelayInv, ChannelInv
<1>3. p \in relayChannelData(cl.channelByAddr[p].number)
  BY <1>2 DEF relayChannelData
<1> QED
  BY <1>1, <1>3

\* A channel number means the same peer to the client and to the server, also while
\* a bind is under way, behind one whose answer was lost and behind a rollback, and
\* a channel used without asking is bound; the queues stay within their bounds.
THEOREM ChannelsAreUsable == Spec => []ChannelsUsable
<1>1. RelayInv => ChannelsUsable
  BY RelayTypes, RelayChannelsAgree, RelayChannelLive DEF ChannelsUsable
<1> QED
  BY <1>1, RelayInvariant, PTL
=============================================================================
