----------------------------- MODULE TurnRelay -----------------------------
(***************************************************************************)
(* A relay: the TURN client of packages/ice/src/turn/protocol.ts and the   *)
(* TURN server of packages/ice-server, with the expiry of allocations,     *)
(* permissions, channel bindings and nonces.                               *)
(*                                                                         *)
(* The clock counts hundreds of seconds. A transaction is over after 6.35  *)
(* seconds (RETRY_RTO, RETRY_MAX), so all that waits for an answer is      *)
(* settled before the clock moves on. The clients run one after the other, *)
(* each from a socket of its own; the server knows them all.               *)
(***************************************************************************)
EXTENDS Naturals, Sequences, FiniteSets

CONSTANTS
    Peers, IpOf,     \* the peers' transport addresses, and the address without the port
    Clients,         \* 1..n: the clients created one after the other
    ClientLifetime,  \* the lifetime the client asks for
    allocationLifetime, permissionLifetime, channelLifetime, maxAllocations,
    channelRefreshTime,
    Scenarios,       \* the settings explored, one of them chosen in Init
    MaxTime,         \* bound on the clock
    MaxSends         \* bound on the calls of sendData that have to wait

ASSUME ConstantsAssumption ==
    /\ IsFiniteSet(Peers)
    /\ IsFiniteSet(Clients) /\ Clients \subseteq Nat /\ 1 \in Clients
    /\ ClientLifetime \in Nat \ {0} /\ allocationLifetime \in Nat \ {0}
    /\ permissionLifetime \in Nat /\ channelLifetime \in Nat
    /\ channelRefreshTime \in 0..channelLifetime
    /\ maxAllocations \in Nat /\ MaxTime \in Nat /\ MaxSends \in Nat
    /\ Scenarios \subseteq [lossy : BOOLEAN, stream : BOOLEAN, password : BOOLEAN, nonceLifetime : Nat]

VARIABLES
    scenario,  \* [lossy, stream, password, nonceLifetime]
    now,
    cl,        \* the present client
    tx,        \* its transaction of each kind
    stage,     \* stage[p]: what the calls of sendData for p wait for
    sends,     \* calls of sendData that had to wait so far
    alloc,     \* alloc[i]: the server's allocation of client i
    sockets    \* the clients whose relay socket is open

vars == <<scenario, now, cl, tx, stage, sends, alloc, sockets>>

Ips == {IpOf[p] : p \in Peers}
Kinds == {"allocate", "refresh", "bind", "permission"}
NoPeer == "none"

Off == [st |-> "off", retried |-> FALSE, nonce |-> 0, peer |-> NoPeer, isNew |-> FALSE]

FreshClient(i) ==
    [id |-> i, phase |-> "new",
     nonce |-> 0,          \* when the nonce expires; 0: no nonce, no key
     exp |-> 0, refreshAt |-> 0,
     channelNumber |-> 1,  \* the next one; 0x4000 is 1
     channelByAddr |-> [p \in Peers |-> [number |-> 0, refreshAt |-> 0]],
     permissionByAddr |-> {},
     bindQueue |-> <<>>, permissionQueue |-> <<>>]

NoAllocation == [st |-> "none", exp |-> 0, permissions |-> [a \in Ips |-> 0], channels |-> {}]

Init ==
    /\ scenario \in Scenarios
    /\ now = 0
    /\ cl = FreshClient(1)
    /\ tx = [k \in Kinds |-> Off]
    /\ stage = [p \in Peers |-> "none"]
    /\ sends = 0
    /\ alloc = [i \in Clients |-> NoAllocation]
    /\ sockets = {}

-----------------------------------------------------------------------------
(* The server. Every entry point runs cleanupExpired first and a timer     *)
(* runs it when nothing comes, so it is part of the step of the clock.     *)

Live(i) == alloc[i].st # "none"

(* Mutant of deleteAllocation: the relay socket stays open.                *)
deleteAllocationOnly(i) ==
    /\ alloc' = [alloc EXCEPT ![i] = NoAllocation]
    /\ UNCHANGED sockets

deleteAllocation(i) ==
    /\ alloc' = [alloc EXCEPT ![i] = NoAllocation]
    /\ sockets' = sockets \ {i}

cleanupExpired(t) ==
    LET expired == {i \in Clients : alloc[i].st = "bound" /\ alloc[i].exp <= t}
    IN  /\ alloc' = [i \in Clients |->
              IF i \in expired THEN NoAllocation
              ELSE [alloc[i] EXCEPT
                      !.permissions = [a \in Ips |-> IF @[a] <= t THEN 0 ELSE @[a]],
                      !.channels = {c \in @ : c.exp > t}]]
        /\ sockets' = sockets \ expired

clampLifetime(requested) ==
    IF requested < allocationLifetime THEN requested ELSE allocationLifetime

Answer(code, a) == [code |-> code, alloc |-> a]
Success == 200

authenticateRequest(t) ==
    CASE t.nonce = 0           -> 401
      [] t.nonce # 0 /\ t.nonce <= now -> 438
      [] t.nonce > now /\ ~scenario.password -> 401
      [] OTHER                 -> Success

setPermission(a, p) == [a EXCEPT !.permissions[IpOf[p]] = now + permissionLifetime]

(* No answer (code 0): the answer comes when the relay socket is bound.    *)
handleAllocateRequest(a) ==
    CASE a.st # "none" -> Answer(437, a)
      [] a.st = "none" /\ Cardinality({i \in Clients : Live(i)}) >= maxAllocations -> Answer(486, a)
      [] OTHER -> Answer(0, [a EXCEPT !.st = "pending"])

handleRefreshRequest(a, requested) ==
    IF a.st = "none" THEN Answer(437, a)
    ELSE Answer(Success, [a EXCEPT !.exp = now + clampLifetime(requested)])

handleCreatePermissionRequest(a, p) ==
    IF a.st = "none" THEN Answer(437, a) ELSE Answer(Success, setPermission(a, p))

(* Mutant of handleChannelBindRequest: a known binding keeps its expiry.   *)
handleChannelBindRequestOnce(a, p, number) ==
    IF a.st = "none" THEN Answer(437, a)
    ELSE IF \E c \in a.channels : (c.number = number) # (c.peer = p) THEN Answer(400, a)
    ELSE IF \E c \in a.channels : c.peer = p THEN Answer(Success, setPermission(a, p))
    ELSE Answer(Success,
                [setPermission(a, p) EXCEPT
                   !.channels = @ \union
                                {[number |-> number, peer |-> p, exp |-> now + channelLifetime]}])

handleChannelBindRequest(a, p, number) ==
    IF a.st = "none" THEN Answer(437, a)
    ELSE IF \E c \in a.channels : (c.number = number) # (c.peer = p) THEN Answer(400, a)
    ELSE Answer(Success,
                [setPermission(a, p) EXCEPT
                   !.channels = {c \in @ : c.peer # p} \union
                                {[number |-> number, peer |-> p, exp |-> now + channelLifetime]}])

handleClientPacket(k) ==
    LET a    == alloc[cl.id]
        t    == tx[k]
        auth == authenticateRequest(t)
    IN  CASE auth # Success -> Answer(auth, a)
          [] auth = Success /\ k = "allocate" -> handleAllocateRequest(a)
          [] auth = Success /\ k = "refresh" -> handleRefreshRequest(a, cl.exp)
          [] auth = Success /\ k = "permission" -> handleCreatePermissionRequest(a, t.peer)
          [] auth = Success /\ k = "bind" ->
               handleChannelBindRequest(a, t.peer, cl.channelByAddr[t.peer].number)

(* Data on its way through the relay changes no state: to whom the server  *)
(* relays ChannelData and Send indications of the client, and as whose the *)
(* client takes what a peer sent to the relay.                             *)
relayChannelData(number) == {c.peer : c \in {c \in alloc[cl.id].channels : c.number = number}}

handleSendIndication(p) == IF alloc[cl.id].permissions[IpOf[p]] > now THEN {p} ELSE {}

handleChannelData(number) == {p \in Peers : cl.channelByAddr[p].number = number}

handleRelayPacket(p) ==
    LET bound == {c \in alloc[cl.id].channels : c.peer = p}
    IN  IF bound # {} THEN UNION {handleChannelData(c.number) : c \in bound}
        ELSE handleSendIndication(p)

-----------------------------------------------------------------------------
(* The client's transactions.                                              *)

(* request(): the attributes are set, then the server's name is looked up. *)
request(k, t, c) == [t EXCEPT ![k].st = "lookup", ![k].nonce = c.nonce]

(* Mutant of resolved: closed is not looked at behind the lookup.          *)
resolvedAnyway(k) ==
    /\ tx[k].st = "lookup"
    /\ tx' = [tx EXCEPT ![k].st = "sent"]
    /\ UNCHANGED <<scenario, now, cl, stage, sends, alloc, sockets>>

(* Behind the lookup no transaction starts on a closed client.             *)
resolved(k) ==
    /\ tx[k].st = "lookup"
    /\ tx' = [tx EXCEPT ![k].st = IF cl.phase = "closed" THEN "cancelled" ELSE "sent"]
    /\ UNCHANGED <<scenario, now, cl, stage, sends, alloc, sockets>>

Remaining(k) == [tx EXCEPT ![k] = Off]

(* Mutant of refreshDelay: the whole lifetime.                             *)
refreshDelayWhole(exp) == exp

refreshDelay(exp) == (5 * exp) \div 6

(* connectionMade and createTurnClient.                                    *)
allocateEnds(ok) ==
    /\ cl' = IF ok THEN [cl EXCEPT !.phase = "open",
                                   !.exp = clampLifetime(ClientLifetime),
                                   !.refreshAt = now + refreshDelay(clampLifetime(ClientLifetime))]
             ELSE [cl EXCEPT !.phase = "closed"]
    /\ tx' = Remaining("allocate")
    /\ UNCHANGED <<stage, sends>>

(* One turn of the refresh loop: after an error it waits as long again.    *)
refreshEnds(ok) ==
    LET exp == IF ok THEN clampLifetime(cl.exp) ELSE cl.exp
    IN  /\ cl' = [cl EXCEPT !.exp = exp, !.refreshAt = now + refreshDelay(exp)]
        /\ tx' = Remaining("refresh")
        /\ UNCHANGED <<stage, sends>>

(* getPermission: a cached permission, an operation to join, or a new one. *)
getPermission(c, p) ==
    IF \/ IpOf[p] \in c.permissionByAddr
       \/ \E i \in DOMAIN c.permissionQueue : IpOf[c.permissionQueue[i]] = IpOf[p]
    THEN c
    ELSE [c EXCEPT !.permissionQueue = Append(@, p)]

(* Mutant of bindEnds: the number of a failed bind is used again.          *)
bindEndsReusing(ok) ==
    LET p == tx["bind"].peer
        c == [cl EXCEPT !.bindQueue = Tail(@)]
    IN  /\ tx' = Remaining("bind")
        /\ UNCHANGED sends
        /\ cl' = IF ok THEN [c EXCEPT !.channelByAddr[p].refreshAt = now + channelRefreshTime]
                 ELSE getPermission(IF tx["bind"].isNew
                                    THEN [c EXCEPT !.channelByAddr[p].number = 0,
                                                   !.channelNumber = @ - 1] ELSE c, p)
        /\ stage' = [stage EXCEPT ![p] = IF ok \/ IpOf[p] \in cl.permissionByAddr
                                         THEN "none" ELSE "permission"]

(* ensureChannel's end: a failed first bind is rolled back, its number is  *)
(* not used again, and sendData falls back to a Send indication.           *)
bindEnds(ok) ==
    LET p == tx["bind"].peer
        c == [cl EXCEPT !.bindQueue = Tail(@)]
    IN  /\ tx' = Remaining("bind")
        /\ UNCHANGED sends
        /\ cl' = IF ok THEN [c EXCEPT !.channelByAddr[p].refreshAt = now + channelRefreshTime]
                 ELSE getPermission(IF tx["bind"].isNew
                                    THEN [c EXCEPT !.channelByAddr[p].number = 0] ELSE c, p)
        /\ stage' = [stage EXCEPT ![p] = IF ok \/ IpOf[p] \in cl.permissionByAddr
                                         THEN "none" ELSE "permission"]

Permitted(address) ==
    [p \in Peers |-> IF IpOf[p] = address /\ stage[p] = "permission" THEN "none" ELSE stage[p]]

(* Mutant of permissionEnds: a rejection stays at the head of the queue.   *)
permissionEndsPoisoned(ok) ==
    LET address == IpOf[tx["permission"].peer]
    IN  /\ cl' = IF ok THEN [cl EXCEPT !.permissionQueue = Tail(@),
                                       !.permissionByAddr = @ \union {address}] ELSE cl
        /\ stage' = Permitted(address)
        /\ tx' = Remaining("permission")
        /\ UNCHANGED sends

permissionEnds(ok) ==
    LET address == IpOf[tx["permission"].peer]
    IN  /\ cl' = [cl EXCEPT !.permissionQueue = Tail(@),
                            !.permissionByAddr = IF ok THEN @ \union {address} ELSE @]
        /\ stage' = Permitted(address)
        /\ tx' = Remaining("permission")
        /\ UNCHANGED sends

Ends(k, ok) ==
    \/ k = "allocate" /\ allocateEnds(ok)
    \/ k = "refresh" /\ refreshEnds(ok)
    \/ k = "bind" /\ bindEnds(ok)
    \/ k = "permission" /\ permissionEnds(ok)

(* requestWithRetry: a challenge is answered once, with the nonce it names.*)
retry(k) ==
    LET c == [cl EXCEPT !.nonce = now + scenario.nonceLifetime]
    IN  /\ cl' = c
        /\ tx' = request(k, [tx EXCEPT ![k].retried = TRUE], c)
        /\ UNCHANGED <<stage, sends>>

(* handleSTUNMessage: once the client has a key it drops every answer that *)
(* is not signed, and the server signs neither 401 nor 438.                *)
Heard(k, code) == tx[k].nonce = 0 \/ code \notin {401, 438}

responseReceived(k, code) ==
    \/ Heard(k, code) /\ code = Success /\ Ends(k, TRUE)
    \/ Heard(k, code) /\ code = 401 /\ retry(k)
    \/ Heard(k, code) /\ code \notin {Success, 401} /\ Ends(k, FALSE)
    \/ ~Heard(k, code) /\ tx' = [tx EXCEPT ![k].st = "unheard"] /\ UNCHANGED <<cl, stage, sends>>

(* A request reaches the server, the first time or repeated, and its       *)
(* answer reaches the client or, over UDP, is lost.                        *)
deliver(k) ==
    LET answer == handleClientPacket(k)
    IN  /\ tx[k].st \in {"sent", "unheard"}
        /\ alloc' = [alloc EXCEPT ![cl.id] = answer.alloc]
        /\ sockets' = IF answer.alloc.st = "pending" THEN sockets \union {cl.id} ELSE sockets
        /\ IF answer.code = 0 THEN UNCHANGED <<cl, tx, stage, sends>>
           ELSE responseReceived(k, answer.code)
        /\ UNCHANGED <<scenario, now>>

deliverUnanswered(k) ==
    LET answer == handleClientPacket(k)
    IN  /\ tx[k].st \in {"sent", "unheard"} /\ ~scenario.stream
        /\ alloc' = [alloc EXCEPT ![cl.id] = answer.alloc]
        /\ sockets' = IF answer.alloc.st = "pending" THEN sockets \union {cl.id} ELSE sockets
        /\ UNCHANGED <<scenario, now, cl, tx, stage, sends>>

(* Transaction.retry gives up, or cancel() ended the transaction.          *)
transactionFails(k) ==
    /\ \/ tx[k].st \in {"unheard", "cancelled"}
       \/ tx[k].st = "sent" /\ scenario.lossy
    /\ Ends(k, FALSE)
    /\ UNCHANGED <<scenario, now, alloc, sockets>>

-----------------------------------------------------------------------------
(* Binding of the relay socket, and the answer to the Allocate request.    *)

Waiting(i) == i = cl.id /\ tx["allocate"].st = "sent"

handleRelayBound(i, heard) ==
    /\ alloc[i].st = "pending" /\ i \in sockets
    /\ alloc' = [alloc EXCEPT ![i].st = "bound", ![i].exp = now + clampLifetime(ClientLifetime)]
    /\ IF heard THEN Waiting(i) /\ allocateEnds(TRUE)
       ELSE (scenario.stream => ~Waiting(i)) /\ UNCHANGED <<cl, tx, stage, sends>>
    /\ UNCHANGED <<scenario, now, sockets>>

(* This answer is not lost: the repeated request would only start over.    *)
handleRelayBindFailure(i) ==
    /\ alloc[i].st = "pending" /\ i \in sockets
    /\ deleteAllocation(i)
    /\ IF Waiting(i) THEN allocateEnds(FALSE) ELSE UNCHANGED <<cl, tx, stage, sends>>
    /\ UNCHANGED <<scenario, now>>

(* Only a stream tells the server that its client is gone.                 *)
Gone(i) == scenario.stream /\ Live(i) /\ (i < cl.id \/ cl.phase = "closed")

handleClientClosed(i) ==
    /\ Gone(i)
    /\ deleteAllocation(i)
    /\ UNCHANGED <<scenario, now, cl, tx, stage, sends>>

-----------------------------------------------------------------------------
(* The client's operations.                                                *)

connectionMade ==
    /\ cl.phase = "new"
    /\ cl' = [cl EXCEPT !.phase = "allocating"]
    /\ tx' = request("allocate", tx, cl)
    /\ UNCHANGED <<scenario, now, stage, sends, alloc, sockets>>

RefreshDue == cl.phase = "open" /\ cl.refreshAt <= now /\ tx["refresh"].st = "off"

refresh ==
    /\ RefreshDue
    /\ tx' = request("refresh", tx, cl)
    /\ UNCHANGED <<scenario, now, cl, stage, sends, alloc, sockets>>

(* sendData without a usable channel: further calls for the same peer wait *)
(* for the same operation.                                                 *)
sendData(p) ==
    /\ cl.phase = "open" /\ stage[p] = "none" /\ sends < MaxSends
    /\ cl.channelByAddr[p].number = 0 \/ cl.channelByAddr[p].refreshAt <= now
    /\ cl' = [cl EXCEPT !.bindQueue = Append(@, p)]
    /\ stage' = [stage EXCEPT ![p] = "channel"]
    /\ sends' = sends + 1
    /\ UNCHANGED <<scenario, now, tx, alloc, sockets>>

(* The head of channelBindQueue.                                           *)
ensureChannel ==
    /\ cl.bindQueue # <<>> /\ tx["bind"].st = "off"
    /\ LET p     == Head(cl.bindQueue)
           isNew == cl.channelByAddr[p].number = 0
           c     == IF isNew THEN [cl EXCEPT !.channelByAddr[p] = [number |-> cl.channelNumber, refreshAt |-> 0],
                                             !.channelNumber = @ + 1]
                    ELSE cl
       IN  /\ cl' = c
           /\ tx' = request("bind", [tx EXCEPT !["bind"] = [Off EXCEPT !.peer = p, !.isNew = isNew]], c)
    /\ UNCHANGED <<scenario, now, stage, sends, alloc, sockets>>

(* The head of permissionQueue.                                            *)
createPermission ==
    /\ cl.permissionQueue # <<>> /\ tx["permission"].st = "off"
    /\ tx' = request("permission",
                     [tx EXCEPT !["permission"] = [Off EXCEPT !.peer = Head(cl.permissionQueue)]], cl)
    /\ UNCHANGED <<scenario, now, cl, stage, sends, alloc, sockets>>

close ==
    /\ cl.phase \in {"allocating", "open"}
    /\ cl' = [cl EXCEPT !.phase = "closed"]
    /\ tx' = [k \in Kinds |-> IF tx[k].st \in {"sent", "unheard"}
                              THEN [tx[k] EXCEPT !.st = "cancelled"] ELSE tx[k]]
    /\ UNCHANGED <<scenario, now, stage, sends, alloc, sockets>>

Settled ==
    /\ \A k \in Kinds : tx[k].st = "off"
    /\ cl.bindQueue = <<>> /\ cl.permissionQueue = <<>>
    /\ \A p \in Peers : stage[p] = "none"

createTurnClient ==
    /\ cl.phase = "closed" /\ Settled /\ cl.id + 1 \in Clients
    /\ cl' = FreshClient(cl.id + 1)
    /\ UNCHANGED <<scenario, now, tx, stage, sends, alloc, sockets>>

tick ==
    /\ now < MaxTime
    /\ Settled /\ ~RefreshDue
    /\ \A i \in Clients : alloc[i].st # "pending" /\ ~Gone(i)
    /\ now' = now + 1
    /\ cleanupExpired(now')
    /\ UNCHANGED <<scenario, cl, tx, stage, sends>>

-----------------------------------------------------------------------------
Progress ==
    \/ \E k \in Kinds : resolved(k) \/ deliver(k) \/ transactionFails(k)
    \/ \E i \in Clients : handleRelayBound(i, TRUE) \/ handleClientClosed(i)
    \/ ensureChannel \/ createPermission

Next ==
    \/ Progress
    \/ \E k \in Kinds : deliverUnanswered(k)
    \/ \E i \in Clients : handleRelayBound(i, FALSE) \/ handleRelayBindFailure(i)
    \/ \E p \in Peers : sendData(p)
    \/ connectionMade \/ refresh \/ close \/ createTurnClient \/ tick

Spec == Init /\ [][Next]_vars

(* Weak fairness of Progress, with its guard written out: sockets are      *)
(* read, retransmission timers run and promises are resolved.              *)
Due == ~Settled \/ \E i \in Clients : Gone(i)

FairSpec == Spec /\ ([]<>~Due \/ []<><<Progress>>_vars)

-----------------------------------------------------------------------------
(* The type invariant; a queue holds one operation for each key.           *)
TypeOK ==
    /\ now \in 0..MaxTime /\ sends \in 0..MaxSends
    /\ sockets \subseteq Clients
    /\ cl.phase \in {"new", "allocating", "open", "closed"} /\ cl.id \in Clients
    /\ cl.channelNumber \in 1..MaxSends + 1
    /\ \A k \in Kinds : tx[k].st \in {"off", "lookup", "sent", "unheard", "cancelled"}
    /\ \A p \in Peers : stage[p] \in {"none", "channel", "permission"}
    /\ \A i \in Clients : alloc[i].st \in {"none", "pending", "bound"}
    /\ Len(cl.permissionQueue) <= Cardinality(Ips) /\ Len(cl.bindQueue) <= Cardinality(Peers)

(* A channel number means the same peer on both sides, also while a bind   *)
(* is under way, after one whose answer was lost, and after a rollback:    *)
(* otherwise what one peer sends is handed to ICE as coming from another.  *)
ChannelsAgree ==
    \A p \in Peers : /\ handleRelayPacket(p) \subseteq {p}
                     /\ cl.channelByAddr[p].number # 0
                            => relayChannelData(cl.channelByAddr[p].number) \subseteq {p}

(* A channel the client uses without asking is bound on the server, as     *)
(* long as the allocation is there: the server drops ChannelData of an     *)
(* unbound number and nobody is told.                                      *)
ChannelLive ==
    \A p \in Peers : LET own == cl.channelByAddr[p]
        IN  cl.phase = "open" /\ Live(cl.id) /\ own.number # 0 /\ own.refreshAt > now
                => relayChannelData(own.number) = {p}

NonceHeld == cl.nonce > now

(* The refresh loop keeps the allocation of an open client as long as no   *)
(* transaction times out and the first nonce has not expired.              *)
AllocationKept ==
    cl.phase = "open" /\ ~scenario.lossy /\ NonceHeld => alloc[cl.id].st = "bound"

(* Relay sockets and allocations come and go together, whether an          *)
(* allocation expires, its client disconnects while the socket is being    *)
(* bound, or binding fails; there are never more than the quota.           *)
RelayOwned ==
    sockets = {i \in Clients : Live(i)} /\ Cardinality(sockets) <= maxAllocations

(* A closed client sends no request any more, also when close() came       *)
(* during the lookup of the server's name or between two attempts.         *)
ClosedQuiet ==
    cl.phase = "closed" => \A k \in Kinds : tx[k].st \notin {"sent", "unheard"}

(* Whatever is lost, refused or closed, every operation ends and neither   *)
(* queue stays blocked by an operation that failed; a server forgets a     *)
(* client whose stream is gone.                                            *)
OperationsEnd == <>[]~Due

(* "Use requestWithRetry for stale-nonce (438)" (turn/protocol.ts:516): an *)
(* allocation outlives its first nonce.                                    *)
StaleNonceRetried ==
    cl.phase = "open" /\ ~scenario.lossy => alloc[cl.id].st = "bound"

(* Channels mean the same on both sides and work while they are used.      *)
ChannelsUsable == TypeOK /\ ChannelsAgree /\ ChannelLive

(* The relay is there as long as its client, and no longer.                *)
RelayKept == AllocationKept /\ RelayOwned
=============================================================================
