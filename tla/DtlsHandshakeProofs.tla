------------------------- MODULE DtlsHandshakeProofs -------------------------
(* Proofs about DtlsHandshake for every number of retransmissions, losses,   *)
(* copies and overtaking datagrams.                                          *)
EXTENDS DtlsHandshake, Integers, SequenceTheorems, TLAPS

-----------------------------------------------------------------------------
(* Sequences of messages.                                                    *)

IsSeq(q) == \E S : q \in Seq(S)

LEMMA SeqFacts ==
    ASSUME NEW q, IsSeq(q)
    PROVE  /\ Len(q) \in Nat /\ DOMAIN q = 1..Len(q)
           /\ \A m : m \in Range(q) <=> \E i \in 1..Len(q) : m = q[i]
<1>1. PICK S : q \in Seq(S)
  BY DEF IsSeq
<1> QED
  BY <1>1 DEF Range

LEMMA AppendSeq ==
    ASSUME NEW q, IsSeq(q), NEW m
    PROVE  IsSeq(Append(q, m)) /\ Range(Append(q, m)) = Range(q) \union {m}
<1>1. PICK S : q \in Seq(S)
  BY DEF IsSeq
<1>2. q \in Seq(S \union {m})
  BY <1>1
<1> DEFINE a == Append(q, m)
           n == Len(q)
<1>3. /\ a \in Seq(S \union {m}) /\ Len(a) = n + 1 /\ a[n + 1] = m
      /\ \A i \in 1..n : a[i] = q[i]
  BY <1>2, AppendProperties
<1>4. n \in Nat /\ DOMAIN q = 1..n /\ DOMAIN a = 1..n + 1
  BY <1>1, <1>3
<1> HIDE DEF a, n
<1>5. \A i \in 1..n + 1 : i \in 1..n \/ i = n + 1
  BY <1>4
<1>6. n + 1 \in 1..n + 1 /\ \A i \in 1..n : i \in 1..n + 1
  BY <1>4
<1>7. Range(a) = Range(q) \union {m}
  BY <1>3, <1>4, <1>5, <1>6 DEF Range
<1> QED
  BY <1>3, <1>7 DEF IsSeq, a

LEMMA ConcatSeq ==
    ASSUME NEW a, IsSeq(a), NEW b, IsSeq(b)
    PROVE  /\ IsSeq(a \o b) /\ Len(a \o b) = Len(a) + Len(b)
           /\ \A i \in 1..Len(a) + Len(b) :
                 (a \o b)[i] = IF i <= Len(a) THEN a[i] ELSE b[i - Len(a)]
           /\ \A m \in Range(a \o b) : m \in Range(a) \/ m \in Range(b)
<1>1. PICK S : a \in Seq(S)
  BY DEF IsSeq
<1>2. PICK T : b \in Seq(T)
  BY DEF IsSeq
<1>3. a \in Seq(S \union T) /\ b \in Seq(S \union T)
  BY <1>1, <1>2
<1> DEFINE d == a \o b
           n == Len(a)
           k == Len(b)
<1>4. /\ d \in Seq(S \union T) /\ Len(d) = n + k
      /\ \A i \in 1..n + k : d[i] = IF i <= n THEN a[i] ELSE b[i - n]
  BY <1>3, ConcatProperties
<1>5. n \in Nat /\ k \in Nat /\ DOMAIN a = 1..n /\ DOMAIN b = 1..k /\ DOMAIN d = 1..n + k
  BY <1>1, <1>2, <1>4
<1> HIDE DEF d, n, k
<1>6. \A i \in 1..n + k : (i <= n => i \in 1..n) /\ (~(i <= n) => i - n \in 1..k)
  BY <1>5
<1>7. \A m \in Range(d) : m \in Range(a) \/ m \in Range(b)
  BY <1>4, <1>5, <1>6 DEF Range
<1> QED
  BY <1>4, <1>7 DEF IsSeq, d, n, k

LEMMA RemoveSeq ==
    ASSUME NEW q, IsSeq(q), NEW i \in DOMAIN q
    PROVE  /\ IsSeq(RemoveAt(q, i)) /\ Len(RemoveAt(q, i)) = Len(q) - 1
           /\ \A k \in 1..Len(q) - 1 : RemoveAt(q, i)[k] = q[IF k < i THEN k ELSE k + 1]
           /\ \A m \in Range(RemoveAt(q, i)) : m \in Range(q)
<1>1. PICK S : q \in Seq(S)
  BY DEF IsSeq
<1> DEFINE n == Len(q)
           a == SubSeq(q, 1, i - 1)
           b == SubSeq(q, i + 1, n)
           d == RemoveAt(q, i)
<1>2. n \in Nat /\ DOMAIN q = 1..n /\ i \in 1..n
  BY <1>1
<1>3. /\ a \in Seq(S) /\ Len(a) = i - 1 /\ \A k \in 1..i - 1 : a[k] = q[k]
  <2>1. /\ a \in Seq(S) /\ Len(a) = (IF 1 <= i - 1 THEN i - 1 - 1 + 1 ELSE 0)
        /\ \A k \in 1..i - 1 - 1 + 1 : a[k] = q[1 + k - 1]
    <3>1. 1 \in 1..n + 1 /\ i - 1 \in 1 - 1..n
      BY <1>2
    <3> QED
      BY <1>1, <3>1, SubSeqProperties
  <2> HIDE DEF a, n
  <2>2. (IF 1 <= i - 1 THEN i - 1 - 1 + 1 ELSE 0) = i - 1 /\ i - 1 - 1 + 1 = i - 1
    BY <1>2
  <2>3. \A k \in 1..i - 1 : 1 + k - 1 = k
    BY <1>2
  <2> QED
    BY <2>1, <2>2, <2>3
<1>4. /\ b \in Seq(S) /\ Len(b) = n - i /\ \A k \in 1..n - i : b[k] = q[i + k]
  <2>1. /\ b \in Seq(S) /\ Len(b) = (IF i + 1 <= n THEN n - (i + 1) + 1 ELSE 0)
        /\ \A k \in 1..n - (i + 1) + 1 : b[k] = q[i + 1 + k - 1]
    <3>1. i + 1 \in 1..n + 1 /\ n \in i + 1 - 1..n
      BY <1>2
    <3> QED
      BY <1>1, <3>1, SubSeqProperties
  <2> HIDE DEF b, n
  <2>2. (IF i + 1 <= n THEN n - (i + 1) + 1 ELSE 0) = n - i /\ n - (i + 1) + 1 = n - i
    BY <1>2
  <2>3. \A k \in 1..n - i : i + 1 + k - 1 = i + k
    BY <1>2
  <2> QED
    BY <2>1, <2>2, <2>3
<1>5. d = a \o b
  BY DEF RemoveAt
<1> HIDE DEF a, b, d, n
<1>6. /\ d \in Seq(S) /\ Len(d) = Len(a) + Len(b)
      /\ \A k \in 1..Len(a) + Len(b) : d[k] = IF k <= Len(a) THEN a[k] ELSE b[k - Len(a)]
  BY <1>3, <1>4, <1>5, ConcatProperties
<1>7. Len(d) = n - 1 /\ Len(a) + Len(b) = n - 1
  BY <1>2, <1>3, <1>4, <1>6
<1>8. ASSUME NEW k \in 1..n - 1
      PROVE  d[k] = q[IF k < i THEN k ELSE k + 1] /\ (IF k < i THEN k ELSE k + 1) \in 1..n
  <2>1. CASE k < i
    <3>1. k \in 1..i - 1 /\ k <= i - 1 /\ k \in 1..n
      BY <1>2, <2>1
    <3> QED
      BY <1>3, <1>6, <1>7, <2>1, <3>1
  <2>2. CASE ~(k < i)
    <3>1. k - (i - 1) \in 1..n - i /\ ~(k <= i - 1) /\ i + (k - (i - 1)) = k + 1 /\ k + 1 \in 1..n
      BY <1>2, <2>2
    <3> QED
      BY <1>3, <1>4, <1>6, <1>7, <2>2, <3>1
  <2> QED
    BY <2>1, <2>2
<1>9. DOMAIN d = 1..n - 1
  BY <1>6, <1>7
<1>10. \A m \in Range(d) : m \in Range(q)
  BY <1>2, <1>8, <1>9 DEF Range
<1> QED
  BY <1>6, <1>7, <1>8, <1>10 DEF IsSeq, d, n

LEMMA InSeq ==
    ASSUME NEW q, NEW S, q \in Seq(S)
    PROVE  IsSeq(q)
BY DEF IsSeq

LEMMA NoSeq == IsSeq(<<>>) /\ Range(<<>>) = {}
<1>1. <<>> \in Seq({}) /\ Range(<<>>) = {}
  BY DEF Range
<1> QED
  BY <1>1, InSeq

LEMMA OneSeq ==
    ASSUME NEW a
    PROVE  IsSeq(<<a>>) /\ Range(<<a>>) = {a}
<1>1. <<a>> \in Seq({a}) /\ Range(<<a>>) = {a}
  BY DEF Range
<1> QED
  BY <1>1, InSeq

LEMMA TwoSeq ==
    ASSUME NEW a, NEW b
    PROVE  IsSeq(<<a, b>>) /\ Range(<<a, b>>) = {a, b}
<1>1. <<a, b>> \in Seq({a, b}) /\ Range(<<a, b>>) = {a, b}
  BY DEF Range
<1> QED
  BY <1>1, InSeq

LEMMA FourSeq ==
    ASSUME NEW a, NEW b, NEW c, NEW d
    PROVE  IsSeq(<<a, b, c, d>>) /\ Range(<<a, b, c, d>>) = {a, b, c, d}
<1>1. <<a, b, c, d>> \in Seq({a, b, c, d}) /\ Range(<<a, b, c, d>>) = {a, b, c, d}
  BY DEF Range
<1> QED
  BY <1>1, InSeq

LEMMA FiveSeq ==
    ASSUME NEW a, NEW b, NEW c, NEW d, NEW e
    PROVE  IsSeq(<<a, b, c, d, e>>) /\ Range(<<a, b, c, d, e>>) = {a, b, c, d, e}
<1>1. <<a, b, c, d, e>> \in Seq({a, b, c, d, e}) /\ Range(<<a, b, c, d, e>>) = {a, b, c, d, e}
  BY DEF Range
<1> QED
  BY <1>1, InSeq

-----------------------------------------------------------------------------
(* The inductive invariant of the secrets, of the client's socket c and the  *)
(* server's socket v.                                                        *)

ClientKinds == {"HelloVerifyRequest", "ServerHello", "ServerCertificate", "ServerKeyExchange",
                "CertificateRequest", "ServerHelloDone", "ServerFinished"}
ServerKinds == {"ClientHello", "ClientHelloCookie", "ClientCertificate", "ClientKeyExchange",
                "CertificateVerify", "ClientFinished", "Malformed"}

SocketFields ==
    {"flight", "connected", "cache", "cookie", "pair", "peerPair", "peerRandom", "requested",
     "peerCert", "key", "ready", "lastMessage", "waiting", "loops", "open", "state", "srtp",
     "connects", "failures"}

InCache(kind, s) == \E c \in s.cache : c.kind = kind

\* A message to the client: cookies count the connections of the server, which
\* answers with one Finished only, once it is connected.
ToClient(m, v) ==
    /\ m.kind \in ClientKinds
    /\ m.kind = "HelloVerifyRequest" => \E n \in 0..v.connects : m.val = <<n>>
    /\ m.kind = "ServerFinished" =>
          v.connects > 0 /\ m.val # None /\ (v.srtp # None => m.val = v.srtp)

\* A message to the server: the client answers one cookie, of the first connection.
ToServer(m, c) ==
    /\ m.kind \in ServerKinds
    /\ m.kind = "ClientHelloCookie" => m.val = <<0>> /\ c.flight >= 3

\* What a socket may send again.
Own(s, m) == m \in Range(s.lastMessage) \/ \E l \in s.loops : m \in Range(l.messages)

SocketInv(s) ==
    /\ DOMAIN s = SocketFields
    /\ s.connects \in Nat /\ s.connected \in BOOLEAN
    /\ s.state \in {"new", "connecting", "connected", "failed", "closed"}
    /\ IsSeq(s.lastMessage) /\ IsSeq(s.waiting)
    /\ \A l \in s.loops : /\ DOMAIN l = {"flight", "next", "messages", "sent"}
                          /\ l.sent \in 1..RetransmitCount + 1 /\ IsSeq(l.messages)
    /\ \A m \in s.cache : m.kind \in Kinds

ClientInv(c, v) ==
    /\ SocketInv(c) /\ c.flight \in {0, 1, 3, 5, 7}
    /\ \A m : Own(c, m) => ToServer(m, c)
    /\ \A m \in Range(c.waiting) :
          m.kind \in {"ServerCertificate", "ServerKeyExchange", "CertificateRequest", "ServerHelloDone"}
    /\ InCache("ServerCertificate", c) \/ c.key # None => c.peerCert
    /\ c.connects > 0 => c.peerCert /\ v.connects > 0
    /\ c.srtp # None => v.connects > 0 /\ (v.srtp # None => c.srtp = v.srtp)

\* A server that connected once and dropped its session does not connect again:
\* no hello of the client carries its new cookie.
ServerInv(v, c) ==
    /\ SocketInv(v) /\ v.flight \in {0, 2, 4, 6}
    /\ \A m : Own(v, m) => ToClient(m, v)
    /\ \A m \in Range(v.waiting) : m.kind = "ClientFinished"
    /\ v.cookie = None \/ \E n \in 0..v.connects : v.cookie = <<n>>
    /\ v.connects = 0 => ~v.connected /\ v.srtp = None
    /\ v.connects > 0 \/ InCache("ServerCertificate", v) => c.flight >= 3
    /\ v.connects > 0 /\ ~v.connected =>
          ~InCache("ServerCertificate", v) /\ v.cookie # <<0>>
    /\ v.flight = 6 <=> v.connected
    /\ InCache("ClientKeyExchange", v) => v.key # None

NetInv(q, late, c, v) ==
    /\ DOMAIN q = Peers /\ \A p \in Peers : IsSeq(q[p])
    /\ \A m \in Range(q["client"]) : ToClient(m, v)
    /\ \A m \in Range(q["server"]) : ToServer(m, c)
    /\ \A h \in late : /\ h[1] \in Peers
                       /\ h[1] = "client" => ToClient(h[2], v)
                       /\ h[1] = "server" => ToServer(h[2], c)

\* Nothing happens before the client starts.
StartInv(q, late, c, v) ==
    /\ c.state = "new" <=> c.flight = 0
    /\ c.state = "new" =>
          /\ late = {} /\ \A p \in Peers : q[p] = <<>>
          /\ \A s \in {c, v} : s.waiting = <<>> /\ s.loops = {}

SecretInv ==
    /\ scenario \in Scenarios
    /\ losses \in 0..scenario.losses /\ copies \in 0..scenario.copies
    /\ overtakes \in 0..scenario.overtakes
    /\ DOMAIN sock = Peers
    /\ ClientInv(sock["client"], sock["server"]) /\ ServerInv(sock["server"], sock["client"])
    /\ NetInv(net, held, sock["client"], sock["server"])
    /\ StartInv(net, held, sock["client"], sock["server"])

-----------------------------------------------------------------------------
(* A socket moves on.                                                        *)

\* d differs from s in the fields F.
Changed(s, d, F) == DOMAIN d = SocketFields /\ \A f \in SocketFields \ F : d[f] = s[f]

\* A socket that fails.
LEMMA FailFields ==
    ASSUME NEW s, SocketInv(s)
    PROVE  /\ Changed(s, Fail(s), {"state", "failures"}) /\ Fail(s).state = "failed"
           /\ SocketInv(Fail(s))
<1> DEFINE d == Fail(s)
<1>1. Changed(s, d, {"state", "failures"}) /\ d.state = "failed"
  BY DEF Fail, SocketInv, SocketFields, Changed
<1> HIDE DEF d
<1>2. /\ d.connects = s.connects /\ d.connected = s.connected /\ d.lastMessage = s.lastMessage
      /\ d.waiting = s.waiting /\ d.loops = s.loops /\ d.cache = s.cache
  BY <1>1 DEF Changed, SocketFields
<1>3. SocketInv(d)
  BY <1>1, <1>2 DEF SocketInv, Changed
<1> QED
  BY <1>1, <1>3 DEF d

\* What the client may do: it keeps its part of the invariant and sends what the
\* server may receive.
ClientStep(c, r, v) ==
    /\ ClientInv(r.socket, v) /\ IsSeq(r.out)
    /\ \A m \in Range(r.out) : ToServer(m, r.socket)
    /\ c.flight >= 3 => r.socket.flight >= 3
    /\ r.socket.flight # 0 /\ r.socket.state # "new"

\* The fields the client's part of the invariant is about.
ClientFields == {"flight", "connected", "cache", "peerCert", "key", "lastMessage", "waiting",
                 "loops", "state", "srtp", "connects"}

LEMMA ClientFrame ==
    ASSUME NEW c, NEW d, NEW v, NEW F, ClientInv(c, v), Changed(c, d, F),
           F \cap ClientFields \subseteq {"state"}, d.state \in {"new", "connecting", "connected", "failed", "closed"}
    PROVE  ClientInv(d, v)
<1>1. \A f \in ClientFields \ {"state"} : d[f] = c[f]
  BY DEF Changed, ClientFields, SocketFields
<1>2. /\ d.flight = c.flight /\ d.connected = c.connected /\ d.cache = c.cache
      /\ d.peerCert = c.peerCert /\ d.key = c.key /\ d.lastMessage = c.lastMessage
      /\ d.waiting = c.waiting /\ d.loops = c.loops /\ d.srtp = c.srtp /\ d.connects = c.connects
  BY <1>1 DEF ClientFields
<1>3. SocketInv(d)
  BY <1>2 DEF SocketInv, ClientInv, Changed
<1>4. \A m : Own(d, m) => ToServer(m, d)
  BY <1>2 DEF Own, ToServer, ClientInv
<1>5. InCache("ServerCertificate", d) \/ d.key # None => d.peerCert
  BY <1>2 DEF InCache, ClientInv
<1> QED
  BY <1>2, <1>3, <1>4, <1>5 DEF ClientInv

LEMMA KeepClient ==
    ASSUME NEW c, NEW d, NEW v, ClientInv(d, v), d.flight # 0, d.state # "new",
           c.flight >= 3 => d.flight >= 3
    PROVE  ClientStep(c, Keep(d), v)
BY NoSeq DEF ClientStep, Keep, Send

LEMMA FailClient ==
    ASSUME NEW c, NEW v, ClientInv(c, v), c.flight # 0
    PROVE  ClientStep(c, Keep(Fail(c)), v)
<1> DEFINE d == Fail(c)
<1>1. Changed(c, d, {"state", "failures"}) /\ d.state = "failed"
  BY FailFields DEF ClientInv
<1> HIDE DEF d
<1>2. ClientInv(d, v)
  BY <1>1, ClientFrame DEF ClientFields
<1>3. d.flight = c.flight
  BY <1>1 DEF Changed, SocketFields
<1>4. ClientStep(c, Keep(d), v)
  BY <1>1, <1>2, <1>3, KeepClient
<1> QED
  BY <1>4 DEF d

\* A message of flight 4 is put into the transcript.
LEMMA ReceivedInv ==
    ASSUME NEW c, NEW v, NEW m, ClientInv(c, v), m.kind \in ClientKinds
    PROVE  LET d == Flight4Received(c, m)
           IN  ClientInv(d, v) /\ d.flight = c.flight /\ d.state = c.state /\ d.ready = c.ready
<1> DEFINE d == Flight4Received(c, m)
           b == bufferHandshakeCache(c.cache, m)
           F == {"cache", "peerRandom", "peerCert", "peerPair", "pair", "requested"}
<1>0. DOMAIN c = SocketFields
  BY DEF ClientInv, SocketInv
<1>1. Changed(c, d, F) /\ d.cache = b
  BY <1>0 DEF Flight4Received, SocketFields, Changed
<1>2. d.peerCert = c.peerCert \/ d.peerCert = TRUE
  BY <1>0 DEF Flight4Received, SocketFields
<1>3. m.kind = "ServerCertificate" => d.peerCert
  BY <1>0 DEF Flight4Received, SocketFields
<1>4. \A k \in b : k \in c.cache \/ k = m
  BY DEF bufferHandshakeCache
<1> HIDE DEF d, b
<1>5. /\ d.flight = c.flight /\ d.connected = c.connected /\ d.key = c.key
      /\ d.lastMessage = c.lastMessage /\ d.waiting = c.waiting /\ d.loops = c.loops
      /\ d.srtp = c.srtp /\ d.connects = c.connects /\ d.state = c.state /\ d.ready = c.ready
  BY <1>1 DEF Changed, SocketFields
<1>6. SocketInv(d)
  <2>1. m.kind \in Kinds
    BY DEF ClientKinds, Kinds
  <2>2. \A k \in d.cache : k.kind \in Kinds
    BY <1>1, <1>4, <2>1 DEF ClientInv, SocketInv
  <2> QED
    BY <1>1, <1>5, <2>2 DEF SocketInv, ClientInv, Changed
<1>7. \A k : Own(d, k) => ToServer(k, d)
  BY <1>5 DEF Own, ToServer, ClientInv
<1>8. c.peerCert => d.peerCert
  BY <1>2
<1>9. InCache("ServerCertificate", d) \/ d.key # None => d.peerCert
  BY <1>1, <1>3, <1>4, <1>5, <1>8 DEF InCache, ClientInv
<1>10. ClientInv(d, v)
  BY <1>5, <1>6, <1>7, <1>8, <1>9 DEF ClientInv
<1> QED
  BY <1>5, <1>10 DEF d

LEMMA LoopFields ==
    ASSUME RetransmitCount \in Nat, NEW f, NEW n, NEW q, IsSeq(q)
    PROVE  LET l == Loop(f, n, q)
           IN  /\ DOMAIN l = {"flight", "next", "messages", "sent"}
               /\ l.sent \in 1..RetransmitCount + 1 /\ l.messages = q /\ IsSeq(l.messages)
               /\ l.next = n
BY DEF Loop

LEMMA Flight3Step ==
    ASSUME RetransmitCount \in Nat, NEW c, NEW v, NEW m, ClientInv(c, v), c.flight # 0,
           c.state # "new", v.connects \in Nat, v.connects > 0 => c.flight >= 3,
           \E n \in 0..v.connects : m.val = <<n>>
    PROVE  ClientStep(c, Flight3(c, m), v)
<1>1. CASE c.flight = 3
  BY <1>1, FailClient DEF Flight3
<1>2. CASE c.flight # 3
  <2> DEFINE hello == IF c.flight = 1 THEN Msg("ClientHelloCookie", m.val)
                      ELSE Msg("Malformed", None)
             l == Loop(3, 5, <<hello>>)
             d == [c EXCEPT !.flight = 3, !.cookie = m.val, !.cache = {hello},
                            !.loops = @ \union {l}]
  <2>1. Flight3(c, m) = Send(d, <<hello>>)
    BY <1>2 DEF Flight3
  <2>2. c.flight = 1 => m.val = <<0>>
    <3>1. c.flight = 1 => v.connects = 0
      OBVIOUS
    <3> QED
      BY <3>1
  <2>3. /\ hello.kind \in {"ClientHelloCookie", "Malformed"}
        /\ hello.kind = "ClientHelloCookie" => hello.val = <<0>>
    BY <2>2 DEF Msg
  <2> HIDE DEF hello
  <2>4. IsSeq(<<hello>>) /\ Range(<<hello>>) = {hello}
    BY OneSeq
  <2>5. /\ DOMAIN l = {"flight", "next", "messages", "sent"}
        /\ l.sent \in 1..RetransmitCount + 1 /\ l.messages = <<hello>> /\ IsSeq(l.messages)
    BY <2>4, LoopFields
  <2> HIDE DEF l
  <2>6. /\ Changed(c, d, {"flight", "cookie", "cache", "loops"})
        /\ d.flight = 3 /\ d.cache = {hello} /\ d.loops = c.loops \union {l}
    BY DEF ClientInv, SocketInv, SocketFields, Changed
  <2> HIDE DEF d
  <2>7. /\ d.connected = c.connected /\ d.key = c.key /\ d.peerCert = c.peerCert
        /\ d.lastMessage = c.lastMessage /\ d.waiting = c.waiting
        /\ d.srtp = c.srtp /\ d.connects = c.connects /\ d.state = c.state
    BY <2>6 DEF Changed, SocketFields
  <2>8. SocketInv(d)
    <3>1. hello.kind \in Kinds
      BY <2>3 DEF Kinds
    <3> QED
      BY <2>5, <2>6, <2>7, <3>1 DEF SocketInv, ClientInv, Changed
  <2>9. ToServer(hello, d)
    BY <2>3, <2>6 DEF ToServer, ServerKinds
  <2>10. \A k : Own(d, k) => ToServer(k, d)
    <3>1. \A k : Own(d, k) => Own(c, k) \/ k = hello
      BY <2>4, <2>5, <2>6, <2>7 DEF Own
    <3>2. \A k : ToServer(k, c) => ToServer(k, d)
      BY <2>6 DEF ToServer
    <3> QED
      BY <2>9, <3>1, <3>2 DEF ClientInv
  <2>11. ~InCache("ServerCertificate", d)
    BY <2>3, <2>6 DEF InCache
  <2>12. ClientInv(d, v)
    BY <2>6, <2>7, <2>8, <2>10, <2>11 DEF ClientInv
  <2>13. ClientStep(c, Send(d, <<hello>>), v)
    BY <2>4, <2>6, <2>7, <2>9, <2>12 DEF ClientStep, Send
  <2> QED
    BY <2>1, <2>13
<1> QED
  BY <1>1, <1>2

\* The messages of flight 5 join the transcript.
LEMMA FlightCached ==
    ASSUME NEW cache, NEW S
    PROVE  \A k \in bufferFlight(cache, S) : k \in cache \/ k \in S
BY DEF bufferFlight

LEMMA Flight5Step ==
    ASSUME RetransmitCount \in Nat, NEW c, NEW v, ClientInv(c, v), c.flight # 0, c.state # "new",
           c.peerCert
    PROVE  ClientStep(c, Flight5(c), v)
<1>1. CASE c.flight = 5
  <2>1. Flight5(c) = Send(c, c.lastMessage)
    BY <1>1 DEF Flight5
  <2>2. IsSeq(c.lastMessage) /\ \A m \in Range(c.lastMessage) : ToServer(m, c)
    BY DEF ClientInv, SocketInv, Own
  <2>3. ClientStep(c, Send(c, c.lastMessage), v)
    BY <1>1, <2>2 DEF ClientStep, Send
  <2> QED
    BY <2>1, <2>3
<1>2. CASE c.flight # 5
  <2> DEFINE exchange == Msg("ClientKeyExchange", <<c.pair>>)
             cert     == Msg("ClientCertificate", None)
             before   == bufferFlight(c.cache, IF c.requested THEN {cert, exchange} ELSE {exchange})
             key      == MasterSecret(<<c.pair>>, c.peerPair, c.peerRandom, before)
             verify   == Msg("CertificateVerify", None)
             finished == Msg("ClientFinished", key)
             messages == IF c.requested THEN <<cert, exchange, verify, finished>>
                         ELSE <<exchange, finished>>
             l        == Loop(5, 7, messages)
             cache    == bufferFlight(before, Range(messages))
             d        == [c EXCEPT !.flight = 5, !.key = key, !.lastMessage = messages,
                                   !.cache = cache, !.loops = @ \union {l}]
             Sent     == {"ClientCertificate", "ClientKeyExchange", "CertificateVerify",
                          "ClientFinished"}
  <2>1. Flight5(c) = Send(d, messages)
    BY <1>2 DEF Flight5
  <2>2. /\ exchange.kind \in Sent /\ cert.kind \in Sent /\ verify.kind \in Sent
        /\ finished.kind \in Sent
    BY DEF Msg
  <2>3. \A k \in before : k \in c.cache \/ k.kind \in Sent
    <3>1. \A k \in before : k \in c.cache \/ k = exchange \/ k = cert
      BY FlightCached
    <3> HIDE DEF before, exchange, cert, verify, finished
    <3> QED
      BY <2>2, <3>1
  <2> HIDE DEF before, exchange, cert, verify, finished, key
  <2>4. IsSeq(messages) /\ Range(messages) \subseteq {cert, exchange, verify, finished}
    <3>1. CASE c.requested
      BY <3>1, FourSeq
    <3>2. CASE ~c.requested
      BY <3>2, TwoSeq
    <3> QED
      BY <3>1, <3>2
  <2> HIDE DEF messages
  <2>5. \A k \in Range(messages) : k.kind \in Sent
    BY <2>2, <2>4
  <2>6. \A k \in cache : k \in c.cache \/ k.kind \in Sent
    <3>1. \A k \in cache : k \in before \/ k \in Range(messages)
      BY FlightCached
    <3> QED
      BY <2>3, <2>5, <3>1
  <2>7. /\ DOMAIN l = {"flight", "next", "messages", "sent"}
        /\ l.sent \in 1..RetransmitCount + 1 /\ l.messages = messages /\ IsSeq(l.messages)
    BY <2>4, LoopFields
  <2> HIDE DEF l, cache
  <2>8. /\ Changed(c, d, {"flight", "key", "lastMessage", "cache", "loops"})
        /\ d.flight = 5 /\ d.cache = cache /\ d.loops = c.loops \union {l}
        /\ d.lastMessage = messages
    BY DEF ClientInv, SocketInv, SocketFields, Changed
  <2> HIDE DEF d
  <2>9. /\ d.connected = c.connected /\ d.peerCert = c.peerCert /\ d.waiting = c.waiting
        /\ d.srtp = c.srtp /\ d.connects = c.connects /\ d.state = c.state
    BY <2>8 DEF Changed, SocketFields
  <2>10. SocketInv(d)
    <3>1. \A k \in d.cache : k.kind \in Kinds
      BY <2>6, <2>8 DEF ClientInv, SocketInv, Kinds
    <3> QED
      BY <2>4, <2>7, <2>8, <2>9, <3>1 DEF SocketInv, ClientInv, Changed
  <2>11. \A k \in Range(messages) : ToServer(k, d)
    BY <2>5 DEF ToServer, ServerKinds
  <2>12. \A k : Own(d, k) => ToServer(k, d)
    <3>1. \A k : Own(d, k) => Own(c, k) \/ k \in Range(messages)
      BY <2>7, <2>8 DEF Own
    <3>2. \A k : ToServer(k, c) => ToServer(k, d)
      BY <2>8 DEF ToServer
    <3> QED
      BY <2>11, <3>1, <3>2 DEF ClientInv
  <2>13. ClientInv(d, v)
    BY <2>8, <2>9, <2>10, <2>12 DEF ClientInv
  <2>14. ClientStep(c, Send(d, messages), v)
    BY <2>4, <2>8, <2>9, <2>11, <2>13 DEF ClientStep, Send
  <2> QED
    BY <2>1, <2>14
<1> QED
  BY <1>1, <1>2

\* Whatever Started does, the socket is connected and its loops go on or end.
LEMMA StartedFields ==
    ASSUME NEW s, SocketInv(s)
    PROVE  LET d == Started(s)
           IN  /\ Changed(s, d, {"connected", "connects", "state", "failures", "open", "loops", "srtp"})
               /\ d.connected = TRUE /\ d.connects = s.connects + 1
               /\ d.state \in {s.state, "failed", "connected"}
               /\ d.loops = s.loops \/ d.loops = {}
               /\ d.srtp = s.srtp \/ (d.srtp = s.key /\ s.connects = 0 /\ s.peerCert)
               /\ d.state = "connected" => d.srtp = s.key \/ (s.state = "connected" /\ d.srtp = s.srtp)
               /\ d.open => s.open
               /\ SocketInv(d)
<1> DEFINE d == Started(s)
           F == {"connected", "connects", "state", "failures", "open", "loops", "srtp"}
           g == [s EXCEPT !.connected = TRUE, !.connects = @ + 1]
           e == [g EXCEPT !.open = FALSE, !.loops = {}]
           h == [g EXCEPT !.state = "connected", !.srtp = s.key]
<1>0. DOMAIN s = SocketFields /\ s.connects \in Nat
  BY DEF SocketInv
<1>1. /\ Changed(s, g, F) /\ g.connected = TRUE /\ g.connects = s.connects + 1
      /\ g.state = s.state /\ g.loops = s.loops /\ g.srtp = s.srtp /\ g.open = s.open
  BY <1>0 DEF SocketFields, Changed
<1>2. /\ Changed(s, Fail(e), F) /\ Fail(e).connected = TRUE /\ Fail(e).connects = s.connects + 1
      /\ Fail(e).state = "failed" /\ Fail(e).loops = {} /\ Fail(e).srtp = s.srtp
      /\ ~Fail(e).open
  BY <1>0 DEF Fail, SocketFields, Changed
<1>3. /\ Changed(s, h, F) /\ h.connected = TRUE /\ h.connects = s.connects + 1
      /\ h.state = "connected" /\ h.loops = s.loops /\ h.srtp = s.key
      /\ h.open = s.open
  BY <1>0 DEF SocketFields, Changed
<1>4. d = g \/ d = Fail(e) \/ (d = h /\ s.connects = 0 /\ s.peerCert)
  <2>1. d = IF s.connects > 0 \/ s.failures > 0 THEN g
            ELSE IF ~s.peerCert \/ scenario.wrong THEN Fail(e) ELSE h
    BY DEF Started
  <2>2. ~(s.connects > 0) => s.connects = 0
    BY <1>0
  <2> HIDE DEF d, g, e, h
  <2> QED
    BY <2>1, <2>2
<1> HIDE DEF d, g, e, h
<1>5. /\ Changed(s, d, F) /\ d.connected = TRUE /\ d.connects = s.connects + 1
      /\ d.state \in {s.state, "failed", "connected"}
      /\ d.loops = s.loops \/ d.loops = {}
      /\ d.srtp = s.srtp \/ (d.srtp = s.key /\ s.connects = 0 /\ s.peerCert)
      /\ d.state = "connected" => d.srtp = s.key \/ (s.state = "connected" /\ d.srtp = s.srtp)
      /\ d.open => s.open
  BY <1>1, <1>2, <1>3, <1>4
<1>6. /\ d.lastMessage = s.lastMessage /\ d.waiting = s.waiting /\ d.cache = s.cache
  BY <1>5 DEF Changed, SocketFields
<1>7. SocketInv(d)
  <2>1. s.connects + 1 \in Nat
    BY <1>0
  <2> QED
    BY <1>5, <1>6, <2>1 DEF SocketInv, Changed
<1> QED
  BY <1>5, <1>7 DEF d

LEMMA FinishedStep ==
    ASSUME NEW c, NEW v, ClientInv(c, v), c.state # "new", v.connects > 0, c.key # None,
           v.srtp # None => c.key = v.srtp
    PROVE  ClientStep(c, Keep(Started([c EXCEPT !.flight = 7])), v)
<1> DEFINE s == [c EXCEPT !.flight = 7]
           d == Started(s)
<1>1. Changed(c, s, {"flight"}) /\ s.flight = 7
  BY DEF ClientInv, SocketInv, SocketFields, Changed
<1> HIDE DEF s
<1>2. /\ s.connected = c.connected /\ s.peerCert = c.peerCert /\ s.waiting = c.waiting
      /\ s.srtp = c.srtp /\ s.connects = c.connects /\ s.state = c.state /\ s.key = c.key
      /\ s.loops = c.loops /\ s.lastMessage = c.lastMessage /\ s.cache = c.cache
  BY <1>1 DEF Changed, SocketFields
<1>3. SocketInv(s)
  BY <1>1, <1>2 DEF ClientInv, SocketInv, Changed
<1>4. /\ Changed(s, d, {"connected", "connects", "state", "failures", "open", "loops", "srtp"})
      /\ d.connected = TRUE /\ d.connects = s.connects + 1
      /\ d.state \in {s.state, "failed", "connected"}
      /\ d.loops = s.loops \/ d.loops = {}
      /\ d.srtp = s.srtp \/ (d.srtp = s.key /\ s.connects = 0 /\ s.peerCert)
      /\ SocketInv(d)
  BY <1>3, StartedFields
<1> HIDE DEF d
<1>5. /\ d.peerCert = c.peerCert /\ d.waiting = c.waiting /\ d.key = c.key /\ d.flight = 7
      /\ d.lastMessage = c.lastMessage /\ d.cache = c.cache
  BY <1>1, <1>2, <1>4 DEF Changed, SocketFields
<1>6. \A k : Own(d, k) => ToServer(k, d)
  <2>1. \A k : Own(d, k) => Own(c, k)
    BY <1>2, <1>4, <1>5 DEF Own
  <2>2. \A k : ToServer(k, c) => ToServer(k, d)
    BY <1>5 DEF ToServer
  <2> QED
    BY <2>1, <2>2 DEF ClientInv
<1>7. c.peerCert
  BY DEF ClientInv
<1>8. InCache("ServerCertificate", d) \/ d.key # None => d.peerCert
  BY <1>5, <1>7
<1>9. d.srtp # None => v.connects > 0 /\ (v.srtp # None => d.srtp = v.srtp)
  BY <1>2, <1>4 DEF ClientInv
<1>10. ClientInv(d, v)
  BY <1>4, <1>5, <1>6, <1>7, <1>8, <1>9 DEF ClientInv
<1>11. ClientStep(c, Keep(d), v)
  BY <1>2, <1>4, <1>5, <1>10, KeepClient
<1> QED
  BY <1>11 DEF d, s

\* A handler of the client that waits, or goes on.
LEMMA WaitClient ==
    ASSUME NEW c, NEW v, NEW q, ClientInv(c, v), IsSeq(q),
           \A m \in Range(q) : m.kind \in {"ServerCertificate", "ServerKeyExchange",
                                           "CertificateRequest", "ServerHelloDone"}
    PROVE  LET d == [c EXCEPT !.waiting = q]
           IN  ClientInv(d, v) /\ Changed(c, d, {"waiting"}) /\ d.waiting = q
<1> DEFINE d == [c EXCEPT !.waiting = q]
<1>1. Changed(c, d, {"waiting"}) /\ d.waiting = q
  BY DEF ClientInv, SocketInv, SocketFields, Changed
<1> HIDE DEF d
<1>2. /\ d.connected = c.connected /\ d.peerCert = c.peerCert /\ d.flight = c.flight
      /\ d.srtp = c.srtp /\ d.connects = c.connects /\ d.state = c.state /\ d.key = c.key
      /\ d.loops = c.loops /\ d.lastMessage = c.lastMessage /\ d.cache = c.cache
  BY <1>1 DEF Changed, SocketFields
<1>3. SocketInv(d)
  BY <1>1, <1>2 DEF SocketInv, ClientInv, Changed
<1>4. \A m : Own(d, m) => ToServer(m, d)
  BY <1>2 DEF Own, ToServer, ClientInv
<1>5. InCache("ServerCertificate", d) \/ d.key # None => d.peerCert
  BY <1>2 DEF InCache, ClientInv
<1>6. ClientInv(d, v)
  BY <1>1, <1>2, <1>3, <1>4, <1>5 DEF ClientInv
<1> QED
  BY <1>1, <1>6 DEF d

LEMMA ClientHandles ==
    ASSUME RetransmitCount \in Nat, NEW c, NEW v, NEW m, ClientInv(c, v), c.flight # 0,
           c.state # "new", v.connects \in Nat, v.connects > 0 => c.flight >= 3,
           ToClient(m, v), Opens(c, m)
    PROVE  ClientStep(c, clientHandles(c, m), v)
<1>1. CASE m.kind = "HelloVerifyRequest"
  <2>1. \E n \in 0..v.connects : m.val = <<n>>
    BY <1>1 DEF ToClient
  <2> QED
    BY <1>1, <2>1, Flight3Step DEF clientHandles
<1>2. CASE m.kind = "ServerHello"
  <2>1. CASE c.connected
    BY <1>2, <2>1, KeepClient DEF clientHandles
  <2>2. CASE ~c.connected
    <3> DEFINE s == [c EXCEPT !.ready = TRUE]
               d == Flight4Received(s, m)
    <3>1. Changed(c, s, {"ready"})
      BY DEF ClientInv, SocketInv, SocketFields, Changed
    <3> HIDE DEF s
    <3>2. s.flight = c.flight /\ s.state = c.state
      BY <3>1 DEF Changed, SocketFields
    <3>3. ClientInv(s, v)
      <4>1. s.state \in {"new", "connecting", "connected", "failed", "closed"}
        BY <3>2 DEF ClientInv, SocketInv
      <4> QED
        BY <3>1, <4>1, ClientFrame DEF ClientFields
    <3>4. ClientInv(d, v) /\ d.flight = c.flight /\ d.state = c.state
      BY <1>2, <3>2, <3>3, ReceivedInv DEF ClientKinds
    <3> HIDE DEF d
    <3>5. ClientStep(c, Keep(d), v)
      BY <3>4, KeepClient
    <3> QED
      BY <1>2, <2>2, <3>5 DEF clientHandles, d, s
  <2> QED
    BY <2>1, <2>2
<1>3. CASE m.kind \in {"ServerCertificate", "ServerKeyExchange", "CertificateRequest"}
  <2>0. clientHandles(c, m) = IF c.ready THEN Keep(Flight4Received(c, m))
                              ELSE Keep([c EXCEPT !.waiting = Append(@, m)])
    BY <1>3 DEF clientHandles
  <2>1. CASE c.ready
    <3> DEFINE d == Flight4Received(c, m)
    <3>1. ClientInv(d, v) /\ d.flight = c.flight /\ d.state = c.state
      BY <1>3, ReceivedInv DEF ClientKinds
    <3> HIDE DEF d
    <3>2. ClientStep(c, Keep(d), v)
      BY <3>1, KeepClient
    <3> QED
      BY <2>0, <2>1, <3>2 DEF d
  <2>2. CASE ~c.ready
    <3> DEFINE q == Append(c.waiting, m)
               d == [c EXCEPT !.waiting = q]
    <3>1. IsSeq(q) /\ Range(q) = Range(c.waiting) \union {m}
      BY AppendSeq DEF ClientInv, SocketInv
    <3> HIDE DEF q
    <3>2. ClientInv(d, v) /\ Changed(c, d, {"waiting"})
      BY <1>3, <3>1, WaitClient DEF ClientInv
    <3> HIDE DEF d
    <3>3. d.flight = c.flight /\ d.state = c.state
      BY <3>2 DEF Changed, SocketFields
    <3>4. ClientStep(c, Keep(d), v)
      BY <3>2, <3>3, KeepClient
    <3> QED
      BY <2>0, <2>2, <3>4 DEF d, q
  <2> QED
    BY <2>1, <2>2
<1>4. CASE m.kind = "ServerHelloDone"
  <2> DEFINE d == IF c.ready THEN Flight4Received(c, m) ELSE c
             go == c.ready /\ checkHandshakesExist(d.cache, {"ServerCertificate", "ServerKeyExchange"})
             q == Append(d.waiting, m)
             e == [d EXCEPT !.waiting = q]
  <2>0. clientHandles(c, m) = IF go THEN Flight5(d) ELSE Keep(e)
    BY <1>4 DEF clientHandles
  <2>1. ClientInv(d, v) /\ d.flight = c.flight /\ d.state = c.state
    BY <1>4, ReceivedInv DEF ClientKinds
  <2> HIDE DEF d
  <2>2. CASE go
    <3>1. d.peerCert
      BY <2>1, <2>2 DEF checkHandshakesExist, ClientInv, InCache
    <3>2. ClientStep(d, Flight5(d), v)
      BY <2>1, <3>1, Flight5Step
    <3> QED
      BY <2>0, <2>1, <2>2, <3>2 DEF ClientStep
  <2>3. CASE ~go
    <3>1. IsSeq(q) /\ Range(q) = Range(d.waiting) \union {m}
      BY <2>1, AppendSeq DEF ClientInv, SocketInv
    <3> HIDE DEF q
    <3>2. ClientInv(e, v) /\ Changed(d, e, {"waiting"})
      BY <1>4, <2>1, <3>1, WaitClient DEF ClientInv
    <3> HIDE DEF e
    <3>3. e.flight = c.flight /\ e.state = c.state
      BY <2>1, <3>2 DEF Changed, SocketFields
    <3>4. ClientStep(c, Keep(e), v)
      BY <3>2, <3>3, KeepClient
    <3> QED
      BY <2>0, <2>3, <3>4
  <2> QED
    BY <2>2, <2>3
<1>5. CASE m.kind = "ServerFinished"
  <2>1. v.connects > 0 /\ c.key # None /\ (v.srtp # None => c.key = v.srtp)
    BY <1>5 DEF ToClient, Opens
  <2>2. ClientStep(c, Keep(Started([c EXCEPT !.flight = 7])), v)
    BY <2>1, FinishedStep
  <2> QED
    BY <1>5, <2>2 DEF clientHandles
<1> QED
  BY <1>1, <1>2, <1>3, <1>4, <1>5 DEF ToClient, ClientKinds

-----------------------------------------------------------------------------
(* The handlers of the server.                                               *)

\* Connections are counted, and the keys of the first one stay.
Grows(v, w) ==
    /\ v.connects \in Nat /\ w.connects \in Nat /\ v.connects <= w.connects
    /\ v.connects > 0 => w.srtp = v.srtp

LEMMA GrowsToClient ==
    ASSUME NEW v, NEW w, NEW m, Grows(v, w), ToClient(m, v)
    PROVE  ToClient(m, w)
<1>1. m.kind = "HelloVerifyRequest" => \E n \in 0..w.connects : m.val = <<n>>
  BY DEF Grows, ToClient
<1>2. v.connects > 0 => w.connects > 0 /\ w.srtp = v.srtp
  BY DEF Grows
<1> QED
  BY <1>1, <1>2 DEF ToClient

\* What the server may do.
ServerStep(v, r, c) ==
    /\ ServerInv(r.socket, c) /\ IsSeq(r.out)
    /\ \A m \in Range(r.out) : ToClient(m, r.socket)
    /\ Grows(v, r.socket)

LEMMA KeepServer ==
    ASSUME NEW v, NEW w, NEW c, ServerInv(w, c), Grows(v, w)
    PROVE  ServerStep(v, Keep(w), c)
BY NoSeq DEF ServerStep, Keep, Send

ServerFields == {"flight", "connected", "cache", "key", "lastMessage", "waiting", "loops",
                 "state", "srtp", "connects", "cookie"}

LEMMA ServerFrame ==
    ASSUME NEW v, NEW w, NEW c, NEW F, ServerInv(v, c), Changed(v, w, F),
           F \cap ServerFields \subseteq {"state"},
           w.state \in {"new", "connecting", "connected", "failed", "closed"}
    PROVE  ServerInv(w, c) /\ Grows(v, w)
<1>1. \A f \in ServerFields \ {"state"} : w[f] = v[f]
  BY DEF Changed, ServerFields, SocketFields
<1>2. /\ w.flight = v.flight /\ w.connected = v.connected /\ w.cache = v.cache
      /\ w.key = v.key /\ w.lastMessage = v.lastMessage /\ w.waiting = v.waiting
      /\ w.loops = v.loops /\ w.srtp = v.srtp /\ w.connects = v.connects /\ w.cookie = v.cookie
  BY <1>1 DEF ServerFields
<1>3. SocketInv(w)
  BY <1>2 DEF SocketInv, ServerInv, Changed
<1>4. Grows(v, w)
  BY <1>2 DEF Grows, ServerInv, SocketInv
<1>5. \A m : Own(w, m) => ToClient(m, w)
  <2>1. \A m : Own(w, m) => Own(v, m)
    BY <1>2 DEF Own
  <2> QED
    BY <1>4, <2>1, GrowsToClient DEF ServerInv
<1>6. \A k : InCache(k, w) <=> InCache(k, v)
  BY <1>2 DEF InCache
<1>7. ServerInv(w, c)
  BY <1>2, <1>3, <1>5, <1>6 DEF ServerInv
<1> QED
  BY <1>4, <1>7

LEMMA Cookies ==
    /\ \A n \in Nat : <<n>> # None /\ (n > 0 => <<n>> # <<0>>)
<1>1. ASSUME NEW n \in Nat PROVE <<n>> # None /\ (n > 0 => <<n>> # <<0>>)
  <2>1. Len(<<n>>) = 1 /\ <<n>>[1] = n /\ <<0>>[1] = 0
    OBVIOUS
  <2>2. Len(None) = 0
    BY DEF None
  <2> QED
    BY <2>1, <2>2
<1> QED
  BY <1>1

\* The server starts over.
Fresh(v) == IF v.connected THEN renegotiation(v) ELSE v

LEMMA FreshInv ==
    ASSUME NEW v, NEW c, ServerInv(v, c)
    PROVE  ServerInv(Fresh(v), c) /\ Grows(v, Fresh(v)) /\ ~Fresh(v).connected
<1> DEFINE w == Fresh(v)
<1>0. v.connects \in Nat /\ v.connected \in BOOLEAN
  BY DEF ServerInv, SocketInv
<1>1. CASE ~v.connected
  BY <1>0, <1>1 DEF Fresh, Grows
<1>2. CASE v.connected
  <2>0. w = renegotiation(v)
    BY <1>2 DEF Fresh
  <2>1. /\ DOMAIN w = SocketFields /\ w.flight = 0 /\ w.connected = FALSE /\ w.cache = {}
        /\ w.cookie = None /\ w.lastMessage = <<>> /\ w.loops = {}
    BY <2>0 DEF renegotiation, FreshSocket, SocketFields
  <2>2. w.waiting = v.waiting /\ w.state = v.state /\ w.srtp = v.srtp /\ w.connects = v.connects
    BY <2>0 DEF renegotiation, FreshSocket
  <2> HIDE DEF w
  <2>3. SocketInv(w)
    BY <2>1, <2>2, NoSeq DEF ServerInv, SocketInv
  <2>4. Grows(v, w)
    BY <1>0, <2>2 DEF Grows
  <2>5. \A m : ~Own(w, m)
    BY <2>1, NoSeq DEF Own
  <2>6. \A k : ~InCache(k, w)
    BY <2>1 DEF InCache
  <2>7. w.cookie # <<0>>
    BY <2>1, Cookies
  <2>8. ServerInv(w, c)
    BY <1>2, <2>1, <2>2, <2>3, <2>5, <2>6, <2>7 DEF ServerInv
  <2> QED
    BY <2>1, <2>4, <2>8 DEF w
<1> QED
  BY <1>1, <1>2

LEMMA Flight2Step ==
    ASSUME NEW v, NEW c, ServerInv(v, c), ~v.connected
    PROVE  ServerStep(v, Flight2(v), c)
<1> DEFINE k == IF v.cookie = None THEN <<v.connects>> ELSE v.cookie
           w == [v EXCEPT !.flight = 2, !.pair = @ + 1, !.cookie = k]
           m == Msg("HelloVerifyRequest", k)
<1>0. v.connects \in Nat /\ v.connected \in BOOLEAN
  BY DEF ServerInv, SocketInv
<1>1. Changed(v, w, {"flight", "pair", "cookie"}) /\ w.flight = 2 /\ w.cookie = k
  BY DEF ServerInv, SocketInv, SocketFields, Changed
<1>2. Flight2(v) = Send(w, <<m>>)
  <2>1. w = [v EXCEPT !.flight = 2, !.pair = @ + 1,
                      !.cookie = IF @ = None THEN <<v.connects>> ELSE @]
    BY DEF ServerInv, SocketInv, SocketFields
  <2>2. Flight2(v) = Send(w, <<Msg("HelloVerifyRequest", w.cookie)>>)
    BY <2>1 DEF Flight2
  <2> HIDE DEF w
  <2> QED
    BY <1>1, <2>2
<1>3. m.kind = "HelloVerifyRequest" /\ m.val = k
  BY DEF Msg
<1>4. /\ \E n \in 0..v.connects : k = <<n>>
      /\ v.connects > 0 => k # <<0>>
  <2>1. CASE v.cookie = None
    BY <1>0, <2>1, Cookies
  <2>2. CASE v.cookie # None
    BY <1>0, <2>2 DEF ServerInv
  <2> QED
    BY <2>1, <2>2
<1> HIDE DEF w, m, k
<1>5. /\ w.connected = v.connected /\ w.cache = v.cache /\ w.key = v.key
      /\ w.lastMessage = v.lastMessage /\ w.waiting = v.waiting /\ w.loops = v.loops
      /\ w.srtp = v.srtp /\ w.connects = v.connects /\ w.state = v.state
  BY <1>1 DEF Changed, SocketFields
<1>6. SocketInv(w)
  BY <1>1, <1>5 DEF SocketInv, ServerInv, Changed
<1>7. Grows(v, w)
  BY <1>0, <1>5 DEF Grows
<1>8. \A x : Own(w, x) => ToClient(x, w)
  <2>1. \A x : Own(w, x) => Own(v, x)
    BY <1>5 DEF Own
  <2> QED
    BY <1>7, <2>1, GrowsToClient DEF ServerInv
<1>9. \A x : InCache(x, w) <=> InCache(x, v)
  BY <1>5 DEF InCache
<1>10. ServerInv(w, c)
  BY <1>0, <1>1, <1>4, <1>5, <1>6, <1>8, <1>9 DEF ServerInv
<1>11. ToClient(m, w)
  BY <1>3, <1>4, <1>5 DEF ToClient, ClientKinds
<1>12. ServerStep(v, Send(w, <<m>>), c)
  BY <1>7, <1>10, <1>11, OneSeq DEF ServerStep, Send
<1> QED
  BY <1>2, <1>12

LEMMA Flight4Step ==
    ASSUME RetransmitCount \in Nat, NEW v, NEW c, NEW m, ServerInv(v, c), ~v.connected,
           v.cookie = m.val, m.kind = "ClientHelloCookie", ToServer(m, c)
    PROVE  ServerStep(v, Flight4(v, m), c)
<1>0. v.connects \in Nat /\ v.connected \in BOOLEAN
  BY DEF ServerInv, SocketInv
<1>1. c.flight >= 3 /\ v.connects = 0
  <2>1. c.flight >= 3 /\ v.cookie = <<0>>
    BY DEF ToServer
  <2> QED
    BY <1>0, <2>1 DEF ServerInv
<1>2. CASE v.flight = 4
  <2>1. Flight4(v, m) = Send(v, v.lastMessage)
    BY <1>2 DEF Flight4
  <2>2. IsSeq(v.lastMessage) /\ \A k \in Range(v.lastMessage) : ToClient(k, v)
    BY DEF ServerInv, SocketInv, Own
  <2>3. Grows(v, v)
    BY <1>0 DEF Grows
  <2>4. ServerStep(v, Send(v, v.lastMessage), c)
    BY <2>2, <2>3 DEF ServerStep, Send
  <2> QED
    BY <2>1, <2>4
<1>3. CASE v.flight # 4
  <2> DEFINE h == Msg("ServerHello", <<v.pair>>)
             p == Msg("ServerCertificate", None)
             k == Msg("ServerKeyExchange", <<v.pair>>)
             r == Msg("CertificateRequest", None)
             e == Msg("ServerHelloDone", None)
             messages == <<h, p, k, r, e>>
             l == Loop(4, 6, messages)
             cache == bufferFlight(v.cache, {m} \union Range(messages))
             w == [v EXCEPT !.flight = 4, !.lastMessage = messages, !.cache = cache,
                            !.loops = @ \union {l}]
             Sent == {"ServerHello", "ServerCertificate", "ServerKeyExchange",
                      "CertificateRequest", "ServerHelloDone"}
  <2>1. Flight4(v, m) = Send(w, messages)
    BY <1>3 DEF Flight4
  <2>2. /\ h.kind \in Sent /\ p.kind \in Sent /\ k.kind \in Sent /\ r.kind \in Sent
        /\ e.kind \in Sent
    BY DEF Msg
  <2> HIDE DEF h, p, k, r, e
  <2>3. IsSeq(messages) /\ Range(messages) = {h, p, k, r, e}
    BY FiveSeq
  <2> HIDE DEF messages
  <2>4. \A x \in Range(messages) : x.kind \in Sent
    BY <2>2, <2>3
  <2>5. \A x \in cache : x \in v.cache \/ x.kind \in Sent \union {"ClientHelloCookie"}
    <3>1. \A x \in cache : x \in v.cache \/ x \in {m} \union Range(messages)
      BY FlightCached
    <3> QED
      BY <2>4, <3>1
  <2>6. /\ DOMAIN l = {"flight", "next", "messages", "sent"}
        /\ l.sent \in 1..RetransmitCount + 1 /\ l.messages = messages /\ IsSeq(l.messages)
    BY <2>3, LoopFields
  <2> HIDE DEF l, cache
  <2>7. /\ Changed(v, w, {"flight", "lastMessage", "cache", "loops"})
        /\ w.flight = 4 /\ w.cache = cache /\ w.loops = v.loops \union {l}
        /\ w.lastMessage = messages
    BY DEF ServerInv, SocketInv, SocketFields, Changed
  <2> HIDE DEF w
  <2>8. /\ w.connected = v.connected /\ w.key = v.key /\ w.waiting = v.waiting
        /\ w.srtp = v.srtp /\ w.connects = v.connects /\ w.state = v.state /\ w.cookie = v.cookie
    BY <2>7 DEF Changed, SocketFields
  <2>9. SocketInv(w)
    <3>1. \A x \in w.cache : x.kind \in Kinds
      BY <2>5, <2>7 DEF ServerInv, SocketInv, Kinds
    <3> QED
      BY <2>3, <2>6, <2>7, <2>8, <3>1 DEF SocketInv, ServerInv, Changed
  <2>10. Grows(v, w)
    BY <1>0, <2>8 DEF Grows
  <2>11. \A x \in Range(messages) : ToClient(x, w)
    BY <2>4 DEF ToClient, ClientKinds
  <2>12. \A x : Own(w, x) => ToClient(x, w)
    <3>1. \A x : Own(w, x) => Own(v, x) \/ x \in Range(messages)
      BY <2>6, <2>7 DEF Own
    <3>2. \A x : ToClient(x, v) => ToClient(x, w)
      BY <2>10, GrowsToClient
    <3> QED
      BY <2>11, <3>1, <3>2 DEF ServerInv
  <2>13. InCache("ClientKeyExchange", w) => InCache("ClientKeyExchange", v)
    BY <2>5, <2>7 DEF InCache
  <2>14. ServerInv(w, c)
    BY <1>0, <1>1, <2>7, <2>8, <2>9, <2>12, <2>13 DEF ServerInv
  <2>15. ServerStep(v, Send(w, messages), c)
    BY <2>3, <2>10, <2>11, <2>14 DEF ServerStep, Send
  <2> QED
    BY <2>1, <2>15
<1> QED
  BY <1>2, <1>3

\* A message of flight 5 joins the transcript.
LEMMA Flight5ReceivedInv ==
    ASSUME NEW v, NEW c, NEW m, ServerInv(v, c),
           m.kind \in {"ClientCertificate", "ClientKeyExchange", "CertificateVerify", "ClientFinished"}
    PROVE  LET w == Flight5Received(v, m)
           IN  /\ ServerInv(w, c) /\ Grows(v, w)
               /\ Changed(v, w, {"cache", "ready", "peerCert", "peerPair", "key", "state", "failures"})
               /\ w.state \in {v.state, "failed"} /\ (m.kind = "ClientFinished" => w.key = v.key)
<1> DEFINE w == Flight5Received(v, m)
           b == bufferHandshakeCache(v.cache, m)
           d == [v EXCEPT !.cache = b, !.ready = TRUE]
           k == MasterSecret(m.val, <<d.pair>>, <<d.pair>>, d.cache)
           F == {"cache", "ready", "peerCert", "peerPair", "key", "state", "failures"}
<1>0. DOMAIN v = SocketFields
  BY DEF ServerInv, SocketInv
<1>1. \A x \in b : x \in v.cache \/ x = m
  BY DEF bufferHandshakeCache
<1>2. k # None
  <2>1. Len(k) = 4
    BY DEF MasterSecret
  <2>2. Len(None) = 0
    BY DEF None
  <2> QED
    BY <2>1, <2>2
<1>3. Changed(v, d, F) /\ d.cache = b /\ d.key = v.key /\ d.state = v.state
  BY <1>0 DEF SocketFields, Changed
<1>4. w = CASE m.kind = "ClientCertificate" -> [d EXCEPT !.peerCert = TRUE]
            [] m.kind = "ClientKeyExchange" -> [d EXCEPT !.peerPair = m.val, !.key = k]
            [] m.kind = "CertificateVerify" -> IF d.peerCert THEN d ELSE Fail(d)
            [] OTHER -> d
  BY <1>0 DEF Flight5Received, SocketFields
<1> HIDE DEF w, b, d, k
<1>5. /\ Changed(v, w, F) /\ w.cache = b /\ w.key \in {v.key, k} /\ w.state \in {v.state, "failed"}
      /\ m.kind = "ClientKeyExchange" => w.key = k
      /\ m.kind = "ClientFinished" => w.key = v.key
  <2>1. CASE m.kind = "ClientCertificate"
    <3>1. w = [d EXCEPT !.peerCert = TRUE]
      BY <1>4, <2>1
    <3> QED
      BY <1>3, <2>1, <3>1 DEF Changed, SocketFields
  <2>2. CASE m.kind = "ClientKeyExchange"
    <3>1. w = [d EXCEPT !.peerPair = m.val, !.key = k]
      BY <1>4, <2>2
    <3> QED
      BY <1>3, <2>2, <3>1 DEF Changed, SocketFields
  <2>3. CASE m.kind = "CertificateVerify"
    <3>1. w = d \/ w = Fail(d)
      BY <1>4, <2>3
    <3>2. CASE w = d
      BY <1>3, <2>3, <3>2
    <3>3. CASE w = Fail(d)
      BY <1>3, <2>3, <3>3 DEF Changed, SocketFields, Fail
    <3> QED
      BY <3>1, <3>2, <3>3
  <2>4. CASE m.kind = "ClientFinished"
    <3>1. w = d
      BY <1>4, <2>4
    <3> QED
      BY <1>3, <2>4, <3>1
  <2> QED
    BY <2>1, <2>2, <2>3, <2>4
<1>6. /\ w.connected = v.connected /\ w.flight = v.flight /\ w.waiting = v.waiting
      /\ w.srtp = v.srtp /\ w.connects = v.connects /\ w.cookie = v.cookie
      /\ w.lastMessage = v.lastMessage /\ w.loops = v.loops
  BY <1>5 DEF Changed, SocketFields
<1>7. SocketInv(w)
  <2>1. \A x \in w.cache : x.kind \in Kinds
    BY <1>1, <1>5 DEF ServerInv, SocketInv, Kinds
  <2> QED
    BY <1>5, <1>6, <2>1 DEF SocketInv, ServerInv, Changed
<1>8. Grows(v, w)
  BY <1>6 DEF Grows, ServerInv, SocketInv
<1>9. \A x : Own(w, x) => ToClient(x, w)
  <2>1. \A x : Own(w, x) => Own(v, x)
    BY <1>6 DEF Own
  <2> QED
    BY <1>8, <2>1, GrowsToClient DEF ServerInv
<1>10. InCache("ServerCertificate", w) => InCache("ServerCertificate", v)
  BY <1>1, <1>5 DEF InCache
<1>11. InCache("ClientKeyExchange", w) => w.key # None
  <2>1. CASE m.kind = "ClientKeyExchange"
    BY <1>2, <1>5, <2>1
  <2>2. CASE m.kind # "ClientKeyExchange"
    <3>1. InCache("ClientKeyExchange", w) => InCache("ClientKeyExchange", v)
      BY <1>1, <1>5, <2>2 DEF InCache
    <3> QED
      BY <1>2, <1>5, <3>1 DEF ServerInv
  <2> QED
    BY <2>1, <2>2
<1>12. ServerInv(w, c)
  BY <1>6, <1>7, <1>9, <1>10, <1>11 DEF ServerInv
<1> QED
  BY <1>5, <1>8, <1>12 DEF w

LEMMA Flight6Step ==
    ASSUME NEW v, NEW c, ServerInv(v, c), checkHandshakesExist(v.cache, RequiredHandshakes)
    PROVE  ServerStep(v, Flight6(v), c)
<1> DEFINE f == Msg("ServerFinished", v.key)
           messages == IF v.flight = 6 THEN v.lastMessage ELSE <<f>>
           cache == IF v.flight = 6 THEN v.cache ELSE bufferHandshakeCache(v.cache, <<f>>[1])
           g == [v EXCEPT !.flight = 6, !.lastMessage = messages, !.cache = cache]
           w == Started(g)
<1>0. v.connects \in Nat /\ v.connected \in BOOLEAN /\ DOMAIN v = SocketFields
  BY DEF ServerInv, SocketInv
<1>1. Flight6(v) = Send(w, messages)
  <2>1. v.flight = 6 => g = [v EXCEPT !.flight = 6, !.lastMessage = messages, !.cache = @]
    BY <1>0 DEF SocketFields
  <2> QED
    BY <1>0, <2>1 DEF Flight6, SocketFields
<1>2. InCache("ClientKeyExchange", v) /\ InCache("ServerCertificate", v)
  BY DEF checkHandshakesExist, RequiredHandshakes, InCache
<1>3. v.key # None /\ c.flight >= 3 /\ (v.connects > 0 => v.connected)
  BY <1>2 DEF ServerInv
<1>4. f.kind = "ServerFinished" /\ f.val = v.key
  BY DEF Msg
<1> HIDE DEF f
<1>5. IsSeq(messages) /\ \A m \in Range(messages) : (v.flight = 6 /\ Own(v, m)) \/ (v.flight # 6 /\ m = f)
  <2>1. CASE v.flight = 6
    BY <2>1 DEF ServerInv, SocketInv, Own
  <2>2. CASE v.flight # 6
    BY <2>2, OneSeq
  <2> QED
    BY <2>1, <2>2
<1>6. \A m \in cache : m \in v.cache \/ m = f
  <2>1. <<f>>[1] = f
    OBVIOUS
  <2> QED
    BY <2>1 DEF bufferHandshakeCache
<1> HIDE DEF messages, cache
<1>7. /\ Changed(v, g, {"flight", "lastMessage", "cache"})
      /\ g.flight = 6 /\ g.lastMessage = messages /\ g.cache = cache
  BY <1>0 DEF SocketFields, Changed
<1> HIDE DEF g
<1>8. /\ g.connected = v.connected /\ g.key = v.key /\ g.waiting = v.waiting
      /\ g.srtp = v.srtp /\ g.connects = v.connects /\ g.state = v.state /\ g.cookie = v.cookie
      /\ g.loops = v.loops
  BY <1>7 DEF Changed, SocketFields
<1>9. SocketInv(g)
  <2>1. \A m \in g.cache : m.kind \in Kinds
    BY <1>4, <1>6, <1>7 DEF ServerInv, SocketInv, Kinds
  <2> QED
    BY <1>5, <1>7, <1>8, <2>1 DEF SocketInv, ServerInv, Changed
<1>10. /\ Changed(g, w, {"connected", "connects", "state", "failures", "open", "loops", "srtp"})
       /\ w.connected = TRUE /\ w.connects = g.connects + 1
       /\ w.loops = g.loops \/ w.loops = {}
       /\ w.srtp = g.srtp \/ (w.srtp = g.key /\ g.connects = 0)
       /\ SocketInv(w)
  BY <1>9, StartedFields
<1> HIDE DEF w
<1>11. /\ w.flight = 6 /\ w.lastMessage = messages /\ w.cache = cache /\ w.key = v.key
       /\ w.waiting = v.waiting /\ w.cookie = v.cookie
  BY <1>7, <1>8, <1>10 DEF Changed, SocketFields
<1>12. w.connects = v.connects + 1 /\ (w.srtp = v.srtp \/ (w.srtp = v.key /\ v.connects = 0))
  BY <1>8, <1>10
<1>13. Grows(v, w)
  BY <1>0, <1>12 DEF Grows
<1>14. v.flight # 6 => ToClient(f, w)
  <2>1. v.flight # 6 => v.connects = 0 /\ v.srtp = None
    BY <1>0, <1>3 DEF ServerInv
  <2> QED
    BY <1>0, <1>3, <1>4, <1>12, <2>1 DEF ToClient, ClientKinds
<1>15. \A m : Own(v, m) => ToClient(m, w)
  BY <1>13, GrowsToClient DEF ServerInv
<1>16. \A m \in Range(messages) : ToClient(m, w)
  BY <1>5, <1>14, <1>15
<1>17. \A m : Own(w, m) => ToClient(m, w)
  <2>1. \A m : Own(w, m) => Own(v, m) \/ m \in Range(messages)
    BY <1>8, <1>10, <1>11 DEF Own
  <2> QED
    BY <1>15, <1>16, <2>1
<1>18. ServerInv(w, c)
  <2>1. w.cookie = None \/ \E n \in 0..w.connects : w.cookie = <<n>>
    <3>1. \A n \in 0..v.connects : n \in 0..w.connects
      BY <1>0, <1>12
    <3> QED
      BY <1>11, <3>1 DEF ServerInv
  <2>2. w.connects # 0
    BY <1>0, <1>12
  <2> QED
    BY <1>3, <1>10, <1>11, <1>17, <2>1, <2>2 DEF ServerInv
<1>19. ServerStep(v, Send(w, messages), c)
  BY <1>5, <1>13, <1>16, <1>18 DEF ServerStep, Send
<1> QED
  BY <1>1, <1>19

LEMMA GrowsOn ==
    ASSUME NEW v, NEW n, NEW r, NEW c, Grows(v, n), ServerStep(n, r, c)
    PROVE  ServerStep(v, r, c)
<1>1. Grows(v, r.socket)
  BY DEF Grows, ServerStep
<1> QED
  BY <1>1 DEF ServerStep

LEMMA WaitServer ==
    ASSUME NEW v, NEW c, NEW q, ServerInv(v, c), IsSeq(q),
           \A m \in Range(q) : m.kind = "ClientFinished"
    PROVE  LET w == [v EXCEPT !.waiting = q]
           IN  ServerInv(w, c) /\ Grows(v, w) /\ w.cache = v.cache
<1> DEFINE w == [v EXCEPT !.waiting = q]
<1>1. Changed(v, w, {"waiting"}) /\ w.waiting = q
  BY DEF ServerInv, SocketInv, SocketFields, Changed
<1> HIDE DEF w
<1>2. /\ w.flight = v.flight /\ w.connected = v.connected /\ w.cache = v.cache
      /\ w.key = v.key /\ w.lastMessage = v.lastMessage /\ w.state = v.state
      /\ w.loops = v.loops /\ w.srtp = v.srtp /\ w.connects = v.connects /\ w.cookie = v.cookie
  BY <1>1 DEF Changed, SocketFields
<1>3. SocketInv(w)
  BY <1>1, <1>2 DEF SocketInv, ServerInv, Changed
<1>4. Grows(v, w)
  BY <1>2 DEF Grows, ServerInv, SocketInv
<1>5. \A m : Own(w, m) => ToClient(m, w)
  <2>1. \A m : Own(w, m) => Own(v, m)
    BY <1>2 DEF Own
  <2> QED
    BY <1>4, <2>1, GrowsToClient DEF ServerInv
<1>6. \A k : InCache(k, w) <=> InCache(k, v)
  BY <1>2 DEF InCache
<1>7. ServerInv(w, c)
  BY <1>1, <1>2, <1>3, <1>5, <1>6 DEF ServerInv
<1> QED
  BY <1>2, <1>4, <1>7 DEF w

LEMMA ServerHandles ==
    ASSUME RetransmitCount \in Nat, NEW v, NEW c, NEW m, ServerInv(v, c), ToServer(m, c)
    PROVE  ServerStep(v, serverHandles(v, m), c)
<1> DEFINE n == Fresh(v)
<1>n. ServerInv(n, c) /\ Grows(v, n) /\ ~n.connected
  BY FreshInv
<1>v. Grows(v, v)
  BY DEF Grows, ServerInv, SocketInv
<1>1. CASE m.kind = "ClientHello"
  <2>1. serverHandles(v, m) = Flight2(n)
    BY <1>1 DEF serverHandles, Fresh
  <2> QED
    BY <1>n, <2>1, Flight2Step, GrowsOn
<1>2. CASE m.kind = "ClientHelloCookie"
  <2>1. serverHandles(v, m) = IF n.cookie # None /\ n.cookie = m.val THEN Flight4(n, m) ELSE Keep(n)
    BY <1>2 DEF serverHandles, Fresh
  <2> HIDE DEF n
  <2>2. CASE n.cookie # None /\ n.cookie = m.val
    <3>1. ServerStep(n, Flight4(n, m), c)
      BY <1>2, <1>n, <2>2, Flight4Step
    <3> QED
      BY <1>n, <2>1, <2>2, <3>1, GrowsOn
  <2>3. CASE ~(n.cookie # None /\ n.cookie = m.val)
    BY <1>n, <2>1, <2>3, KeepServer
  <2> QED
    BY <2>2, <2>3
<1>3. CASE m.kind \in {"ClientCertificate", "ClientKeyExchange", "CertificateVerify"}
  <2> DEFINE w == IF v.connected THEN v ELSE Flight5Received(v, m)
  <2>1. serverHandles(v, m) = Keep(w)
    BY <1>3 DEF serverHandles
  <2>2. ServerInv(w, c) /\ Grows(v, w)
    BY <1>3, <1>v, Flight5ReceivedInv
  <2> HIDE DEF w
  <2> QED
    BY <2>1, <2>2, KeepServer
<1>4. CASE m.kind = "ClientFinished"
  <2> DEFINE d == Flight5Received(v, m)
             q == Append(d.waiting, m)
             w == [d EXCEPT !.waiting = q]
  <2>1. serverHandles(v, m) = IF checkHandshakesExist(d.cache, RequiredHandshakes) THEN Flight6(d)
                              ELSE Keep(w)
    BY <1>4 DEF serverHandles
  <2>2. ServerInv(d, c) /\ Grows(v, d)
    BY <1>4, Flight5ReceivedInv
  <2> HIDE DEF d
  <2>3. CASE checkHandshakesExist(d.cache, RequiredHandshakes)
    BY <2>1, <2>2, <2>3, Flight6Step, GrowsOn
  <2>4. CASE ~checkHandshakesExist(d.cache, RequiredHandshakes)
    <3>1. IsSeq(q) /\ Range(q) = Range(d.waiting) \union {m}
      BY <2>2, AppendSeq DEF ServerInv, SocketInv
    <3> HIDE DEF q
    <3>2. ServerInv(w, c) /\ Grows(d, w)
      BY <1>4, <2>2, <3>1, WaitServer DEF ServerInv
    <3> HIDE DEF w
    <3>3. ServerStep(d, Keep(w), c)
      BY <3>2, KeepServer
    <3> QED
      BY <2>1, <2>2, <2>4, <3>3, GrowsOn
  <2> QED
    BY <2>3, <2>4
<1>5. CASE m.kind = "Malformed"
  <2>1. serverHandles(v, m) = Keep(v)
    BY <1>5 DEF serverHandles
  <2> QED
    BY <1>v, <2>1, KeepServer
<1> QED
  BY <1>1, <1>2, <1>3, <1>4, <1>5 DEF ToServer, ServerKinds

-----------------------------------------------------------------------------
(* The steps of the two ends.                                                *)

Bounds ==
    /\ losses \in 0..scenario.losses /\ copies \in 0..scenario.copies
    /\ overtakes \in 0..scenario.overtakes

\* What a step must leave.
Stepped ==
    /\ scenario' = scenario /\ DOMAIN sock' = Peers
    /\ ClientInv(sock'["client"], sock'["server"]) /\ ServerInv(sock'["server"], sock'["client"])
    /\ NetInv(net', held', sock'["client"], sock'["server"])
    /\ StartInv(net', held', sock'["client"], sock'["server"])

LEMMA SteppedInv ==
    ASSUME SecretInv, Stepped, Bounds'
    PROVE  SecretInv'
<1>1. scenario' = scenario /\ scenario \in Scenarios /\ DOMAIN sock' = Peers
  BY DEF Stepped, SecretInv
<1>2. ClientInv(sock["client"], sock["server"])'
  BY <1>1 DEF Stepped, ClientInv, SocketInv, RetransmitCount
<1>3. ServerInv(sock["server"], sock["client"])'
  BY <1>1 DEF Stepped, ServerInv, SocketInv, RetransmitCount
<1>4. NetInv(net, held, sock["client"], sock["server"])'
  BY DEF Stepped, NetInv
<1>5. StartInv(net, held, sock["client"], sock["server"])'
  BY DEF Stepped, StartInv
<1> QED
  BY <1>1, <1>2, <1>3, <1>4, <1>5 DEF SecretInv, Bounds

\* The other end's part of the invariant is kept by a step.
LEMMA ClientKeeps ==
    ASSUME NEW c, NEW v, NEW w, ClientInv(c, v), Grows(v, w)
    PROVE  ClientInv(c, w)
<1>1. v.connects > 0 => w.connects > 0 /\ w.srtp = v.srtp
  BY DEF Grows
<1> QED
  BY <1>1 DEF ClientInv

LEMMA ServerKeeps ==
    ASSUME NEW c, NEW v, NEW d, ServerInv(v, c), c.flight >= 3 => d.flight >= 3
    PROVE  ServerInv(v, d)
BY DEF ServerInv

LEMMA Scenario ==
    ASSUME SecretInv
    PROVE  /\ RetransmitCount \in Nat /\ scenario.losses \in Nat /\ scenario.copies \in Nat
           /\ scenario.overtakes \in Nat
BY ScenariosAssumption DEF SecretInv, RetransmitCount

\* A step of the client that takes datagrams off its way and keeps the rest.
LEMMA ClientMoves ==
    ASSUME SecretInv, NEW rest, NEW r, Step("client", rest, r), held' \subseteq held,
           IsSeq(rest), \A m \in Range(rest) : m \in Range(net["client"]),
           ClientStep(sock["client"], r, sock["server"])
    PROVE  Stepped
<1> DEFINE c == sock["client"]
           v == sock["server"]
           d == r.socket
           q == net["server"] \o r.out
<1>0. DOMAIN sock = Peers /\ DOMAIN net = Peers /\ IsSeq(net["server"])
  BY DEF SecretInv, NetInv, Peers
<1>1. /\ sock' = [sock EXCEPT !["client"] = d] /\ scenario' = scenario
      /\ net' = [net EXCEPT !["client"] = rest, !["server"] = q]
  BY DEF Step, Other
<1>2. /\ ClientInv(d, v) /\ IsSeq(r.out) /\ \A m \in Range(r.out) : ToServer(m, d)
      /\ c.flight >= 3 => d.flight >= 3
      /\ d.flight # 0 /\ d.state # "new"
  BY DEF ClientStep
<1>3. IsSeq(q) /\ \A m \in Range(q) : m \in Range(net["server"]) \/ m \in Range(r.out)
  BY <1>0, <1>2, ConcatSeq
<1> HIDE DEF d, q
<1>4. /\ DOMAIN sock' = Peers /\ sock'["client"] = d /\ sock'["server"] = v
      /\ DOMAIN net' = Peers /\ net'["client"] = rest /\ net'["server"] = q
  BY <1>0, <1>1 DEF Peers
<1> HIDE DEF c, v
<1>5. \A m : ToServer(m, c) => ToServer(m, d)
  BY <1>2 DEF ToServer
<1>6. ServerInv(v, d)
  BY <1>2, ServerKeeps DEF SecretInv, c, v
<1>7. NetInv(net', held', d, v)
  <2>1. NetInv(net, held, c, v)
    BY DEF SecretInv, c, v
  <2>2. \A p \in Peers : IsSeq(net'[p])
    BY <1>3, <1>4 DEF Peers
  <2>3. \A m \in Range(net'["client"]) : ToClient(m, v)
    BY <1>4, <2>1 DEF NetInv
  <2>4. \A m \in Range(net'["server"]) : ToServer(m, d)
    BY <1>2, <1>3, <1>4, <1>5, <2>1 DEF NetInv
  <2>5. \A h \in held' : /\ h[1] \in Peers
                         /\ h[1] = "client" => ToClient(h[2], v)
                         /\ h[1] = "server" => ToServer(h[2], d)
    BY <1>5, <2>1 DEF NetInv
  <2> QED
    BY <1>4, <2>2, <2>3, <2>4, <2>5 DEF NetInv
<1>8. StartInv(net', held', d, v)
  BY <1>2 DEF StartInv
<1> QED
  BY <1>1, <1>2, <1>4, <1>6, <1>7, <1>8 DEF Stepped

LEMMA ServerMoves ==
    ASSUME SecretInv, NEW rest, NEW r, Step("server", rest, r), held' \subseteq held,
           IsSeq(rest), \A m \in Range(rest) : m \in Range(net["server"]),
           ServerStep(sock["server"], r, sock["client"]), sock["client"].state # "new"
    PROVE  Stepped
<1> DEFINE c == sock["client"]
           v == sock["server"]
           w == r.socket
           q == net["client"] \o r.out
<1>0. DOMAIN sock = Peers /\ DOMAIN net = Peers /\ IsSeq(net["client"])
  BY DEF SecretInv, NetInv, Peers
<1>1. /\ sock' = [sock EXCEPT !["server"] = w] /\ scenario' = scenario
      /\ net' = [net EXCEPT !["server"] = rest, !["client"] = q]
  BY DEF Step, Other
<1>2. /\ ServerInv(w, c) /\ IsSeq(r.out) /\ \A m \in Range(r.out) : ToClient(m, w)
      /\ Grows(v, w)
  BY DEF ServerStep
<1>3. IsSeq(q) /\ \A m \in Range(q) : m \in Range(net["client"]) \/ m \in Range(r.out)
  BY <1>0, <1>2, ConcatSeq
<1>s. c.state # "new" /\ c.flight # 0
  BY DEF SecretInv, StartInv
<1> HIDE DEF w, q
<1>4. /\ DOMAIN sock' = Peers /\ sock'["server"] = w /\ sock'["client"] = c
      /\ DOMAIN net' = Peers /\ net'["server"] = rest /\ net'["client"] = q
  BY <1>0, <1>1 DEF Peers
<1> HIDE DEF c, v
<1>5. \A m : ToClient(m, v) => ToClient(m, w)
  BY <1>2, GrowsToClient
<1>6. ClientInv(c, w)
  BY <1>2, ClientKeeps DEF SecretInv, c, v
<1>7. NetInv(net', held', c, w)
  <2>1. NetInv(net, held, c, v)
    BY DEF SecretInv, c, v
  <2>2. \A p \in Peers : IsSeq(net'[p])
    BY <1>3, <1>4 DEF Peers
  <2>3. \A m \in Range(net'["server"]) : ToServer(m, c)
    BY <1>4, <2>1 DEF NetInv
  <2>4. \A m \in Range(net'["client"]) : ToClient(m, w)
    BY <1>2, <1>3, <1>4, <1>5, <2>1 DEF NetInv
  <2>5. \A h \in held' : /\ h[1] \in Peers
                         /\ h[1] = "client" => ToClient(h[2], w)
                         /\ h[1] = "server" => ToServer(h[2], c)
    BY <1>5, <2>1 DEF NetInv
  <2> QED
    BY <1>4, <2>2, <2>3, <2>4, <2>5 DEF NetInv
<1>8. StartInv(net', held', c, w)
  BY <1>s DEF StartInv
<1> QED
  BY <1>1, <1>2, <1>4, <1>6, <1>7, <1>8 DEF Stepped

LEMMA ReceiveMoves ==
    ASSUME SecretInv, NEW p \in Peers, NEW rest, NEW m, Receive(p, rest, m), held' \subseteq held,
           IsSeq(rest), \A k \in Range(rest) : k \in Range(net[p]), sock["client"].state # "new",
           p = "client" => ToClient(m, sock["server"]), p = "server" => ToServer(m, sock["client"])
    PROVE  Stepped
<1> DEFINE c == sock["client"]
           v == sock["server"]
           r == IF sock[p].open /\ Opens(sock[p], m) THEN handleHandshakes(p, sock[p], m)
                ELSE Keep(sock[p])
<1>1. Step(p, rest, r)
  BY DEF Receive
<1>2. /\ ClientInv(c, v) /\ ServerInv(v, c) /\ RetransmitCount \in Nat /\ c.flight # 0
      /\ v.connects \in Nat /\ (v.connects > 0 => c.flight >= 3)
  BY Scenario DEF SecretInv, StartInv, ServerInv, SocketInv
<1>3. CASE p = "client"
  <2>1. ClientStep(c, Keep(c), v)
    BY <1>2, KeepClient
  <2>2. Opens(c, m) => ClientStep(c, clientHandles(c, m), v)
    BY <1>2, <1>3, ClientHandles
  <2>3. r = IF c.open /\ Opens(c, m) THEN clientHandles(c, m) ELSE Keep(c)
    BY <1>3 DEF handleHandshakes
  <2> HIDE DEF r
  <2>4. ClientStep(c, r, v)
    BY <2>1, <2>2, <2>3
  <2> QED
    BY <1>1, <1>3, <2>4, ClientMoves
<1>4. CASE p = "server"
  <2>1. ServerStep(v, Keep(v), c)
    BY <1>2, KeepServer DEF Grows
  <2>2. ServerStep(v, serverHandles(v, m), c)
    BY <1>2, <1>4, ServerHandles
  <2>3. r = IF v.open /\ Opens(v, m) THEN serverHandles(v, m) ELSE Keep(v)
    BY <1>4 DEF handleHandshakes
  <2> HIDE DEF r
  <2>4. ServerStep(v, r, c)
    BY <2>1, <2>2, <2>3
  <2> QED
    BY <1>1, <1>4, <2>4, ServerMoves
<1> QED
  BY <1>3, <1>4 DEF Peers

\* A datagram on its way may be received.
LEMMA OnTheWay ==
    ASSUME SecretInv, NEW p \in Peers, NEW i \in DOMAIN net[p]
    PROVE  /\ IsSeq(net[p]) /\ IsSeq(RemoveAt(net[p], i))
           /\ \A k \in Range(RemoveAt(net[p], i)) : k \in Range(net[p])
           /\ p = "client" => ToClient(net[p][i], sock["server"])
           /\ p = "server" => ToServer(net[p][i], sock["client"])
           /\ sock["client"].state # "new"
<1>1. IsSeq(net[p]) /\ NetInv(net, held, sock["client"], sock["server"])
  BY DEF SecretInv, NetInv
<1>2. net[p][i] \in Range(net[p])
  BY DEF Range
<1>3. net[p] # <<>>
  BY <1>2, NoSeq
<1> QED
  BY <1>1, <1>2, <1>3, RemoveSeq DEF NetInv, SecretInv, StartInv

LEMMA StartSecret ==
    ASSUME SecretInv, start
    PROVE  Stepped /\ Bounds'
<1> DEFINE c == sock["client"]
           v == sock["server"]
           m == Msg("ClientHello", None)
           hello == <<m>>
           l == Loop(1, 3, hello)
           d == [c EXCEPT !.state = "connecting", !.flight = 1, !.loops = {l}]
<1>1. /\ c.state = "new" /\ Step("client", net["client"], Send(d, hello))
      /\ UNCHANGED <<losses, copies, held, overtakes>> /\ scenario' = scenario
  BY DEF start, Step
<1>2. ClientInv(c, v) /\ RetransmitCount \in Nat /\ c.flight = 0 /\ IsSeq(net["client"])
  BY <1>1, Scenario DEF SecretInv, StartInv, NetInv, Peers
<1>3. m.kind = "ClientHello"
  BY DEF Msg
<1> HIDE DEF m
<1>4. IsSeq(hello) /\ Range(hello) = {m}
  BY OneSeq
<1> HIDE DEF hello
<1>5. /\ DOMAIN l = {"flight", "next", "messages", "sent"}
      /\ l.sent \in 1..RetransmitCount + 1 /\ l.messages = hello /\ IsSeq(l.messages)
  BY <1>2, <1>4, LoopFields
<1> HIDE DEF l
<1>6. /\ Changed(c, d, {"state", "flight", "loops"}) /\ d.state = "connecting" /\ d.flight = 1
      /\ d.loops = {l}
  BY <1>2 DEF ClientInv, SocketInv, SocketFields, Changed
<1> HIDE DEF d
<1>7. /\ d.connected = c.connected /\ d.key = c.key /\ d.peerCert = c.peerCert
      /\ d.lastMessage = c.lastMessage /\ d.waiting = c.waiting /\ d.cache = c.cache
      /\ d.srtp = c.srtp /\ d.connects = c.connects
  BY <1>6 DEF Changed, SocketFields
<1>8. SocketInv(d)
  BY <1>2, <1>5, <1>6, <1>7 DEF SocketInv, ClientInv, Changed
<1>9. ToServer(m, d)
  BY <1>3 DEF ToServer, ServerKinds
<1>10. \A k : Own(d, k) => ToServer(k, d)
  <2>1. \A k : Own(d, k) => Own(c, k) \/ k = m
    BY <1>4, <1>5, <1>6, <1>7 DEF Own
  <2>2. \A k : ToServer(k, c) => ToServer(k, d)
    BY <1>2 DEF ToServer
  <2> QED
    BY <1>2, <1>9, <2>1, <2>2 DEF ClientInv
<1>11. InCache("ServerCertificate", d) => InCache("ServerCertificate", c)
  BY <1>7 DEF InCache
<1>12. ClientInv(d, v)
  BY <1>2, <1>6, <1>7, <1>8, <1>10, <1>11 DEF ClientInv
<1>13. ClientStep(c, Send(d, hello), v)
  BY <1>2, <1>4, <1>6, <1>9, <1>12 DEF ClientStep, Send
<1>14. Stepped
  BY <1>1, <1>2, <1>13, ClientMoves
<1>15. Bounds'
  BY <1>1 DEF Bounds, SecretInv
<1> QED
  BY <1>14, <1>15

LEMMA UdpOnMessageSecret ==
    ASSUME SecretInv, NEW p \in Peers, NEW i \in DOMAIN net[p], udpOnMessage(p, i)
    PROVE  Stepped /\ Bounds'
<1>1. /\ Receive(p, RemoveAt(net[p], i), net[p][i]) /\ UNCHANGED <<losses, copies, held>>
      /\ scenario' = scenario
      /\ overtakes' = overtakes \/ (overtakes < scenario.overtakes /\ overtakes' = overtakes + 1)
  BY DEF udpOnMessage, Receive, Step
<1>2. Stepped
  BY <1>1, OnTheWay, ReceiveMoves
<1>3. Bounds'
  BY <1>1, Scenario DEF Bounds, SecretInv
<1> QED
  BY <1>2, <1>3

LEMMA LateCopySecret ==
    ASSUME SecretInv, NEW h \in held, lateCopy(h)
    PROVE  Stepped /\ Bounds'
<1>1. /\ Receive(h[1], net[h[1]], h[2]) /\ held' \subseteq held
      /\ UNCHANGED <<losses, copies, overtakes>> /\ scenario' = scenario
  BY DEF lateCopy, Receive, Step
<1>2. /\ h[1] \in Peers /\ IsSeq(net[h[1]]) /\ sock["client"].state # "new"
      /\ h[1] = "client" => ToClient(h[2], sock["server"])
      /\ h[1] = "server" => ToServer(h[2], sock["client"])
  BY DEF SecretInv, NetInv, StartInv
<1>3. Stepped
  BY <1>1, <1>2, ReceiveMoves
<1>4. Bounds'
  BY <1>1 DEF Bounds, SecretInv
<1> QED
  BY <1>3, <1>4

LEMMA RepeatSecret ==
    ASSUME SecretInv, NEW p \in Peers, NEW i \in DOMAIN net[p], repeat(p, i)
    PROVE  Stepped /\ Bounds'
<1>1. /\ copies < scenario.copies /\ copies' = copies + 1 /\ held' = held \union {<<p, net[p][i]>>}
      /\ UNCHANGED <<scenario, net, losses, overtakes, sock>>
  BY DEF repeat
<1>2. NetInv(net, held', sock["client"], sock["server"])
  BY <1>1, OnTheWay DEF NetInv, SecretInv
<1>3. StartInv(net, held', sock["client"], sock["server"])
  BY OnTheWay DEF StartInv, SecretInv
<1>4. Stepped
  BY <1>1, <1>2, <1>3 DEF Stepped, SecretInv
<1>5. Bounds'
  BY <1>1, Scenario DEF Bounds, SecretInv
<1> QED
  BY <1>4, <1>5

\* A step that takes datagrams away and leaves the sockets alone.
LEMMA LoseSecret ==
    ASSUME SecretInv, NEW p \in Peers, NEW i \in DOMAIN net[p], lose(p, i)
    PROVE  Stepped /\ Bounds'
<1>1. /\ losses < scenario.losses /\ losses' = losses + 1 /\ UNCHANGED <<copies, held, overtakes>>
      /\ Step(p, RemoveAt(net[p], i), Keep(sock[p])) /\ scenario' = scenario
  BY DEF lose, Step
<1>2. /\ ClientInv(sock["client"], sock["server"]) /\ ServerInv(sock["server"], sock["client"])
      /\ sock["client"].flight # 0 /\ sock["client"].state # "new"
  BY OnTheWay DEF SecretInv, StartInv
<1>3. ClientStep(sock["client"], Keep(sock["client"]), sock["server"])
  BY <1>2, KeepClient
<1>4. ServerStep(sock["server"], Keep(sock["server"]), sock["client"])
  <2>1. Grows(sock["server"], sock["server"])
    BY <1>2 DEF Grows, ServerInv, SocketInv
  <2> QED
    BY <1>2, <2>1, KeepServer
<1>5. Stepped
  <2>1. CASE p = "client"
    BY <1>1, <1>3, <2>1, OnTheWay, ClientMoves
  <2>2. CASE p = "server"
    BY <1>1, <1>2, <1>4, <2>2, OnTheWay, ServerMoves
  <2> QED
    BY <2>1, <2>2 DEF Peers
<1>6. Bounds'
  BY <1>1, Scenario DEF Bounds, SecretInv
<1> QED
  BY <1>5, <1>6

\* A handler that waits belongs to an end whose client has started.
LEMMA Waits ==
    ASSUME SecretInv, NEW p \in Peers, NEW i \in DOMAIN sock[p].waiting
    PROVE  /\ IsSeq(sock[p].waiting) /\ IsSeq(RemoveAt(sock[p].waiting, i))
           /\ \A k \in Range(RemoveAt(sock[p].waiting, i)) : k \in Range(sock[p].waiting)
           /\ sock[p].waiting[i] \in Range(sock[p].waiting)
           /\ sock["client"].state # "new" /\ sock["client"].flight # 0
           /\ IsSeq(net[p])
<1>1. /\ ClientInv(sock["client"], sock["server"]) /\ ServerInv(sock["server"], sock["client"])
      /\ StartInv(net, held, sock["client"], sock["server"]) /\ IsSeq(net[p])
  BY DEF SecretInv, NetInv
<1>2. IsSeq(sock[p].waiting)
  BY <1>1 DEF ClientInv, ServerInv, SocketInv, Peers
<1>3. sock[p].waiting[i] \in Range(sock[p].waiting)
  BY DEF Range
<1>4. sock[p].waiting # <<>>
  BY <1>3, NoSeq
<1>5. sock["client"].state # "new" /\ sock["client"].flight # 0
  BY <1>1, <1>4 DEF StartInv, Peers
<1> QED
  BY <1>1, <1>2, <1>3, <1>5, RemoveSeq

LEMMA WaitForReadySecret ==
    ASSUME SecretInv, NEW p \in Peers, NEW i \in DOMAIN sock[p].waiting, waitForReady(p, i)
    PROVE  Stepped /\ Bounds'
<1> DEFINE c == sock["client"]
           v == sock["server"]
           q == RemoveAt(sock[p].waiting, i)
           m == sock[p].waiting[i]
           s == [sock[p] EXCEPT !.waiting = q]
           r == IF p = "server" THEN Flight6(s) ELSE clientHandles(s, m)
<1>1. /\ Resumable(p, m) /\ Step(p, net[p], r) /\ scenario' = scenario
      /\ UNCHANGED <<losses, copies, held, overtakes>>
  <2>1. DOMAIN sock[p] = SocketFields
    BY DEF SecretInv, ClientInv, ServerInv, SocketInv, Peers
  <2>2. s = [sock[p] EXCEPT !.waiting = RemoveAt(@, i)]
    BY <2>1 DEF SocketFields
  <2> QED
    BY <2>2 DEF waitForReady, Step
<1>2. /\ ClientInv(c, v) /\ ServerInv(v, c) /\ RetransmitCount \in Nat
      /\ v.connects \in Nat /\ (v.connects > 0 => c.flight >= 3)
  BY Scenario DEF SecretInv, ServerInv, SocketInv
<1>3. /\ IsSeq(q) /\ \A k \in Range(q) : k \in Range(sock[p].waiting)
      /\ m \in Range(sock[p].waiting) /\ c.state # "new" /\ c.flight # 0 /\ IsSeq(net[p])
  BY Waits
<1>b. Bounds'
  BY <1>1 DEF Bounds, SecretInv
<1> HIDE DEF q, m
<1>4. CASE p = "client"
  <2>1. m.kind \in {"ServerCertificate", "ServerKeyExchange", "CertificateRequest", "ServerHelloDone"}
    BY <1>2, <1>3, <1>4 DEF ClientInv
  <2>2. ClientInv(s, v) /\ Changed(c, s, {"waiting"})
    BY <1>2, <1>3, <1>4, WaitClient DEF ClientInv
  <2>3. r = clientHandles(s, m)
    BY <1>4
  <2> HIDE DEF s, r
  <2>4. s.flight = c.flight /\ s.state = c.state
    BY <2>2 DEF Changed, SocketFields
  <2>5. ToClient(m, v)
    BY <2>1 DEF ToClient, ClientKinds
  <2>6. Opens(s, m)
    BY <2>1 DEF Opens
  <2>7. ClientStep(s, clientHandles(s, m), v)
    BY <1>2, <1>3, <2>2, <2>4, <2>5, <2>6, ClientHandles
  <2>8. ClientStep(c, r, v)
    BY <2>3, <2>4, <2>7 DEF ClientStep
  <2>9. Stepped
    BY <1>1, <1>3, <1>4, <2>8, ClientMoves
  <2> QED
    BY <1>b, <2>9
<1>5. CASE p = "server"
  <2>1. ServerInv(s, c) /\ Grows(v, s) /\ s.cache = v.cache
    <3>1. \A k \in Range(q) : k.kind = "ClientFinished"
      BY <1>2, <1>3, <1>5 DEF ServerInv
    <3>2. s = [v EXCEPT !.waiting = q]
      BY <1>5
    <3> HIDE DEF s, v, c
    <3> QED
      BY <1>2, <1>3, <3>1, <3>2, WaitServer
  <2>2. checkHandshakesExist(v.cache, RequiredHandshakes)
    BY <1>1, <1>5 DEF Resumable
  <2>3. r = Flight6(s)
    BY <1>5
  <2> HIDE DEF s, r
  <2>4. ServerStep(s, r, c)
    BY <2>1, <2>2, <2>3, Flight6Step
  <2>5. ServerStep(v, r, c)
    BY <2>1, <2>4, GrowsOn
  <2>6. Stepped
    BY <1>1, <1>3, <1>5, <2>5, ServerMoves
  <2> QED
    BY <1>b, <2>6
<1> QED
  BY <1>4, <1>5 DEF Peers

LEMMA WaitForReadyTimeoutSecret ==
    ASSUME SecretInv, NEW p \in Peers, NEW i \in DOMAIN sock[p].waiting, waitForReadyTimeout(p, i)
    PROVE  Stepped /\ Bounds'
<1> DEFINE c == sock["client"]
           v == sock["server"]
           q == RemoveAt(sock[p].waiting, i)
           s == [sock[p] EXCEPT !.waiting = q]
           d == Fail(s)
<1>1. /\ Step(p, net[p], Keep(d)) /\ scenario' = scenario
      /\ UNCHANGED <<losses, copies, held, overtakes>>
  <2>1. DOMAIN sock[p] = SocketFields
    BY DEF SecretInv, ClientInv, ServerInv, SocketInv, Peers
  <2>2. s = [sock[p] EXCEPT !.waiting = RemoveAt(@, i)]
    BY <2>1 DEF SocketFields
  <2> QED
    BY <2>2 DEF waitForReadyTimeout, Step
<1>2. ClientInv(c, v) /\ ServerInv(v, c)
  BY DEF SecretInv
<1>3. /\ IsSeq(q) /\ \A k \in Range(q) : k \in Range(sock[p].waiting)
      /\ c.state # "new" /\ c.flight # 0 /\ IsSeq(net[p])
  BY Waits
<1>b. Bounds'
  BY <1>1 DEF Bounds, SecretInv
<1> HIDE DEF q, d
<1>4. CASE p = "client"
  <2>1. ClientInv(s, v) /\ Changed(c, s, {"waiting"})
    BY <1>2, <1>3, <1>4, WaitClient DEF ClientInv
  <2> HIDE DEF s
  <2>2. s.flight = c.flight
    BY <2>1 DEF Changed, SocketFields
  <2>3. ClientStep(s, Keep(d), v)
    BY <1>3, <2>1, <2>2, FailClient DEF d
  <2>4. ClientStep(c, Keep(d), v)
    BY <2>2, <2>3 DEF ClientStep
  <2>5. Stepped
    BY <1>1, <1>3, <1>4, <2>4, ClientMoves
  <2> QED
    BY <1>b, <2>5
<1>5. CASE p = "server"
  <2>1. ServerInv(s, c) /\ Grows(v, s)
    <3>1. \A k \in Range(q) : k.kind = "ClientFinished"
      BY <1>2, <1>3, <1>5 DEF ServerInv
    <3>2. s = [v EXCEPT !.waiting = q]
      BY <1>5
    <3> HIDE DEF s, v, c
    <3> QED
      BY <1>2, <1>3, <3>1, <3>2, WaitServer
  <2> HIDE DEF s
  <2>2. Changed(s, d, {"state", "failures"}) /\ d.state = "failed"
    BY <2>1, FailFields DEF d, ServerInv
  <2>3. ServerInv(d, c) /\ Grows(s, d)
    BY <2>1, <2>2, ServerFrame DEF ServerFields
  <2>4. ServerStep(v, Keep(d), c)
    BY <2>1, <2>3, KeepServer, GrowsOn
  <2>5. Stepped
    BY <1>1, <1>3, <1>5, <2>4, ServerMoves
  <2> QED
    BY <1>b, <2>5
<1> QED
  BY <1>4, <1>5 DEF Peers

\* Fewer loops, or the ones there were with as many messages.
LEMMA LoopsClient ==
    ASSUME NEW c, NEW v, NEW L, ClientInv(c, v),
           \A l \in L : /\ DOMAIN l = {"flight", "next", "messages", "sent"}
                        /\ l.sent \in 1..RetransmitCount + 1 /\ IsSeq(l.messages)
                        /\ \E k \in c.loops : l.messages = k.messages
    PROVE  LET d == [c EXCEPT !.loops = L]
           IN  ClientInv(d, v) /\ Changed(c, d, {"loops"}) /\ d.loops = L
<1> DEFINE d == [c EXCEPT !.loops = L]
<1>1. Changed(c, d, {"loops"}) /\ d.loops = L
  BY DEF ClientInv, SocketInv, SocketFields, Changed
<1> HIDE DEF d
<1>2. /\ d.connected = c.connected /\ d.peerCert = c.peerCert /\ d.flight = c.flight
      /\ d.srtp = c.srtp /\ d.connects = c.connects /\ d.state = c.state /\ d.key = c.key
      /\ d.waiting = c.waiting /\ d.lastMessage = c.lastMessage /\ d.cache = c.cache
  BY <1>1 DEF Changed, SocketFields
<1>3. SocketInv(d)
  BY <1>1, <1>2 DEF SocketInv, ClientInv, Changed
<1>4. \A m : Own(d, m) => Own(c, m)
  BY <1>1, <1>2 DEF Own
<1>5. \A m : Own(d, m) => ToServer(m, d)
  BY <1>2, <1>4 DEF ToServer, ClientInv
<1>6. InCache("ServerCertificate", d) \/ d.key # None => d.peerCert
  BY <1>2 DEF InCache, ClientInv
<1>7. ClientInv(d, v)
  BY <1>2, <1>3, <1>5, <1>6 DEF ClientInv
<1> QED
  BY <1>1, <1>7 DEF d

LEMMA LoopsServer ==
    ASSUME NEW v, NEW c, NEW L, ServerInv(v, c),
           \A l \in L : /\ DOMAIN l = {"flight", "next", "messages", "sent"}
                        /\ l.sent \in 1..RetransmitCount + 1 /\ IsSeq(l.messages)
                        /\ \E k \in v.loops : l.messages = k.messages
    PROVE  LET w == [v EXCEPT !.loops = L]
           IN  ServerInv(w, c) /\ Grows(v, w) /\ w.loops = L
<1> DEFINE w == [v EXCEPT !.loops = L]
<1>1. Changed(v, w, {"loops"}) /\ w.loops = L
  BY DEF ServerInv, SocketInv, SocketFields, Changed
<1> HIDE DEF w
<1>2. /\ w.flight = v.flight /\ w.connected = v.connected /\ w.cache = v.cache
      /\ w.key = v.key /\ w.lastMessage = v.lastMessage /\ w.state = v.state
      /\ w.waiting = v.waiting /\ w.srtp = v.srtp /\ w.connects = v.connects /\ w.cookie = v.cookie
  BY <1>1 DEF Changed, SocketFields
<1>3. SocketInv(w)
  BY <1>1, <1>2 DEF SocketInv, ServerInv, Changed
<1>4. Grows(v, w)
  BY <1>2 DEF Grows, ServerInv, SocketInv
<1>5. \A m : Own(w, m) => ToClient(m, w)
  <2>1. \A m : Own(w, m) => Own(v, m)
    BY <1>1, <1>2 DEF Own
  <2> QED
    BY <1>4, <2>1, GrowsToClient DEF ServerInv
<1>6. \A k : InCache(k, w) <=> InCache(k, v)
  BY <1>2 DEF InCache
<1>7. ServerInv(w, c)
  BY <1>2, <1>3, <1>5, <1>6 DEF ServerInv
<1> QED
  BY <1>1, <1>4, <1>7 DEF w

LEMMA TransmitSecret ==
    ASSUME SecretInv, NEW p \in Peers, NEW l \in sock[p].loops, transmit(p, l)
    PROVE  Stepped /\ Bounds'
<1> DEFINE c == sock["client"]
           v == sock["server"]
           L == sock[p].loops \ {l}
           s == [sock[p] EXCEPT !.loops = L]
           k == [l EXCEPT !.sent = @ + 1]
           M == L \union {k}
           t == [sock[p] EXCEPT !.loops = M]
           r == IF s.flight >= l.next THEN Keep(s)
                ELSE IF l.sent > RetransmitCount THEN Keep(Fail(s))
                ELSE Send(t, l.messages)
<1>0. DOMAIN sock[p] = SocketFields
  BY DEF SecretInv, ClientInv, ServerInv, SocketInv, Peers
<1>1. /\ Step(p, net[p], r) /\ scenario' = scenario
      /\ UNCHANGED <<losses, copies, held, overtakes>>
  <2> DEFINE u == [s EXCEPT !.loops = @ \union {k}]
             x == IF s.flight >= l.next THEN Keep(s)
                  ELSE IF l.sent > RetransmitCount THEN Keep(Fail(s))
                  ELSE Send(u, l.messages)
  <2>1. Step(p, net[p], x) /\ UNCHANGED <<losses, copies, held, overtakes>>
    BY DEF transmit
  <2>2. u = t
    BY <1>0 DEF SocketFields
  <2>3. x = r
    <3> HIDE DEF u, t, s
    <3> QED
      BY <2>2
  <2> HIDE DEF x, r
  <2> QED
    BY <2>1, <2>3 DEF Step
<1>2. /\ ClientInv(c, v) /\ ServerInv(v, c) /\ RetransmitCount \in Nat
  BY Scenario DEF SecretInv
<1>b. Bounds'
  BY <1>1 DEF Bounds, SecretInv
<1>3. /\ c.state # "new" /\ c.flight # 0 /\ IsSeq(net[p])
  BY DEF SecretInv, StartInv, NetInv, Peers
<1>4. \A x \in sock[p].loops : /\ DOMAIN x = {"flight", "next", "messages", "sent"}
                               /\ x.sent \in 1..RetransmitCount + 1 /\ IsSeq(x.messages)
  BY <1>2 DEF ClientInv, ServerInv, SocketInv, Peers
<1>5. ~(l.sent > RetransmitCount) =>
         /\ DOMAIN k = {"flight", "next", "messages", "sent"}
         /\ k.sent \in 1..RetransmitCount + 1 /\ k.messages = l.messages
  <2>1. /\ DOMAIN k = {"flight", "next", "messages", "sent"}
        /\ k.sent = l.sent + 1 /\ k.messages = l.messages
    BY <1>4
  <2> HIDE DEF k
  <2> QED
    BY <1>2, <1>4, <2>1
<1> HIDE DEF k
<1>6. \A x \in L : /\ DOMAIN x = {"flight", "next", "messages", "sent"}
                   /\ x.sent \in 1..RetransmitCount + 1 /\ IsSeq(x.messages)
                   /\ \E y \in sock[p].loops : x.messages = y.messages
  BY <1>4
<1>7. ~(l.sent > RetransmitCount) =>
         \A x \in M : /\ DOMAIN x = {"flight", "next", "messages", "sent"}
                      /\ x.sent \in 1..RetransmitCount + 1 /\ IsSeq(x.messages)
                      /\ \E y \in sock[p].loops : x.messages = y.messages
  BY <1>4, <1>5, <1>6
<1>8. IsSeq(l.messages) /\ \A m \in Range(l.messages) : Own(sock[p], m)
  BY <1>4 DEF Own
<1>9. r = Keep(s) \/ r = Keep(Fail(s)) \/ (~(l.sent > RetransmitCount) /\ r = Send(t, l.messages))
  OBVIOUS
<1> HIDE DEF L, M, r
<1>10. CASE p = "client"
  <2>1. ClientInv(s, v) /\ Changed(c, s, {"loops"})
    <3>1. s = [c EXCEPT !.loops = L]
      BY <1>10
    <3> HIDE DEF s, v, c
    <3> QED
      BY <1>2, <1>6, <1>10, <3>1, LoopsClient DEF c
  <2>2. ~(l.sent > RetransmitCount) => ClientInv(t, v) /\ Changed(c, t, {"loops"})
    <3>1. t = [c EXCEPT !.loops = M]
      BY <1>10
    <3> HIDE DEF t, v, c
    <3> QED
      BY <1>2, <1>7, <1>10, <3>1, LoopsClient DEF c
  <2> HIDE DEF s, t
  <2>3. s.flight = c.flight /\ s.state = c.state
    BY <2>1 DEF Changed, SocketFields
  <2>4. ~(l.sent > RetransmitCount) => t.flight = c.flight /\ t.state = c.state
    BY <2>2 DEF Changed, SocketFields
  <2>5. ClientStep(c, r, v)
    <3>1. CASE r = Keep(s)
      BY <1>3, <2>1, <2>3, <3>1, KeepClient
    <3>2. CASE r = Keep(Fail(s))
      <4>1. ClientStep(s, Keep(Fail(s)), v)
        BY <1>3, <2>1, <2>3, FailClient
      <4> QED
        BY <2>3, <3>2, <4>1 DEF ClientStep
    <3>3. CASE ~(l.sent > RetransmitCount) /\ r = Send(t, l.messages)
      <4>1. \A m \in Range(l.messages) : ToServer(m, t)
        BY <1>2, <1>8, <1>10, <2>4, <3>3 DEF ClientInv, ToServer
      <4> QED
        BY <1>3, <1>8, <2>2, <2>4, <3>3, <4>1 DEF ClientStep, Send
    <3> QED
      BY <1>9, <3>1, <3>2, <3>3
  <2>6. Stepped
    BY <1>1, <1>3, <1>10, <2>5, ClientMoves
  <2> QED
    BY <1>b, <2>6
<1>11. CASE p = "server"
  <2>1. ServerInv(s, c) /\ Grows(v, s)
    <3>1. s = [v EXCEPT !.loops = L]
      BY <1>11
    <3> HIDE DEF s, v, c
    <3> QED
      BY <1>2, <1>6, <1>11, <3>1, LoopsServer DEF v
  <2>2. ~(l.sent > RetransmitCount) => ServerInv(t, c) /\ Grows(v, t)
    <3>1. t = [v EXCEPT !.loops = M]
      BY <1>11
    <3> HIDE DEF t, v, c
    <3> QED
      BY <1>2, <1>7, <1>11, <3>1, LoopsServer DEF v
  <2> HIDE DEF s, t
  <2>3. ServerStep(v, r, c)
    <3>1. CASE r = Keep(s)
      BY <2>1, <3>1, KeepServer
    <3>2. CASE r = Keep(Fail(s))
      <4>1. Changed(s, Fail(s), {"state", "failures"}) /\ Fail(s).state = "failed"
        BY <2>1, FailFields DEF ServerInv
      <4>2. ServerInv(Fail(s), c) /\ Grows(s, Fail(s))
        BY <2>1, <4>1, ServerFrame DEF ServerFields
      <4> QED
        BY <2>1, <3>2, <4>2, KeepServer, GrowsOn
    <3>3. CASE ~(l.sent > RetransmitCount) /\ r = Send(t, l.messages)
      <4>1. \A m \in Range(l.messages) : ToClient(m, t)
        <5>1. \A m \in Range(l.messages) : ToClient(m, v)
          BY <1>2, <1>8, <1>11 DEF ServerInv
        <5> QED
          BY <2>2, <3>3, <5>1, GrowsToClient
      <4> QED
        BY <1>8, <2>2, <3>3, <4>1 DEF ServerStep, Send
    <3> QED
      BY <1>9, <3>1, <3>2, <3>3
  <2>4. Stepped
    BY <1>1, <1>3, <1>11, <2>3, ServerMoves
  <2> QED
    BY <1>b, <2>4
<1> QED
  BY <1>10, <1>11 DEF Peers

LEMMA StopSecret ==
    ASSUME SecretInv, NEW p \in Peers, stop(p)
    PROVE  Stepped /\ Bounds'
<1> DEFINE c == sock["client"]
           v == sock["server"]
           s == [sock[p] EXCEPT !.open = FALSE, !.state = "closed", !.loops = {}]
           F == {"open", "state", "loops"}
<1>0. DOMAIN sock[p] = SocketFields
  BY DEF SecretInv, ClientInv, ServerInv, SocketInv, Peers
<1>1. /\ Step(p, <<>>, Keep(s)) /\ scenario' = scenario /\ sock[p].state # "new"
      /\ UNCHANGED <<losses, copies, held, overtakes>>
  BY DEF stop, Step
<1>2. Changed(sock[p], s, F) /\ s.state = "closed" /\ s.loops = {}
  BY <1>0 DEF Changed, SocketFields
<1> HIDE DEF s
<1>b. Bounds'
  BY <1>1 DEF Bounds, SecretInv
<1>3. ClientInv(c, v) /\ ServerInv(v, c)
  BY DEF SecretInv
<1>4. CASE p = "client"
  <2> DEFINE d == [c EXCEPT !.loops = {}]
  <2>1. ClientInv(d, v) /\ Changed(c, d, {"loops"})
    BY <1>3, LoopsClient
  <2> HIDE DEF d
  <2>2. Changed(d, s, {"open", "state", "loops"}) /\ s.loops = d.loops
    <3>1. d.loops = {}
      BY <1>3 DEF d, ClientInv, SocketInv, SocketFields
    <3> QED
      BY <1>2, <1>4, <2>1, <3>1 DEF Changed, SocketFields
  <2>3. Changed(d, s, {"open", "state"})
    BY <2>2 DEF Changed, SocketFields
  <2>4. ClientInv(s, v)
    BY <1>2, <2>1, <2>3, ClientFrame DEF ClientFields
  <2>5. s.flight = c.flight
    BY <1>2, <1>4 DEF Changed, SocketFields
  <2>6. c.flight # 0
    BY <1>1, <1>4 DEF SecretInv, StartInv
  <2>7. ClientStep(c, Keep(s), v)
    BY <1>2, <2>4, <2>5, <2>6, KeepClient
  <2>8. Stepped
    BY <1>1, <1>4, <2>7, NoSeq, ClientMoves
  <2> QED
    BY <1>b, <2>8
<1>5. CASE p = "server"
  <2> DEFINE w == [v EXCEPT !.loops = {}]
  <2>1. ServerInv(w, c) /\ Grows(v, w) /\ w.loops = {}
    BY <1>3, LoopsServer
  <2>2. Changed(v, w, {"loops"})
    BY <1>0, <1>5 DEF Changed, SocketFields
  <2> HIDE DEF w
  <2>3. Changed(w, s, {"open", "state", "loops"}) /\ s.loops = w.loops
    BY <1>2, <1>5, <2>1, <2>2 DEF Changed, SocketFields
  <2>4. Changed(w, s, {"open", "state"})
    BY <2>3 DEF Changed, SocketFields
  <2>5. ServerInv(s, c) /\ Grows(w, s)
    BY <1>2, <2>1, <2>4, ServerFrame DEF ServerFields
  <2>6. ServerStep(v, Keep(s), c)
    BY <2>1, <2>5, KeepServer, GrowsOn
  <2>7. CASE c.state # "new"
    <3>1. Stepped
      BY <1>1, <1>5, <2>6, <2>7, NoSeq, ServerMoves
    <3> QED
      BY <1>b, <3>1
  \* Nothing has been sent yet.
  <2>8. CASE c.state = "new"
    <3>1. /\ held = {} /\ net["client"] = <<>> /\ net["server"] = <<>>
          /\ c.waiting = <<>> /\ c.loops = {} /\ v.waiting = <<>> /\ c.flight = 0
          /\ DOMAIN sock = Peers /\ DOMAIN net = Peers
      BY <2>8 DEF SecretInv, StartInv, NetInv, Peers
    <3>2. sock' = [sock EXCEPT !["server"] = s] /\ held' = held
          /\ net' = [net EXCEPT !["server"] = <<>>, !["client"] = @ \o <<>>]
      BY <1>1, <1>5 DEF Step, Keep, Send, Other
    <3>3. <<>> \o <<>> = <<>>
      OBVIOUS
    <3>4. /\ DOMAIN sock' = Peers /\ sock'["client"] = c /\ sock'["server"] = s
          /\ DOMAIN net' = Peers /\ net'["client"] = <<>> /\ net'["server"] = <<>>
      BY <3>1, <3>2, <3>3 DEF Peers
    <3>5. s.waiting = <<>>
      BY <1>2, <1>5, <3>1 DEF Changed, SocketFields
    <3> HIDE DEF c, v
    <3>6. ClientInv(c, s)
      BY <1>3, <2>1, <2>5, ClientKeeps
    <3>7. \A k \in Peers : net'[k] = <<>>
      BY <3>4 DEF Peers
    <3>8. NetInv(net', held', c, s)
      BY <3>1, <3>2, <3>4, <3>7, NoSeq DEF NetInv
    <3>9. StartInv(net', held', c, s)
      BY <1>2, <2>8, <3>1, <3>2, <3>5, <3>7 DEF StartInv
    <3>10. Stepped
      BY <1>1, <2>5, <3>4, <3>6, <3>8, <3>9 DEF Stepped
    <3> QED
      BY <1>b, <3>10
  <2> QED
    BY <2>7, <2>8
<1> QED
  BY <1>4, <1>5 DEF Peers

-----------------------------------------------------------------------------
(* Theorems.                                                                 *)

LEMMA InitSecret ==
    ASSUME Init
    PROVE  SecretInv
<1> DEFINE c == sock["client"]
           v == sock["server"]
<1>1. /\ scenario \in Scenarios /\ losses = 0 /\ copies = 0 /\ held = {} /\ overtakes = 0
      /\ DOMAIN net = Peers /\ \A p \in Peers : net[p] = <<>>
      /\ DOMAIN sock = Peers
      /\ c = [FreshSocket EXCEPT !.state = "new"] /\ v = [FreshSocket EXCEPT !.state = "connecting"]
  BY DEF Init, Peers
<1>2. /\ DOMAIN c = SocketFields /\ DOMAIN v = SocketFields
  BY <1>1 DEF FreshSocket, SocketFields
<1>3. \A s \in {c, v} :
        /\ s.flight = 0 /\ s.connected = FALSE /\ s.cache = {} /\ s.cookie = None
        /\ s.peerCert = FALSE /\ s.key = None /\ s.lastMessage = <<>> /\ s.waiting = <<>>
        /\ s.loops = {} /\ s.srtp = None /\ s.connects = 0
  BY <1>1 DEF FreshSocket
<1>4. c.state = "new" /\ v.state = "connecting"
  BY <1>1 DEF FreshSocket
<1>b. c.connected \in BOOLEAN /\ v.connected \in BOOLEAN
  <2>1. c.connected = FALSE /\ v.connected = FALSE
    BY <1>3
  <2> QED
    BY <2>1, Zenon
<1> HIDE DEF c, v
<1>5. SocketInv(c) /\ SocketInv(v)
  <2> SUFFICES ASSUME NEW s \in {c, v} PROVE SocketInv(s)
    OBVIOUS
  <2>1. DOMAIN s = SocketFields /\ s.state \in {"new", "connecting"}
    BY <1>2, <1>4
  <2>2. s.connected \in BOOLEAN /\ s.connects \in Nat /\ s.loops = {} /\ s.cache = {}
    BY <1>3, <1>b
  <2>3. IsSeq(s.lastMessage) /\ IsSeq(s.waiting)
    BY <1>3, NoSeq
  <2> QED
    BY <2>1, <2>2, <2>3 DEF SocketInv
<1>6. \A m : ~Own(c, m) /\ ~Own(v, m)
  BY <1>3, NoSeq DEF Own
<1>7. \A k : ~InCache(k, c) /\ ~InCache(k, v)
  BY <1>3 DEF InCache
<1>8. ClientInv(c, v)
  BY <1>3, <1>5, <1>6, <1>7, NoSeq DEF ClientInv
<1>9. ServerInv(v, c)
  BY <1>3, <1>5, <1>6, <1>7, NoSeq DEF ServerInv
<1>10. NetInv(net, held, c, v)
  BY <1>1, NoSeq DEF NetInv, Peers
<1>11. StartInv(net, held, c, v)
  BY <1>1, <1>3, <1>4 DEF StartInv
<1>12. losses \in 0..scenario.losses /\ copies \in 0..scenario.copies
       /\ overtakes \in 0..scenario.overtakes
  BY <1>1, ScenariosAssumption
<1> QED
  BY <1>1, <1>8, <1>9, <1>10, <1>11, <1>12 DEF SecretInv, c, v

LEMMA NextSecret ==
    ASSUME SecretInv, [Next]_vars
    PROVE  SecretInv'
<1>1. CASE start
  BY <1>1, StartSecret, SteppedInv
<1>2. ASSUME NEW p \in Peers, NEW i \in DOMAIN net[p], udpOnMessage(p, i) PROVE SecretInv'
  BY <1>2, UdpOnMessageSecret, SteppedInv
<1>3. ASSUME NEW p \in Peers, NEW i \in DOMAIN sock[p].waiting, waitForReady(p, i) PROVE SecretInv'
  BY <1>3, WaitForReadySecret, SteppedInv
<1>4. ASSUME NEW p \in Peers, NEW l \in sock[p].loops, transmit(p, l) PROVE SecretInv'
  BY <1>4, TransmitSecret, SteppedInv
<1>5. ASSUME NEW h \in held, lateCopy(h) PROVE SecretInv'
  BY <1>5, LateCopySecret, SteppedInv
<1>6. ASSUME NEW p \in Peers, NEW i \in DOMAIN net[p], repeat(p, i) PROVE SecretInv'
  BY <1>6, RepeatSecret, SteppedInv
<1>7. ASSUME NEW p \in Peers, NEW i \in DOMAIN net[p], lose(p, i) PROVE SecretInv'
  BY <1>7, LoseSecret, SteppedInv
<1>8. ASSUME NEW p \in Peers, NEW i \in DOMAIN sock[p].waiting, waitForReadyTimeout(p, i)
      PROVE  SecretInv'
  BY <1>8, WaitForReadyTimeoutSecret, SteppedInv
<1>9. ASSUME NEW p \in Peers, stop(p) PROVE SecretInv'
  BY <1>9, StopSecret, SteppedInv
<1>10. CASE UNCHANGED vars
  BY <1>10 DEF vars, SecretInv, ClientInv, ServerInv, SocketInv, NetInv, StartInv, RetransmitCount
<1> QED
  BY <1>1, <1>2, <1>3, <1>4, <1>5, <1>6, <1>7, <1>8, <1>9, <1>10 DEF Next, Progress

\* The inductive invariant of the secrets, for every scenario: which messages may
\* be on their way, which cookie the client answers, and whose keys are exported.
THEOREM HandshakeInvariant == Spec => []SecretInv
<1>1. Init => SecretInv
  BY InitSecret
<1>2. SecretInv /\ [Next]_vars => SecretInv'
  BY NextSecret
<1> QED
  BY <1>1, <1>2, PTL DEF Spec

\* Two connected transports hold the same media keys, and the client connects only
\* after the server accepted its flight 5 (Flight6.exec), for any number of lost,
\* repeated and overtaking datagrams, timeouts and restarts of the handshake.
THEOREM SecretsAlwaysAgree == Spec => []SecretsAgree
<1>1. SecretInv => SecretsAgree
  <2> SUFFICES ASSUME SecretInv PROVE SecretsAgree
    OBVIOUS
  <2> DEFINE c == sock["client"]
             v == sock["server"]
  <2>1. /\ ClientInv(c, v) /\ ServerInv(v, c) /\ NetInv(net, held, c, v)
    BY DEF SecretInv
  <2>2. SrtpKeysAgree
    BY <2>1 DEF SrtpKeysAgree, ClientInv
  <2>3. ClientConnectsLast
    BY <2>1 DEF ClientConnectsLast, ClientInv
  <2>4. ASSUME NEW p \in Peers
        PROVE  /\ sock[p].flight \in (IF p = "client" THEN {0, 1, 3, 5, 7} ELSE {0, 2, 4, 6})
               /\ sock[p].state \in {"new", "connecting", "connected", "failed", "closed"}
               /\ \A l \in sock[p].loops : l.sent \in 1..RetransmitCount + 1
               /\ \A m \in sock[p].cache \union Range(net[p]) \union Range(sock[p].waiting) :
                    m.kind \in Kinds
    <3>1. SocketInv(sock[p])
      BY <2>1 DEF ClientInv, ServerInv, Peers
    <3>2. sock[p].flight \in (IF p = "client" THEN {0, 1, 3, 5, 7} ELSE {0, 2, 4, 6})
      BY <2>1 DEF ClientInv, ServerInv, Peers
    <3>3. \A m \in Range(net[p]) : m.kind \in ClientKinds \union ServerKinds
      BY <2>1 DEF NetInv, ToClient, ToServer, Peers
    <3>4. \A m \in Range(sock[p].waiting) : m.kind \in ClientKinds \union ServerKinds
      BY <2>1 DEF ClientInv, ServerInv, Peers, ClientKinds, ServerKinds
    <3>5. ClientKinds \union ServerKinds \subseteq Kinds
      BY DEF ClientKinds, ServerKinds, Kinds
    <3> QED
      BY <3>1, <3>2, <3>3, <3>4, <3>5 DEF SocketInv
  <2>5. TypeOK
    BY <2>4 DEF TypeOK, SecretInv
  <2> QED
    BY <2>2, <2>3, <2>5 DEF SecretsAgree
<1> QED
  BY <1>1, HandshakeInvariant, PTL

-----------------------------------------------------------------------------
(* The invariant of a session that is kept: without copies, overtaking       *)
(* datagrams and harmful losses, flights follow one another.                 *)

Calm == scenario.copies = 0 /\ scenario.overtakes = 0 /\ scenario.lossable \subseteq Recoverable

\* The place of a message among the flights of its sender.
Phase(m) ==
    IF m.kind \in {"ClientHello", "HelloVerifyRequest"} THEN 1
    ELSE IF m.kind \in {"ClientHelloCookie", "ServerHello", "ServerCertificate", "ServerKeyExchange",
                        "CertificateRequest", "ServerHelloDone"} THEN 2
    ELSE 3

\* The place of the last flight a sender sent.
Stage(flight) == IF flight = 0 THEN 0 ELSE IF flight \in {1, 2} THEN 1
                 ELSE IF flight \in {3, 4} THEN 2 ELSE 3

AllIn(q, stage) == \A i \in DOMAIN q : Phase(q[i]) = stage

\* The datagrams on their way arrive in the order of the flights.
InStages(q, low, high) ==
    /\ \A i \in DOMAIN q : low <= Phase(q[i]) /\ Phase(q[i]) <= high
    /\ \A i, j \in DOMAIN q : i < j => Phase(q[i]) <= Phase(q[j])

\* Of flight 4, what the client's handlers wait for, and whether it came.
Awaited == {"ServerHello", "ServerCertificate", "ServerKeyExchange"}
Has(c, kind) == IF kind = "ServerHello" THEN c.ready ELSE InCache(kind, c)

Needed(kind) ==
    IF kind \in {"ServerCertificate", "ServerKeyExchange", "CertificateRequest"} THEN {"ServerHello"}
    ELSE IF kind = "ServerHelloDone" THEN Awaited
    ELSE {}

\* Before each message of q is what its handler waits for, unless it is in K.
Complete(q, K) ==
    \A i \in DOMAIN q : \A k \in Needed(q[i].kind) : k \in K \/ \E j \in 1..i - 1 : q[j].kind = k

Came(c) == {k \in Awaited : Has(c, k)}

\* The first flight of the peer that may still be on its way.
Seen(c) == IF c.flight = 7 THEN 3 ELSE IF c.ready THEN 2 ELSE 1
Heard(v) == IF v.connected \/ v.waiting # <<>> THEN 3 ELSE IF v.flight \in {4, 6} THEN 2 ELSE 1

\* What is repeated belongs to the last flight.
Repeats(s) ==
    /\ \A l \in s.loops : /\ l.next \in {3, 5, 6, 7}
                          /\ l.next = 6 => s.flight \in {4, 6}
                          /\ l.next # 6 => s.flight >= l.next - 2
                          /\ AllIn(l.messages, Stage(l.next - 2))
    /\ s.flight \in {4, 5, 6} => AllIn(s.lastMessage, Stage(s.flight))

ClientCalm(c) ==
    /\ Repeats(c) /\ c.waiting = <<>> /\ \A l \in c.loops : l.next # 6
    /\ c.flight \in {5, 7} \/ c.key # None => c.ready
    /\ InCache("ServerCertificate", c) \/ InCache("ServerKeyExchange", c) => c.ready
    /\ c.connected => c.flight = 7
    /\ c.state = "connected" => c.flight = 7 /\ c.connects > 0 /\ c.key = c.srtp

ServerCalm(v) ==
    /\ Repeats(v) /\ \A l \in v.loops : l.next = 6 /\ Complete(l.messages, {})
    /\ v.flight \in {4, 6} => Complete(v.lastMessage, {})
    /\ v.state = "connected" => v.connected /\ v.connects > 0 /\ v.key = v.srtp

CalmInv(toClient, toServer, c, v) ==
    /\ ClientCalm(c) /\ ServerCalm(v)
    /\ InStages(toClient, Seen(c), Stage(v.flight))
    /\ InStages(toServer, Heard(v), Stage(c.flight))
    /\ Seen(c) <= Stage(v.flight) \/ Seen(c) = 1
    /\ Heard(v) <= Stage(c.flight) \/ Heard(v) = 1
    /\ c.open => Complete(toClient, Came(c))

KeptInv == Calm => held = {} /\ CalmInv(net["client"], net["server"], sock["client"], sock["server"])

LEMMA NoneIn ==
    /\ \A k : AllIn(<<>>, k) /\ Complete(<<>>, {})
<1>1. DOMAIN <<>> = {}
  BY NoSeq, SeqFacts
<1> QED
  BY <1>1 DEF AllIn, Complete

\* Messages of one kind that wait for nothing.
LEMMA OneIn ==
    ASSUME NEW m
    PROVE  AllIn(<<m>>, Phase(m)) /\ (Needed(m.kind) = {} => Complete(<<m>>, {}))
<1>1. DOMAIN <<m>> = {1} /\ <<m>>[1] = m
  OBVIOUS
<1> QED
  BY <1>1 DEF AllIn, Complete

CalmFields == {"flight", "ready", "cache", "waiting", "loops", "lastMessage", "connected",
               "connects", "key", "srtp"}

LEMMA ClientCalmFrame ==
    ASSUME NEW c, NEW d, NEW F, ClientCalm(c), Changed(c, d, F), F \cap CalmFields = {},
           d.state = c.state \/ d.state # "connected"
    PROVE  ClientCalm(d) /\ Seen(d) = Seen(c) /\ Came(d) = Came(c) /\ d.flight = c.flight
<1>1. \A f \in CalmFields : d[f] = c[f]
  BY DEF Changed, CalmFields, SocketFields
<1>2. /\ d.flight = c.flight /\ d.ready = c.ready /\ d.cache = c.cache /\ d.waiting = c.waiting
      /\ d.loops = c.loops /\ d.lastMessage = c.lastMessage /\ d.connected = c.connected
      /\ d.connects = c.connects /\ d.key = c.key /\ d.srtp = c.srtp
  BY <1>1 DEF CalmFields
<1>3. \A k : InCache(k, d) <=> InCache(k, c)
  BY <1>2 DEF InCache
<1>4. Repeats(d)
  BY <1>2 DEF Repeats, ClientCalm
<1>5. ClientCalm(d)
  BY <1>2, <1>3, <1>4 DEF ClientCalm
<1>6. Seen(d) = Seen(c)
  BY <1>2 DEF Seen
<1>7. Came(d) = Came(c)
  BY <1>2, <1>3 DEF Came, Has
<1> QED
  BY <1>2, <1>5, <1>6, <1>7

LEMMA ServerCalmFrame ==
    ASSUME NEW v, NEW w, NEW F, ServerCalm(v), Changed(v, w, F),
           F \cap {"flight", "waiting", "loops", "lastMessage", "connected", "connects", "srtp"} = {},
           w.state = "connected" => v.state = "connected" /\ w.key = v.key
    PROVE  ServerCalm(w) /\ Heard(w) = Heard(v) /\ w.flight = v.flight
<1>1. \A f \in {"flight", "waiting", "loops", "lastMessage", "connected", "connects", "srtp"} :
        w[f] = v[f]
  BY DEF Changed, SocketFields
<1>2. /\ w.flight = v.flight /\ w.waiting = v.waiting /\ w.loops = v.loops
      /\ w.lastMessage = v.lastMessage /\ w.connected = v.connected
      /\ w.connects = v.connects /\ w.srtp = v.srtp
  BY <1>1
<1>3. Repeats(w)
  BY <1>2 DEF Repeats, ServerCalm
<1>4. ServerCalm(w)
  BY <1>2, <1>3 DEF ServerCalm
<1>5. Heard(w) = Heard(v)
  BY <1>2 DEF Heard
<1> QED
  BY <1>2, <1>4, <1>5

\* What the client may do: the flights go forward, and what came stays.
ClientGoes(c, r, L, K) ==
    /\ ClientCalm(r.socket) /\ AllIn(r.out, Stage(r.socket.flight))
    /\ Stage(c.flight) <= Stage(r.socket.flight)
    /\ Seen(r.socket) <= L
    /\ r.socket.open => c.open /\ K \subseteq Came(r.socket)

\* What the server may do.
ServerGoes(v, r, L) ==
    /\ ServerCalm(r.socket) /\ AllIn(r.out, Stage(r.socket.flight)) /\ Complete(r.out, {})
    /\ Stage(v.flight) <= Stage(r.socket.flight)
    /\ Heard(r.socket) <= L

\* A client that keeps its flight and sends nothing.
LEMMA ClientStays ==
    ASSUME NEW c, NEW d, NEW L, NEW K, ClientCalm(d), d.flight = c.flight, Seen(d) <= L,
           d.open => c.open /\ K \subseteq Came(d)
    PROVE  ClientGoes(c, Keep(d), L, K)
BY NoneIn DEF ClientGoes, Keep, Send, Stage

LEMMA ServerStays ==
    ASSUME NEW v, NEW w, NEW L, ServerCalm(w), w.flight = v.flight, Heard(w) <= L
    PROVE  ServerGoes(v, Keep(w), L)
BY NoneIn DEF ServerGoes, Keep, Send, Stage

-----------------------------------------------------------------------------
(* The client, one flight after another.                                     *)

LEMMA FailGoes ==
    ASSUME NEW c, NEW L, NEW K, SocketInv(c), ClientCalm(c), Seen(c) <= L, K \subseteq Came(c)
    PROVE  ClientGoes(c, Keep(Fail(c)), L, K)
<1> DEFINE d == Fail(c)
<1>1. Changed(c, d, {"state", "failures"}) /\ d.state = "failed"
  BY FailFields
<1> HIDE DEF d
<1>2. ClientCalm(d) /\ Seen(d) = Seen(c) /\ Came(d) = Came(c) /\ d.flight = c.flight
  BY <1>1, ClientCalmFrame DEF CalmFields
<1>3. d.open = c.open
  BY <1>1 DEF Changed, SocketFields
<1>4. ClientGoes(c, Keep(d), L, K)
  BY <1>2, <1>3, ClientStays
<1> QED
  BY <1>4 DEF d

LEMMA Flight3Goes ==
    ASSUME RetransmitCount \in Nat, NEW c, NEW m, SocketInv(c), ClientCalm(c), Seen(c) <= 1,
           c.flight \in {1, 3, 5, 7}
    PROVE  ClientGoes(c, Flight3(c, m), 1, Came(c))
<1>1. c.flight \in {1, 3} /\ ~c.ready
  <2>1. c.flight # 7 /\ ~c.ready
    BY DEF Seen
  <2> QED
    BY <2>1 DEF ClientCalm
<1>2. CASE c.flight = 3
  <2>1. ClientGoes(c, Keep(Fail(c)), 1, Came(c))
    BY FailGoes
  <2> QED
    BY <1>2, <2>1 DEF Flight3
<1>3. CASE c.flight = 1
  <2> DEFINE hello == Msg("ClientHelloCookie", m.val)
             l == Loop(3, 5, <<hello>>)
             d == [c EXCEPT !.flight = 3, !.cookie = m.val, !.cache = {hello},
                            !.loops = @ \union {l}]
  <2>1. Flight3(c, m) = Send(d, <<hello>>)
    BY <1>3 DEF Flight3
  <2>2. hello.kind = "ClientHelloCookie" /\ Phase(hello) = 2
    BY DEF Msg, Phase
  <2> HIDE DEF hello
  <2>3. AllIn(<<hello>>, 2) /\ IsSeq(<<hello>>)
    BY <2>2, OneIn, OneSeq
  <2>4. l.messages = <<hello>> /\ l.next = 5
    BY <2>3, LoopFields
  <2> HIDE DEF l
  <2>5. /\ Changed(c, d, {"flight", "cookie", "cache", "loops"})
        /\ d.flight = 3 /\ d.cache = {hello} /\ d.loops = c.loops \union {l}
    BY DEF SocketInv, SocketFields, Changed
  <2> HIDE DEF d
  <2>6. /\ d.connected = c.connected /\ d.waiting = c.waiting /\ d.ready = c.ready
        /\ d.state = c.state /\ d.open = c.open /\ d.key = c.key
    BY <2>5 DEF Changed, SocketFields
  <2>7. Repeats(d)
    <3>1. \A k \in c.loops : k.next \in {3, 5, 7} /\ AllIn(k.messages, Stage(k.next - 2))
                             /\ 1 >= k.next - 2
      BY <1>3 DEF ClientCalm, Repeats
    <3>2. AllIn(l.messages, Stage(l.next - 2)) /\ 3 >= l.next - 2
      BY <2>3, <2>4 DEF Stage
    <3> QED
      BY <2>4, <2>5, <3>1, <3>2 DEF Repeats
  <2>8. ~InCache("ServerCertificate", d) /\ ~InCache("ServerKeyExchange", d)
    BY <2>2, <2>5 DEF InCache
  <2>9. c.state # "connected" /\ ~c.connected
    BY <1>3 DEF ClientCalm
  <2>10. ClientCalm(d)
    BY <2>4, <2>5, <2>6, <2>7, <2>8, <2>9 DEF ClientCalm
  <2>11. Came(c) = {}
    BY <1>1 DEF Came, Awaited, Has, ClientCalm
  <2>12. Seen(d) = 1 /\ Stage(d.flight) = 2 /\ Stage(c.flight) = 1
    BY <1>1, <1>3, <2>5, <2>6 DEF Seen, Stage
  <2>13. ClientGoes(c, Send(d, <<hello>>), 1, Came(c))
    BY <2>3, <2>6, <2>10, <2>11, <2>12 DEF ClientGoes, Send
  <2> QED
    BY <2>1, <2>13
<1> QED
  BY <1>1, <1>2, <1>3

LEMMA Flight5Goes ==
    ASSUME RetransmitCount \in Nat, NEW c, SocketInv(c), ClientCalm(c), Seen(c) <= 2, c.ready,
           c.flight \in {1, 3, 5, 7}
    PROVE  ClientGoes(c, Flight5(c), 2, Came(c))
<1>0. c.flight # 7
  BY DEF Seen
<1>1. CASE c.flight = 5
  <2>1. Flight5(c) = Send(c, c.lastMessage)
    BY <1>1 DEF Flight5
  <2>2. AllIn(c.lastMessage, Stage(c.flight))
    BY <1>1 DEF ClientCalm, Repeats
  <2>3. ClientGoes(c, Send(c, c.lastMessage), 2, Came(c))
    BY <1>1, <2>2 DEF ClientGoes, Send, Stage
  <2> QED
    BY <2>1, <2>3
<1>2. CASE c.flight # 5
  <2> DEFINE exchange == Msg("ClientKeyExchange", <<c.pair>>)
             cert     == Msg("ClientCertificate", None)
             before   == bufferFlight(c.cache, IF c.requested THEN {cert, exchange} ELSE {exchange})
             key      == MasterSecret(<<c.pair>>, c.peerPair, c.peerRandom, before)
             verify   == Msg("CertificateVerify", None)
             finished == Msg("ClientFinished", key)
             messages == IF c.requested THEN <<cert, exchange, verify, finished>>
                         ELSE <<exchange, finished>>
             l        == Loop(5, 7, messages)
             cache    == bufferFlight(before, Range(messages))
             d        == [c EXCEPT !.flight = 5, !.key = key, !.lastMessage = messages,
                                   !.cache = cache, !.loops = @ \union {l}]
  <2>1. Flight5(c) = Send(d, messages)
    BY <1>2 DEF Flight5
  <2>2. Phase(exchange) = 3 /\ Phase(cert) = 3 /\ Phase(verify) = 3 /\ Phase(finished) = 3
    BY DEF Msg, Phase
  <2>3. \A k \in c.cache : k \in cache
    BY DEF bufferFlight
  <2> HIDE DEF before, exchange, cert, verify, finished, key
  <2>4. IsSeq(messages) /\ \A k \in Range(messages) : Phase(k) = 3
    <3>1. CASE c.requested
      BY <2>2, <3>1, FourSeq
    <3>2. CASE ~c.requested
      BY <2>2, <3>2, TwoSeq
    <3> QED
      BY <3>1, <3>2
  <2> HIDE DEF messages
  <2>5. AllIn(messages, 3)
    BY <2>4 DEF AllIn, Range
  <2>6. l.messages = messages /\ l.next = 7
    BY <2>4, LoopFields
  <2> HIDE DEF l, cache
  <2>7. /\ Changed(c, d, {"flight", "key", "lastMessage", "cache", "loops"})
        /\ d.flight = 5 /\ d.cache = cache /\ d.loops = c.loops \union {l}
        /\ d.lastMessage = messages
    BY DEF SocketInv, SocketFields, Changed
  <2> HIDE DEF d
  <2>8. /\ d.connected = c.connected /\ d.waiting = c.waiting /\ d.ready = c.ready
        /\ d.state = c.state /\ d.open = c.open
    BY <2>7 DEF Changed, SocketFields
  <2>9. Repeats(d)
    <3>1. \A k \in c.loops : /\ k.next \in {3, 5, 7} /\ AllIn(k.messages, Stage(k.next - 2))
                             /\ 5 >= k.next - 2
      BY DEF ClientCalm, Repeats
    <3>2. AllIn(l.messages, Stage(l.next - 2)) /\ 5 >= l.next - 2
      BY <2>5, <2>6 DEF Stage
    <3>3. AllIn(d.lastMessage, Stage(d.flight))
      BY <2>5, <2>7 DEF Stage
    <3> QED
      BY <2>6, <2>7, <3>1, <3>2, <3>3 DEF Repeats
  <2>10. c.state # "connected" /\ ~c.connected
    BY <1>0 DEF ClientCalm
  <2>11. ClientCalm(d)
    BY <2>6, <2>7, <2>8, <2>9, <2>10 DEF ClientCalm
  <2>12. Came(c) \subseteq Came(d)
    BY <2>3, <2>7, <2>8 DEF Came, Has, InCache
  <2>13. Seen(d) = 2 /\ Stage(d.flight) = 3 /\ Stage(c.flight) <= 3
    BY <2>7, <2>8 DEF Seen, Stage
  <2>14. ClientGoes(c, Send(d, messages), 2, Came(c))
    BY <2>5, <2>7, <2>8, <2>11, <2>12, <2>13 DEF ClientGoes, Send
  <2> QED
    BY <2>1, <2>14
<1> QED
  BY <1>1, <1>2

\* A message of flight 4 that finds the handshake ready.
LEMMA ReceivedGoes ==
    ASSUME NEW c, NEW m, SocketInv(c), ClientCalm(c), c.ready
    PROVE  LET d == Flight4Received(c, m)
           IN  /\ ClientCalm(d) /\ d.flight = c.flight /\ Seen(d) = Seen(c) /\ d.open = c.open
               /\ Came(c) \union ({m.kind} \cap Awaited) \subseteq Came(d) /\ d.ready
<1> DEFINE d == Flight4Received(c, m)
           b == bufferHandshakeCache(c.cache, m)
           F == {"cache", "peerRandom", "peerCert", "peerPair", "pair", "requested"}
<1>1. Changed(c, d, F) /\ d.cache = b
  BY DEF SocketInv, Flight4Received, SocketFields, Changed
<1>2. /\ \A k \in c.cache : k \in b
      /\ \E k \in b : k.kind = m.kind
  BY DEF bufferHandshakeCache
<1> HIDE DEF d, b
<1>3. /\ d.flight = c.flight /\ d.connected = c.connected /\ d.key = c.key /\ d.open = c.open
      /\ d.lastMessage = c.lastMessage /\ d.waiting = c.waiting /\ d.loops = c.loops
      /\ d.srtp = c.srtp /\ d.connects = c.connects /\ d.state = c.state /\ d.ready = c.ready
  BY <1>1 DEF Changed, SocketFields
<1>4. Repeats(d)
  BY <1>3 DEF Repeats, ClientCalm
<1>5. ClientCalm(d)
  BY <1>3, <1>4 DEF ClientCalm
<1>6. Seen(d) = Seen(c)
  BY <1>3 DEF Seen
<1>7. Came(c) \union ({m.kind} \cap Awaited) \subseteq Came(d)
  BY <1>1, <1>2, <1>3 DEF Came, Has, InCache
<1> QED
  BY <1>3, <1>5, <1>6, <1>7 DEF d

LEMMA FinishedGoes ==
    ASSUME NEW c, SocketInv(c), ClientCalm(c), c.flight \in {1, 3, 5, 7}, c.ready
    PROVE  ClientGoes(c, Keep(Started([c EXCEPT !.flight = 7])), 3, Came(c))
<1> DEFINE s == [c EXCEPT !.flight = 7]
           d == Started(s)
<1>1. Changed(c, s, {"flight"}) /\ s.flight = 7
  BY DEF SocketInv, SocketFields, Changed
<1> HIDE DEF s
<1>2. /\ s.connected = c.connected /\ s.waiting = c.waiting /\ s.ready = c.ready /\ s.open = c.open
      /\ s.srtp = c.srtp /\ s.connects = c.connects /\ s.state = c.state /\ s.key = c.key
      /\ s.loops = c.loops /\ s.lastMessage = c.lastMessage /\ s.cache = c.cache
  BY <1>1 DEF Changed, SocketFields
<1>3. SocketInv(s)
  BY <1>1, <1>2 DEF SocketInv, Changed
<1>4. /\ Changed(s, d, {"connected", "connects", "state", "failures", "open", "loops", "srtp"})
      /\ d.connects = s.connects + 1
      /\ d.loops = s.loops \/ d.loops = {}
      /\ d.state = "connected" => d.srtp = s.key \/ (s.state = "connected" /\ d.srtp = s.srtp)
      /\ d.open => s.open
  BY <1>3, StartedFields
<1> HIDE DEF d
<1>5. /\ d.waiting = c.waiting /\ d.key = c.key /\ d.flight = 7 /\ d.ready = c.ready
      /\ d.lastMessage = c.lastMessage /\ d.cache = c.cache
  <2>1. /\ d.waiting = s.waiting /\ d.key = s.key /\ d.flight = s.flight /\ d.ready = s.ready
        /\ d.lastMessage = s.lastMessage /\ d.cache = s.cache
    <3>1. Changed(s, d, {"connected", "connects", "state", "failures", "open", "loops", "srtp"})
      BY <1>4
    <3> QED
      BY <3>1 DEF Changed, SocketFields
  <2> QED
    BY <1>1, <1>2, <2>1
<1>6. Repeats(d)
  <2>1. \A k \in c.loops : /\ k.next \in {3, 5, 7} /\ AllIn(k.messages, Stage(k.next - 2))
                           /\ 7 >= k.next - 2
    BY DEF ClientCalm, Repeats
  <2> QED
    BY <1>2, <1>4, <1>5, <2>1 DEF Repeats
<1>7. \A k : InCache(k, d) <=> InCache(k, c)
  BY <1>5 DEF InCache
<1>8. d.state = "connected" => d.connects > 0 /\ d.key = d.srtp
  <2>1. c.connects \in Nat
    BY DEF SocketInv
  <2> QED
    BY <1>2, <1>4, <1>5, <2>1 DEF ClientCalm
<1>9. \A l \in d.loops : l.next # 6
  BY <1>2, <1>4 DEF ClientCalm
<1>10. ClientCalm(d)
  BY <1>5, <1>6, <1>8, <1>9 DEF ClientCalm
<1>11. Came(d) = Came(c)
  BY <1>5, <1>7 DEF Came, Has
<1>12. Seen(d) = 3 /\ Stage(c.flight) <= Stage(d.flight)
  BY <1>5 DEF Seen, Stage
<1>13. ClientGoes(c, Keep(d), 3, Came(c))
  BY <1>2, <1>4, <1>10, <1>11, <1>12, NoneIn DEF ClientGoes, Keep, Send
<1> QED
  BY <1>13 DEF d, s

LEMMA ClientHandlesGoes ==
    ASSUME RetransmitCount \in Nat, NEW c, NEW m, SocketInv(c), ClientCalm(c),
           c.flight \in {1, 3, 5, 7}, m.kind \in ClientKinds, Needed(m.kind) \subseteq Came(c),
           Seen(c) <= Phase(m), m.kind = "ServerFinished" => c.ready
    PROVE  ClientGoes(c, clientHandles(c, m), Phase(m), Came(c) \union ({m.kind} \cap Awaited))
<1> DEFINE K == Came(c) \union ({m.kind} \cap Awaited)
<1>1. CASE m.kind = "HelloVerifyRequest"
  <2>1. clientHandles(c, m) = Flight3(c, m) /\ Phase(m) = 1 /\ K = Came(c)
    BY <1>1 DEF clientHandles, Phase, Awaited
  <2> QED
    BY <2>1, Flight3Goes
<1>2. CASE m.kind = "ServerHello"
  <2> DEFINE s == [c EXCEPT !.ready = TRUE]
             d == Flight4Received(s, m)
  <2>p. Phase(m) = 2
    BY <1>2 DEF Phase
  <2>0. c.flight # 7 /\ ~c.connected
    <3>1. c.flight # 7
      BY <2>p DEF Seen
    <3> QED
      BY <3>1 DEF ClientCalm
  <2>1. clientHandles(c, m) = Keep(d)
    BY <1>2, <2>0 DEF clientHandles
  <2>2. Changed(c, s, {"ready"}) /\ s.ready
    BY DEF SocketInv, SocketFields, Changed
  <2> HIDE DEF s
  <2>3. /\ s.flight = c.flight /\ s.connected = c.connected /\ s.key = c.key /\ s.open = c.open
        /\ s.lastMessage = c.lastMessage /\ s.waiting = c.waiting /\ s.loops = c.loops
        /\ s.srtp = c.srtp /\ s.connects = c.connects /\ s.state = c.state /\ s.cache = c.cache
    BY <2>2 DEF Changed, SocketFields
  <2>4. SocketInv(s)
    BY <2>2, <2>3 DEF SocketInv, Changed
  <2>5. Repeats(s)
    BY <2>3 DEF ClientCalm, Repeats
  <2>6. ClientCalm(s)
    BY <2>2, <2>3, <2>5 DEF ClientCalm
  <2>7. Came(c) \subseteq Came(s)
    BY <2>2, <2>3 DEF Came, Has, InCache
  <2>8. Seen(s) = 2
    BY <2>0, <2>2, <2>3 DEF Seen
  <2>9. /\ ClientCalm(d) /\ d.flight = s.flight /\ Seen(d) = Seen(s) /\ d.open = s.open
        /\ Came(s) \union ({m.kind} \cap Awaited) \subseteq Came(d)
    BY <2>2, <2>4, <2>6, ReceivedGoes
  <2> HIDE DEF d
  <2>10. ClientGoes(c, Keep(d), Phase(m), K)
    BY <2>p, <2>3, <2>7, <2>8, <2>9, ClientStays
  <2> QED
    BY <2>1, <2>10
<1>3. CASE m.kind \in {"ServerCertificate", "ServerKeyExchange", "CertificateRequest"}
  <2> DEFINE d == Flight4Received(c, m)
  <2>0. c.ready
    BY <1>3 DEF Needed, Came, Has
  <2>1. clientHandles(c, m) = Keep(d)
    BY <1>3, <2>0 DEF clientHandles
  <2>2. /\ ClientCalm(d) /\ d.flight = c.flight /\ Seen(d) = Seen(c) /\ d.open = c.open
        /\ K \subseteq Came(d)
    BY <2>0, ReceivedGoes
  <2> HIDE DEF d, K
  <2>3. ClientGoes(c, Keep(d), Phase(m), K)
    BY <2>2, ClientStays
  <2> QED
    BY <2>1, <2>3 DEF K
<1>4. CASE m.kind = "ServerHelloDone"
  <2> DEFINE d == Flight4Received(c, m)
  <2>p. Phase(m) = 2 /\ K = Came(c)
    BY <1>4 DEF Phase, Awaited
  <2>0. c.ready /\ Awaited \subseteq Came(c)
    BY <1>4 DEF Needed, Came, Has, Awaited
  <2>1. /\ ClientCalm(d) /\ d.flight = c.flight /\ Seen(d) = Seen(c) /\ d.open = c.open
        /\ Came(c) \subseteq Came(d) /\ d.ready
    BY <2>0, ReceivedGoes
  <2>2. SocketInv(d)
    <3>1. Changed(c, d, {"cache"}) /\ d.cache = bufferHandshakeCache(c.cache, m)
      BY <1>4 DEF SocketInv, Flight4Received, SocketFields, Changed
    <3>2. \A k \in d.cache : k \in c.cache \/ k = m
      BY <3>1 DEF bufferHandshakeCache
    <3>3. m.kind \in Kinds
      BY <1>4 DEF Kinds
    <3> HIDE DEF d
    <3>4. /\ d.connected = c.connected /\ d.lastMessage = c.lastMessage /\ d.waiting = c.waiting
          /\ d.loops = c.loops /\ d.connects = c.connects /\ d.state = c.state
      BY <3>1 DEF Changed, SocketFields
    <3> QED
      BY <3>1, <3>2, <3>3, <3>4 DEF SocketInv, Changed
  <2>3. checkHandshakesExist(d.cache, {"ServerCertificate", "ServerKeyExchange"})
    <3> HIDE DEF d
    <3> QED
      BY <2>0, <2>1 DEF checkHandshakesExist, Came, Awaited, Has, InCache
  <2>4. clientHandles(c, m) = Flight5(d)
    BY <1>4, <2>0, <2>3 DEF clientHandles
  <2> HIDE DEF d, K
  <2>5. ClientGoes(d, Flight5(d), 2, Came(d))
    BY <2>p, <2>1, <2>2, Flight5Goes
  <2>6. ClientGoes(c, Flight5(d), 2, Came(c))
    BY <2>1, <2>5 DEF ClientGoes
  <2> QED
    BY <2>p, <2>4, <2>6 DEF K
<1>5. CASE m.kind = "ServerFinished"
  <2>1. clientHandles(c, m) = Keep(Started([c EXCEPT !.flight = 7])) /\ Phase(m) = 3 /\ K = Came(c)
    BY <1>5 DEF clientHandles, Phase, Awaited
  <2>2. c.ready
    BY <1>5
  <2> QED
    BY <2>1, <2>2, FinishedGoes
<1> QED
  BY <1>1, <1>2, <1>3, <1>4, <1>5 DEF ClientKinds

-----------------------------------------------------------------------------
(* The server, one flight after another.                                     *)

LEMMA FailGoesServer ==
    ASSUME NEW v, NEW L, SocketInv(v), ServerCalm(v), Heard(v) <= L
    PROVE  ServerGoes(v, Keep(Fail(v)), L)
<1> DEFINE w == Fail(v)
<1>1. Changed(v, w, {"state", "failures"}) /\ w.state = "failed"
  BY FailFields
<1> HIDE DEF w
<1>2. ServerCalm(w) /\ Heard(w) = Heard(v) /\ w.flight = v.flight
  BY <1>1, ServerCalmFrame
<1>3. ServerGoes(v, Keep(w), L)
  BY <1>2, ServerStays
<1> QED
  BY <1>3 DEF w

LEMMA Flight2Goes ==
    ASSUME NEW v, SocketInv(v), ServerCalm(v), v.flight \in {0, 2, 4, 6}, Heard(v) <= 1
    PROVE  ServerGoes(v, Flight2(v), 1)
<1>1. ~v.connected /\ v.waiting = <<>> /\ v.flight \in {0, 2}
  BY DEF Heard
<1> DEFINE k == IF v.cookie = None THEN <<v.connects>> ELSE v.cookie
           w == [v EXCEPT !.flight = 2, !.pair = @ + 1, !.cookie = k]
           m == Msg("HelloVerifyRequest", k)
<1>2. Changed(v, w, {"flight", "pair", "cookie"}) /\ w.flight = 2 /\ w.cookie = k
  BY DEF SocketInv, SocketFields, Changed
<1>3. Flight2(v) = Send(w, <<m>>)
  <2>1. w = [v EXCEPT !.flight = 2, !.pair = @ + 1,
                      !.cookie = IF @ = None THEN <<v.connects>> ELSE @]
    BY DEF SocketInv, SocketFields
  <2>2. Flight2(v) = Send(w, <<Msg("HelloVerifyRequest", w.cookie)>>)
    BY <2>1 DEF Flight2
  <2> HIDE DEF w
  <2> QED
    BY <1>2, <2>2
<1>4. Phase(m) = 1 /\ Needed(m.kind) = {}
  BY DEF Msg, Phase, Needed
<1> HIDE DEF w, m, k
<1>5. /\ w.connected = v.connected /\ w.waiting = v.waiting /\ w.loops = v.loops
      /\ w.srtp = v.srtp /\ w.connects = v.connects /\ w.state = v.state /\ w.key = v.key
  BY <1>2 DEF Changed, SocketFields
<1>6. v.loops = {}
  BY <1>1 DEF ServerCalm, Repeats
<1>7. Repeats(w)
  BY <1>2, <1>5, <1>6 DEF Repeats
<1>8. ServerCalm(w)
  BY <1>2, <1>5, <1>6, <1>7 DEF ServerCalm
<1>9. Heard(w) = 1 /\ Stage(w.flight) = 1 /\ Stage(v.flight) <= 1
  BY <1>1, <1>2, <1>5 DEF Heard, Stage
<1>10. AllIn(<<m>>, 1) /\ Complete(<<m>>, {})
  BY <1>4, OneIn
<1>11. ServerGoes(v, Send(w, <<m>>), 1)
  BY <1>8, <1>9, <1>10 DEF ServerGoes, Send
<1> QED
  BY <1>3, <1>11

\* Flight 4 brings what its later messages wait for.
LEMMA Flight4Complete ==
    ASSUME NEW h, NEW p, NEW k, NEW r, NEW e, h.kind = "ServerHello",
           p.kind = "ServerCertificate", k.kind = "ServerKeyExchange",
           r.kind = "CertificateRequest", e.kind = "ServerHelloDone"
    PROVE  AllIn(<<h, p, k, r, e>>, 2) /\ Complete(<<h, p, k, r, e>>, {})
<1> DEFINE q == <<h, p, k, r, e>>
<1>1. /\ DOMAIN q = 1..5 /\ q[1] = h /\ q[2] = p /\ q[3] = k /\ q[4] = r /\ q[5] = e
  OBVIOUS
<1> HIDE DEF q
<1>2. \A i \in 1..5 : i = 1 \/ i = 2 \/ i = 3 \/ i = 4 \/ i = 5
  OBVIOUS
<1>3. AllIn(q, 2)
  BY <1>1, <1>2 DEF AllIn, Phase
<1>4. ASSUME NEW i \in 1..5, NEW x \in Needed(q[i].kind)
      PROVE  \E j \in 1..i - 1 : q[j].kind = x
  <2>1. CASE i = 1
    BY <1>1, <1>4, <2>1 DEF Needed
  <2>2. CASE i \in {2, 3, 4}
    <3>1. x = "ServerHello"
      BY <1>1, <1>4, <2>2 DEF Needed
    <3>2. 1 \in 1..i - 1 /\ q[1].kind = x
      BY <1>1, <2>2, <3>1
    <3> QED
      BY <3>2
  <2>3. CASE i = 5
    <3>1. x \in Awaited
      BY <1>1, <1>4, <2>3 DEF Needed
    <3>2. 1 \in 1..i - 1 /\ 2 \in 1..i - 1 /\ 3 \in 1..i - 1
      BY <2>3
    <3> QED
      BY <1>1, <3>1, <3>2 DEF Awaited
  <2> QED
    BY <1>2, <2>1, <2>2, <2>3
<1>5. Complete(q, {})
  BY <1>1, <1>4 DEF Complete
<1> QED
  BY <1>3, <1>5 DEF q

LEMMA Flight4Goes ==
    ASSUME RetransmitCount \in Nat, NEW v, NEW m, SocketInv(v), ServerCalm(v),
           v.flight \in {0, 2, 4, 6}, v.flight = 6 => v.connected, Heard(v) <= 2
    PROVE  ServerGoes(v, Flight4(v, m), 2)
<1>1. ~v.connected /\ v.waiting = <<>> /\ v.flight \in {0, 2, 4}
  <2>1. ~v.connected /\ v.waiting = <<>>
    BY DEF Heard
  <2> QED
    BY <2>1
<1>2. CASE v.flight = 4
  <2>1. Flight4(v, m) = Send(v, v.lastMessage)
    BY <1>2 DEF Flight4
  <2>2. AllIn(v.lastMessage, Stage(v.flight)) /\ Complete(v.lastMessage, {})
    BY <1>2 DEF ServerCalm, Repeats
  <2>3. ServerGoes(v, Send(v, v.lastMessage), 2)
    BY <1>2, <2>2 DEF ServerGoes, Send, Stage
  <2> QED
    BY <2>1, <2>3
<1>3. CASE v.flight # 4
  <2> DEFINE h == Msg("ServerHello", <<v.pair>>)
             p == Msg("ServerCertificate", None)
             k == Msg("ServerKeyExchange", <<v.pair>>)
             r == Msg("CertificateRequest", None)
             e == Msg("ServerHelloDone", None)
             messages == <<h, p, k, r, e>>
             l == Loop(4, 6, messages)
             cache == bufferFlight(v.cache, {m} \union Range(messages))
             w == [v EXCEPT !.flight = 4, !.lastMessage = messages, !.cache = cache,
                            !.loops = @ \union {l}]
  <2>1. Flight4(v, m) = Send(w, messages)
    BY <1>3 DEF Flight4
  <2>2. /\ h.kind = "ServerHello" /\ p.kind = "ServerCertificate" /\ k.kind = "ServerKeyExchange"
        /\ r.kind = "CertificateRequest" /\ e.kind = "ServerHelloDone"
    BY DEF Msg
  <2> HIDE DEF h, p, k, r, e
  <2>3. IsSeq(messages) /\ AllIn(messages, 2) /\ Complete(messages, {})
    BY <2>2, FiveSeq, Flight4Complete
  <2> HIDE DEF messages
  <2>4. l.messages = messages /\ l.next = 6
    BY <2>3, LoopFields
  <2> HIDE DEF l, cache
  <2>5. /\ Changed(v, w, {"flight", "lastMessage", "cache", "loops"})
        /\ w.flight = 4 /\ w.loops = v.loops \union {l} /\ w.lastMessage = messages
    BY DEF SocketInv, SocketFields, Changed
  <2> HIDE DEF w
  <2>6. /\ w.connected = v.connected /\ w.waiting = v.waiting /\ w.state = v.state
    BY <2>5 DEF Changed, SocketFields
  <2>7. v.loops = {}
    BY <1>1, <1>3 DEF ServerCalm, Repeats
  <2>8. Repeats(w)
    <3>1. AllIn(l.messages, Stage(l.next - 2)) /\ AllIn(w.lastMessage, Stage(w.flight))
      BY <2>3, <2>4, <2>5 DEF Stage
    <3> QED
      BY <2>4, <2>5, <2>7, <3>1 DEF Repeats
  <2>9. ServerCalm(w)
    BY <1>1, <2>3, <2>4, <2>5, <2>6, <2>7, <2>8 DEF ServerCalm
  <2>10. Heard(w) = 2 /\ Stage(w.flight) = 2 /\ Stage(v.flight) <= 2
    BY <1>1, <2>5, <2>6 DEF Heard, Stage
  <2>11. ServerGoes(v, Send(w, messages), 2)
    BY <2>3, <2>9, <2>10 DEF ServerGoes, Send
  <2> QED
    BY <2>1, <2>11
<1> QED
  BY <1>2, <1>3

LEMMA Flight6Goes ==
    ASSUME NEW v, SocketInv(v), ServerCalm(v), v.flight \in {0, 2, 4, 6}
    PROVE  ServerGoes(v, Flight6(v), 3)
<1> DEFINE f == Msg("ServerFinished", v.key)
           messages == IF v.flight = 6 THEN v.lastMessage ELSE <<f>>
           cache == IF v.flight = 6 THEN v.cache ELSE bufferHandshakeCache(v.cache, <<f>>[1])
           g == [v EXCEPT !.flight = 6, !.lastMessage = messages, !.cache = cache]
           w == Started(g)
<1>0. v.connects \in Nat /\ DOMAIN v = SocketFields
  BY DEF SocketInv
<1>1. Flight6(v) = Send(w, messages)
  <2>1. v.flight = 6 => g = [v EXCEPT !.flight = 6, !.lastMessage = messages, !.cache = @]
    BY <1>0 DEF SocketFields
  <2> QED
    BY <1>0, <2>1 DEF Flight6, SocketFields
<1>2. Phase(f) = 3 /\ Needed(f.kind) = {} /\ f.kind \in Kinds
  BY DEF Msg, Phase, Needed, Kinds
<1> HIDE DEF f
<1>3. AllIn(messages, 3) /\ Complete(messages, {}) /\ IsSeq(messages)
  <2>1. CASE v.flight = 6
    <3>1. AllIn(v.lastMessage, Stage(v.flight)) /\ Complete(v.lastMessage, {}) /\ IsSeq(v.lastMessage)
      BY <2>1 DEF ServerCalm, Repeats, SocketInv
    <3> QED
      BY <2>1, <3>1 DEF Stage
  <2>2. CASE v.flight # 6
    BY <1>2, <2>2, OneIn, OneSeq
  <2> QED
    BY <2>1, <2>2
<1>4. \A m \in cache : m \in v.cache \/ m = f
  <2>1. <<f>>[1] = f
    OBVIOUS
  <2> QED
    BY <2>1 DEF bufferHandshakeCache
<1> HIDE DEF messages, cache
<1>5. /\ Changed(v, g, {"flight", "lastMessage", "cache"})
      /\ g.flight = 6 /\ g.lastMessage = messages /\ g.cache = cache
  BY <1>0 DEF SocketFields, Changed
<1> HIDE DEF g
<1>6. /\ g.connected = v.connected /\ g.key = v.key /\ g.waiting = v.waiting
      /\ g.srtp = v.srtp /\ g.connects = v.connects /\ g.state = v.state /\ g.loops = v.loops
  BY <1>5 DEF Changed, SocketFields
<1>7. SocketInv(g)
  BY <1>2, <1>3, <1>4, <1>5, <1>6 DEF SocketInv, Changed
<1>8. /\ Changed(g, w, {"connected", "connects", "state", "failures", "open", "loops", "srtp"})
      /\ w.connected = TRUE /\ w.connects = g.connects + 1
      /\ w.loops = g.loops \/ w.loops = {}
      /\ w.state = "connected" => w.srtp = g.key \/ (g.state = "connected" /\ w.srtp = g.srtp)
  BY <1>7, StartedFields
<1> HIDE DEF w
<1>9. w.flight = 6 /\ w.lastMessage = messages /\ w.key = v.key
  <2>1. w.flight = g.flight /\ w.lastMessage = g.lastMessage /\ w.key = g.key
    BY <1>8 DEF Changed, SocketFields
  <2> QED
    BY <1>5, <1>6, <2>1
<1>10. \A l \in w.loops : l \in v.loops
  BY <1>6, <1>8
<1>11. Repeats(w)
  <2>1. AllIn(w.lastMessage, Stage(w.flight))
    BY <1>3, <1>9 DEF Stage
  <2>2. \A l \in w.loops : l.next = 6 /\ AllIn(l.messages, Stage(l.next - 2))
    BY <1>10 DEF ServerCalm, Repeats
  <2> QED
    BY <1>9, <2>1, <2>2 DEF Repeats
<1>12. w.state = "connected" => w.connected /\ w.connects > 0 /\ w.key = w.srtp
  BY <1>0, <1>6, <1>8, <1>9 DEF ServerCalm
<1>13. ServerCalm(w)
  BY <1>3, <1>9, <1>10, <1>11, <1>12 DEF ServerCalm
<1>14. Heard(w) <= 3 /\ Stage(w.flight) = 3 /\ Stage(v.flight) <= 3
  BY <1>9 DEF Heard, Stage
<1>15. ServerGoes(v, Send(w, messages), 3)
  BY <1>3, <1>13, <1>14 DEF ServerGoes, Send
<1> QED
  BY <1>1, <1>15

LEMMA ServerHandlesGoes ==
    ASSUME RetransmitCount \in Nat, NEW v, NEW c, NEW m, ServerInv(v, c), ServerCalm(v),
           m.kind \in ServerKinds, Heard(v) <= Phase(m)
    PROVE  ServerGoes(v, serverHandles(v, m), Phase(m))
<1>0. SocketInv(v) /\ v.flight \in {0, 2, 4, 6} /\ (v.flight = 6 => v.connected)
  BY DEF ServerInv
<1>1. CASE m.kind = "ClientHello"
  <2>1. Phase(m) = 1
    BY <1>1 DEF Phase
  <2>2. ~v.connected
    BY <2>1 DEF Heard
  <2>3. serverHandles(v, m) = Flight2(v)
    BY <1>1, <2>2 DEF serverHandles
  <2> QED
    BY <1>0, <2>1, <2>3, Flight2Goes
<1>2. CASE m.kind = "ClientHelloCookie"
  <2>1. Phase(m) = 2
    BY <1>2 DEF Phase
  <2>2. ~v.connected
    BY <2>1 DEF Heard
  <2>3. serverHandles(v, m) = Flight4(v, m) \/ serverHandles(v, m) = Keep(v)
    BY <1>2, <2>2 DEF serverHandles
  <2>4. ServerGoes(v, Flight4(v, m), 2)
    BY <1>0, <2>1, Flight4Goes
  <2>5. ServerGoes(v, Keep(v), Phase(m))
    BY ServerStays
  <2> QED
    BY <2>1, <2>3, <2>4, <2>5
<1>3. CASE m.kind \in {"ClientCertificate", "ClientKeyExchange", "CertificateVerify"}
  <2> DEFINE w == Flight5Received(v, m)
  <2>1. CASE v.connected
    <3>1. serverHandles(v, m) = Keep(v)
      BY <1>3, <2>1 DEF serverHandles
    <3> QED
      BY <3>1, ServerStays
  <2>2. CASE ~v.connected
    <3>1. serverHandles(v, m) = Keep(w)
      BY <1>3, <2>2 DEF serverHandles
    <3>2. /\ Changed(v, w, {"cache", "ready", "peerCert", "peerPair", "key", "state", "failures"})
          /\ w.state \in {v.state, "failed"}
      BY <1>3, Flight5ReceivedInv
    <3> HIDE DEF w
    <3>3. v.state # "connected"
      BY <2>2 DEF ServerCalm
    <3>4. ServerCalm(w) /\ Heard(w) = Heard(v) /\ w.flight = v.flight
      BY <3>2, <3>3, ServerCalmFrame
    <3> QED
      BY <3>1, <3>4, ServerStays
  <2> QED
    BY <2>1, <2>2
<1>4. CASE m.kind = "ClientFinished"
  <2> DEFINE d == Flight5Received(v, m)
             q == Append(d.waiting, m)
             w == [d EXCEPT !.waiting = q]
  <2>p. Phase(m) = 3
    BY <1>4 DEF Phase
  <2>1. serverHandles(v, m) = Flight6(d) \/ serverHandles(v, m) = Keep(w)
    BY <1>4 DEF serverHandles
  <2>2. /\ Changed(v, d, {"cache", "ready", "peerCert", "peerPair", "key", "state", "failures"})
        /\ d.state \in {v.state, "failed"} /\ d.key = v.key /\ ServerInv(d, c)
    BY <1>4, Flight5ReceivedInv
  <2> HIDE DEF d
  <2>3. ServerCalm(d) /\ Heard(d) = Heard(v) /\ d.flight = v.flight
    BY <2>2, ServerCalmFrame
  <2>4. SocketInv(d)
    BY <2>2 DEF ServerInv
  <2>5. ServerGoes(v, Flight6(d), 3)
    <3>1. ServerGoes(d, Flight6(d), 3)
      BY <1>0, <2>3, <2>4, Flight6Goes
    <3> QED
      BY <2>3, <3>1 DEF ServerGoes
  <2>6. ServerGoes(v, Keep(w), 3)
    <3>1. Changed(d, w, {"waiting"})
      BY <2>4 DEF SocketInv, Changed, SocketFields
    <3> HIDE DEF w
    <3>2. /\ w.flight = d.flight /\ w.loops = d.loops /\ w.lastMessage = d.lastMessage
          /\ w.connected = d.connected /\ w.connects = d.connects /\ w.srtp = d.srtp
          /\ w.state = d.state /\ w.key = d.key
      BY <3>1 DEF Changed, SocketFields
    <3>3. Repeats(w)
      BY <2>3, <3>2 DEF ServerCalm, Repeats
    <3>4. ServerCalm(w)
      BY <2>3, <3>2, <3>3 DEF ServerCalm
    <3>5. Heard(w) <= 3
      BY DEF Heard
    <3> QED
      BY <2>3, <3>2, <3>4, <3>5, ServerStays
  <2> QED
    BY <2>p, <2>1, <2>5, <2>6
<1>5. CASE m.kind = "Malformed"
  <2>1. serverHandles(v, m) = Keep(v)
    BY <1>5 DEF serverHandles
  <2> QED
    BY <2>1, ServerStays
<1> QED
  BY <1>1, <1>2, <1>3, <1>4, <1>5 DEF ServerKinds

-----------------------------------------------------------------------------
(* The datagrams on their way.                                               *)

LEMMA PhaseType == \A m : Phase(m) \in 1..3
BY DEF Phase

LEMMA StageType == \A flight : Stage(flight) \in 0..3
BY DEF Stage

\* What is sent behind what is on its way.
LEMMA SortedConcat ==
    ASSUME NEW a, NEW b, IsSeq(a), IsSeq(b), NEW low \in 1..3, NEW high \in 0..3, NEW top \in 0..3,
           InStages(a, low, high), AllIn(b, top), high <= top, low <= top \/ low = 1
    PROVE  InStages(a \o b, low, top)
<1> DEFINE q == a \o b
           n == Len(a)
           k == Len(b)
<1>1. /\ IsSeq(q) /\ Len(q) = n + k
      /\ \A i \in 1..n + k : q[i] = IF i <= n THEN a[i] ELSE b[i - n]
  BY ConcatSeq
<1>2. n \in Nat /\ k \in Nat /\ DOMAIN a = 1..n /\ DOMAIN b = 1..k /\ DOMAIN q = 1..n + k
  BY <1>1, SeqFacts
<1> HIDE DEF q, n, k
<1>3. \A i \in 1..n + k : (i <= n => i \in 1..n) /\ (~(i <= n) => i - n \in 1..k)
  BY <1>2
<1>4. \A i \in 1..n + k : IF i <= n THEN low <= Phase(q[i]) /\ Phase(q[i]) <= high
                          ELSE Phase(q[i]) = top
  BY <1>1, <1>2, <1>3 DEF InStages, AllIn
<1>5. ASSUME NEW i \in 1..n + k
      PROVE  low <= Phase(q[i]) /\ Phase(q[i]) <= top
  BY <1>4, <1>5, PhaseType
<1>6. ASSUME NEW i \in 1..n + k, NEW j \in 1..n + k, i < j
      PROVE  Phase(q[i]) <= Phase(q[j])
  <2>1. CASE j <= n
    <3>1. i <= n
      BY <1>2, <1>6, <2>1
    <3> QED
      BY <1>1, <1>2, <1>3, <1>6, <2>1, <3>1 DEF InStages
  <2>2. CASE ~(j <= n)
    BY <1>4, <1>5, <1>6, <2>2
  <2> QED
    BY <2>1, <2>2
<1> QED
  BY <1>2, <1>5, <1>6 DEF InStages, q

\* A datagram that is gone; the first one tells what the rest may be.
LEMMA SortedRemove ==
    ASSUME NEW q, IsSeq(q), NEW i \in DOMAIN q, NEW low \in 1..3, NEW high \in 0..3,
           InStages(q, low, high)
    PROVE  /\ InStages(RemoveAt(q, i), low, high) /\ low <= Phase(q[i]) /\ Phase(q[i]) <= high
           /\ i = 1 => InStages(RemoveAt(q, i), Phase(q[1]), high)
<1> DEFINE d == RemoveAt(q, i)
           n == Len(q)
           At(k) == IF k < i THEN k ELSE k + 1
<1>1. n \in Nat /\ DOMAIN q = 1..n /\ i \in 1..n
  BY SeqFacts
<1>2. DOMAIN d = 1..n - 1 /\ \A k \in 1..n - 1 : d[k] = q[At(k)]
  <2>1. IsSeq(d) /\ Len(d) = n - 1 /\ \A k \in 1..n - 1 : d[k] = q[At(k)]
    BY RemoveSeq
  <2> QED
    BY <2>1, SeqFacts
<1>3. \A k \in 1..n - 1 : At(k) \in 1..n /\ (i = 1 => 1 < At(k))
  BY <1>1
<1>4. \A k, j \in 1..n - 1 : k < j => At(k) < At(j)
  BY <1>1
<1>5. 1 \in 1..n
  BY <1>1
<1> HIDE DEF d, n, At
<1>6. /\ low <= Phase(q[i]) /\ Phase(q[i]) <= high
      /\ \A k \in 1..n - 1 : low <= Phase(d[k]) /\ Phase(d[k]) <= high
  BY <1>1, <1>2, <1>3 DEF InStages
<1>7. \A k, j \in 1..n - 1 : k < j => Phase(d[k]) <= Phase(d[j])
  BY <1>1, <1>2, <1>3, <1>4 DEF InStages
<1>8. i = 1 => \A k \in 1..n - 1 : Phase(q[1]) <= Phase(d[k])
  BY <1>1, <1>2, <1>3, <1>5 DEF InStages
<1> QED
  BY <1>2, <1>6, <1>7, <1>8 DEF InStages, d

LEMMA CompleteMore ==
    ASSUME NEW q, NEW K, NEW M, Complete(q, K), K \subseteq M
    PROVE  Complete(q, M)
BY DEF Complete

LEMMA CompleteConcat ==
    ASSUME NEW a, NEW b, IsSeq(a), IsSeq(b), NEW K, Complete(a, K), Complete(b, {})
    PROVE  Complete(a \o b, K)
<1> DEFINE q == a \o b
           n == Len(a)
           m == Len(b)
<1>1. /\ IsSeq(q) /\ Len(q) = n + m
      /\ \A i \in 1..n + m : q[i] = IF i <= n THEN a[i] ELSE b[i - n]
  BY ConcatSeq
<1>2. n \in Nat /\ m \in Nat /\ DOMAIN a = 1..n /\ DOMAIN b = 1..m /\ DOMAIN q = 1..n + m
  BY <1>1, SeqFacts
<1> HIDE DEF q, n, m
<1>3. ASSUME NEW i \in 1..n + m, NEW k \in Needed(q[i].kind)
      PROVE  k \in K \/ \E j \in 1..i - 1 : q[j].kind = k
  <2>1. CASE i <= n
    <3>1. i \in 1..n /\ q[i] = a[i]
      BY <1>1, <1>2, <2>1
    <3>2. k \in K \/ \E j \in 1..i - 1 : a[j].kind = k
      BY <1>2, <1>3, <3>1 DEF Complete
    <3>3. \A j \in 1..i - 1 : q[j] = a[j]
      BY <1>1, <1>2, <2>1
    <3> QED
      BY <3>2, <3>3
  <2>2. CASE ~(i <= n)
    <3>1. i - n \in 1..m /\ q[i] = b[i - n]
      BY <1>1, <1>2, <2>2
    <3>2. PICK j \in 1..(i - n) - 1 : b[j].kind = k
      BY <1>2, <1>3, <3>1 DEF Complete
    <3>3. PICK g \in 1..i - 1 : g \in 1..n + m /\ ~(g <= n) /\ g - n = j
      <4>1. n + j \in 1..i - 1 /\ n + j \in 1..n + m /\ ~(n + j <= n) /\ (n + j) - n = j
        BY <1>2, <2>2
      <4> QED
        BY <4>1
    <3>4. q[g] = b[j]
      BY <1>1, <3>3
    <3> QED
      BY <3>2, <3>4
  <2> QED
    BY <2>1, <2>2
<1> QED
  BY <1>2, <1>3 DEF Complete, q

\* A datagram that is gone is not missed if it came, or if nothing waits for it.
LEMMA CompleteRemove ==
    ASSUME NEW q, IsSeq(q), NEW i \in DOMAIN q, NEW K, Complete(q, K),
           i = 1 \/ q[i].kind \notin Awaited
    PROVE  Complete(RemoveAt(q, i), K \union ({q[i].kind} \cap Awaited))
<1> DEFINE d == RemoveAt(q, i)
           n == Len(q)
           At(k) == IF k < i THEN k ELSE k + 1
           From(j) == IF j < i THEN j ELSE j - 1
           M == K \union ({q[i].kind} \cap Awaited)
<1>1. n \in Nat /\ DOMAIN q = 1..n /\ i \in 1..n
  BY SeqFacts
<1>2. DOMAIN d = 1..n - 1 /\ \A k \in 1..n - 1 : d[k] = q[At(k)]
  <2>1. IsSeq(d) /\ Len(d) = n - 1 /\ \A k \in 1..n - 1 : d[k] = q[At(k)]
    BY RemoveSeq
  <2> QED
    BY <2>1, SeqFacts
<1>3. \A k \in 1..n - 1 : At(k) \in 1..n
  BY <1>1
<1>4. \A k \in 1..n - 1 : \A j \in 1..At(k) - 1 :
         j # i => From(j) \in 1..k - 1 /\ From(j) \in 1..n - 1 /\ At(From(j)) = j
  BY <1>1
<1>5. \A kind : Needed(kind) \subseteq Awaited
  BY DEF Needed, Awaited
<1> HIDE DEF d, n, At, From
<1>6. ASSUME NEW k \in 1..n - 1, NEW w \in Needed(d[k].kind)
      PROVE  w \in M \/ \E j \in 1..k - 1 : d[j].kind = w
  <2>1. d[k] = q[At(k)] /\ At(k) \in 1..n
    BY <1>2, <1>3
  <2>2. w \in K \/ \E j \in 1..At(k) - 1 : q[j].kind = w
    BY <1>1, <1>6, <2>1 DEF Complete
  <2>3. CASE w \in K
    BY <2>3
  <2>4. ASSUME NEW j \in 1..At(k) - 1, q[j].kind = w
        PROVE  w \in M \/ \E g \in 1..k - 1 : d[g].kind = w
    <3>1. CASE j = i
      <4>1. q[i].kind = w /\ w \in Awaited
        BY <1>5, <1>6, <2>4, <3>1
      <4> QED
        BY <4>1
    <3>2. CASE j # i
      <4>1. From(j) \in 1..k - 1 /\ d[From(j)] = q[j]
        BY <1>2, <1>4, <3>2
      <4> QED
        BY <2>4, <4>1
    <3> QED
      BY <3>1, <3>2
  <2> QED
    BY <2>2, <2>3, <2>4
<1> HIDE DEF M
<1>7. Complete(d, M)
  BY <1>2, <1>6 DEF Complete
<1> QED
  BY <1>7 DEF d, M

\* What the first datagram needs came before it.
LEMMA CompleteHead ==
    ASSUME NEW q, IsSeq(q), 1 \in DOMAIN q, NEW K, Complete(q, K)
    PROVE  Needed(q[1].kind) \subseteq K
<1>1. \A j : j \notin 1..1 - 1
  OBVIOUS
<1> QED
  BY <1>1 DEF Complete

-----------------------------------------------------------------------------
(* The steps of the two ends, of a calm handshake.                           *)

LEMMA SeenType == \A c : Seen(c) \in 1..3 /\ Heard(c) \in 1..3
BY DEF Seen, Heard

LEMMA InStagesBelow ==
    ASSUME NEW q, NEW low \in 1..3, NEW L \in 1..3, NEW high \in 0..3, InStages(q, L, high), low <= L
    PROVE  InStages(q, low, high)
BY PhaseType DEF InStages

LEMMA InStagesNone == \A low, high : InStages(<<>>, low, high)
<1>1. DOMAIN <<>> = {}
  BY NoSeq, SeqFacts
<1> QED
  BY <1>1 DEF InStages

\* A step of the client, which leaves the datagrams `rest' on their way to it.
LEMMA ClientMovesCalm ==
    ASSUME SecretInv, KeptInv, Calm, NEW rest, NEW r, Step("client", rest, r), held' = held,
           IsSeq(rest), IsSeq(r.out), NEW L \in 1..3, NEW K, ClientGoes(sock["client"], r, L, K),
           InStages(rest, L, Stage(sock["server"].flight)),
           L <= Stage(sock["server"].flight) \/ L = 1,
           r.socket.open => Complete(rest, K)
    PROVE  KeptInv'
<1> DEFINE c == sock["client"]
           v == sock["server"]
           d == r.socket
           a == net["server"]
           q == a \o r.out
<1>0. DOMAIN sock = Peers /\ DOMAIN net = Peers /\ IsSeq(a)
  BY DEF SecretInv, NetInv, Peers
<1>1. /\ sock' = [sock EXCEPT !["client"] = d] /\ scenario' = scenario
      /\ net' = [net EXCEPT !["client"] = rest, !["server"] = q]
  BY DEF Step, Other
<1>2. held = {} /\ CalmInv(net["client"], a, c, v)
  BY DEF KeptInv
<1>3. /\ ClientCalm(d) /\ AllIn(r.out, Stage(d.flight)) /\ Stage(c.flight) <= Stage(d.flight)
      /\ Seen(d) <= L /\ (d.open => K \subseteq Came(d))
  BY DEF ClientGoes
<1>4. InStages(q, Heard(v), Stage(d.flight))
  <2>1. InStages(a, Heard(v), Stage(c.flight)) /\ (Heard(v) <= Stage(c.flight) \/ Heard(v) = 1)
    BY <1>2 DEF CalmInv
  <2>2. Heard(v) \in 1..3 /\ Stage(c.flight) \in 0..3 /\ Stage(d.flight) \in 0..3
    BY SeenType, StageType
  <2>3. Heard(v) <= Stage(d.flight) \/ Heard(v) = 1
    BY <1>3, <2>1, <2>2
  <2> HIDE DEF a, c, d, v
  <2> QED
    BY <1>0, <1>3, <2>1, <2>2, <2>3, SortedConcat
<1> HIDE DEF d, q
<1>5. /\ sock'["client"] = d /\ sock'["server"] = v
      /\ net'["client"] = rest /\ net'["server"] = q
  BY <1>0, <1>1 DEF Peers
<1> HIDE DEF c, v, a
<1>6. Seen(d) \in 1..3 /\ Stage(v.flight) \in 0..3 /\ Stage(c.flight) \in 0..3 /\ Stage(d.flight) \in 0..3
      /\ Heard(v) \in 1..3
  BY SeenType, StageType
<1>7. CalmInv(rest, q, d, v)
  <2>1. ServerCalm(v)
    BY <1>2 DEF CalmInv
  <2>2. InStages(rest, Seen(d), Stage(v.flight))
    BY <1>3, <1>6, InStagesBelow DEF v
  <2>3. Seen(d) <= Stage(v.flight) \/ Seen(d) = 1
    <3>1. L <= Stage(v.flight) \/ L = 1
      BY DEF v
    <3> QED
      BY <1>3, <1>6, <3>1
  <2>4. Heard(v) <= Stage(d.flight) \/ Heard(v) = 1
    <3>1. Heard(v) <= Stage(c.flight) \/ Heard(v) = 1
      BY <1>2 DEF CalmInv
    <3> QED
      BY <1>3, <1>6, <3>1
  <2>5. d.open => Complete(rest, Came(d))
    BY <1>3, CompleteMore DEF d
  <2> QED
    BY <1>3, <1>4, <2>1, <2>2, <2>3, <2>4, <2>5 DEF CalmInv
<1> QED
  BY <1>2, <1>5, <1>7 DEF KeptInv

LEMMA ServerMovesCalm ==
    ASSUME SecretInv, KeptInv, Calm, NEW rest, NEW r, Step("server", rest, r), held' = held,
           IsSeq(rest), IsSeq(r.out), NEW L \in 1..3, ServerGoes(sock["server"], r, L),
           InStages(rest, L, Stage(sock["client"].flight)),
           L <= Stage(sock["client"].flight) \/ L = 1
    PROVE  KeptInv'
<1> DEFINE c == sock["client"]
           v == sock["server"]
           w == r.socket
           a == net["client"]
           q == a \o r.out
<1>0. DOMAIN sock = Peers /\ DOMAIN net = Peers /\ IsSeq(a)
  BY DEF SecretInv, NetInv, Peers
<1>1. /\ sock' = [sock EXCEPT !["server"] = w] /\ scenario' = scenario
      /\ net' = [net EXCEPT !["server"] = rest, !["client"] = q]
  BY DEF Step, Other
<1>2. held = {} /\ CalmInv(a, net["server"], c, v)
  BY DEF KeptInv
<1>3. /\ ServerCalm(w) /\ AllIn(r.out, Stage(w.flight)) /\ Complete(r.out, {})
      /\ Stage(v.flight) <= Stage(w.flight) /\ Heard(w) <= L
  BY DEF ServerGoes
<1>4. InStages(q, Seen(c), Stage(w.flight))
  <2>1. InStages(a, Seen(c), Stage(v.flight)) /\ (Seen(c) <= Stage(v.flight) \/ Seen(c) = 1)
    BY <1>2 DEF CalmInv
  <2>2. Seen(c) \in 1..3 /\ Stage(v.flight) \in 0..3 /\ Stage(w.flight) \in 0..3
    BY SeenType, StageType
  <2>3. Seen(c) <= Stage(w.flight) \/ Seen(c) = 1
    BY <1>3, <2>1, <2>2
  <2> HIDE DEF a, c, w, v
  <2> QED
    BY <1>0, <1>3, <2>1, <2>2, <2>3, SortedConcat
<1>c. c.open => Complete(q, Came(c))
  <2>1. c.open => Complete(a, Came(c))
    BY <1>2 DEF CalmInv
  <2> HIDE DEF a, c
  <2> QED
    BY <1>0, <1>3, <2>1, CompleteConcat
<1> HIDE DEF w, q
<1>5. /\ sock'["server"] = w /\ sock'["client"] = c
      /\ net'["server"] = rest /\ net'["client"] = q
  BY <1>0, <1>1 DEF Peers
<1> HIDE DEF c, v, a
<1>6. Heard(w) \in 1..3 /\ Stage(v.flight) \in 0..3 /\ Stage(c.flight) \in 0..3 /\ Stage(w.flight) \in 0..3
      /\ Seen(c) \in 1..3
  BY SeenType, StageType
<1>7. CalmInv(q, rest, c, w)
  <2>1. ClientCalm(c)
    BY <1>2 DEF CalmInv
  <2>2. InStages(rest, Heard(w), Stage(c.flight))
    BY <1>3, <1>6, InStagesBelow DEF c
  <2>3. Heard(w) <= Stage(c.flight) \/ Heard(w) = 1
    <3>1. L <= Stage(c.flight) \/ L = 1
      BY DEF c
    <3> QED
      BY <1>3, <1>6, <3>1
  <2>4. Seen(c) <= Stage(w.flight) \/ Seen(c) = 1
    <3>1. Seen(c) <= Stage(v.flight) \/ Seen(c) = 1
      BY <1>2 DEF CalmInv
    <3> QED
      BY <1>3, <1>6, <3>1
  <2> QED
    BY <1>3, <1>4, <1>c, <2>1, <2>2, <2>3, <2>4 DEF CalmInv
<1> QED
  BY <1>2, <1>5, <1>7 DEF KeptInv

\* A step of the client that takes nothing off its way.
LEMMA ClientActs ==
    ASSUME SecretInv, KeptInv, Calm, NEW r, Step("client", net["client"], r), held' = held,
           IsSeq(r.out), ClientGoes(sock["client"], r, Seen(sock["client"]), Came(sock["client"]))
    PROVE  KeptInv'
<1> DEFINE c == sock["client"]
           v == sock["server"]
           q == net["client"]
<1>1. IsSeq(q)
  BY DEF SecretInv, NetInv, Peers
<1>2. /\ InStages(q, Seen(c), Stage(v.flight)) /\ (Seen(c) <= Stage(v.flight) \/ Seen(c) = 1)
      /\ c.open => Complete(q, Came(c))
  BY DEF KeptInv, CalmInv
<1>3. r.socket.open => c.open
  BY DEF ClientGoes
<1>4. Seen(c) \in 1..3
  BY SeenType
<1> HIDE DEF c, v, q
<1> QED
  BY <1>1, <1>2, <1>3, <1>4, ClientMovesCalm DEF c, v, q

LEMMA ServerActs ==
    ASSUME SecretInv, KeptInv, Calm, NEW r, Step("server", net["server"], r), held' = held,
           IsSeq(r.out), ServerGoes(sock["server"], r, Heard(sock["server"]))
    PROVE  KeptInv'
<1> DEFINE c == sock["client"]
           v == sock["server"]
           q == net["server"]
<1>1. IsSeq(q)
  BY DEF SecretInv, NetInv, Peers
<1>2. InStages(q, Heard(v), Stage(c.flight)) /\ (Heard(v) <= Stage(c.flight) \/ Heard(v) = 1)
  BY DEF KeptInv, CalmInv
<1>3. Heard(v) \in 1..3
  BY SeenType
<1> HIDE DEF c, v, q
<1> QED
  BY <1>1, <1>2, <1>3, ServerMovesCalm DEF c, v, q

LEMMA ClientGoesNowhere ==
    ASSUME NEW c, ClientCalm(c)
    PROVE  ClientGoes(c, Keep(c), Seen(c), Came(c))
<1>1. Seen(c) <= Seen(c)
  BY SeenType
<1> QED
  BY <1>1, ClientStays

LEMMA ServerGoesNowhere ==
    ASSUME NEW v, ServerCalm(v)
    PROVE  ServerGoes(v, Keep(v), Heard(v))
<1>1. Heard(v) <= Heard(v)
  BY SeenType
<1> QED
  BY <1>1, ServerStays

LEMMA StartKept ==
    ASSUME SecretInv, KeptInv, Calm, start
    PROVE  KeptInv'
<1> DEFINE c == sock["client"]
           m == Msg("ClientHello", None)
           hello == <<m>>
           l == Loop(1, 3, hello)
           d == [c EXCEPT !.state = "connecting", !.flight = 1, !.loops = {l}]
<1>1. c.state = "new" /\ Step("client", net["client"], Send(d, hello)) /\ held' = held
  BY DEF start
<1>2. ClientInv(c, sock["server"]) /\ c.flight = 0 /\ RetransmitCount \in Nat
  BY <1>1, Scenario DEF SecretInv, StartInv
<1>3. ClientCalm(c)
  BY DEF KeptInv, CalmInv
<1>4. m.kind = "ClientHello" /\ Phase(m) = 1
  BY DEF Msg, Phase
<1> HIDE DEF m
<1>5. IsSeq(hello) /\ AllIn(hello, 1)
  BY <1>4, OneSeq, OneIn
<1> HIDE DEF hello
<1>6. l.next = 3 /\ l.messages = hello
  BY <1>2, <1>5, LoopFields
<1> HIDE DEF l
<1>7. /\ Changed(c, d, {"state", "flight", "loops"}) /\ d.state = "connecting" /\ d.flight = 1
      /\ d.loops = {l}
  BY <1>2 DEF ClientInv, SocketInv, SocketFields, Changed
<1> HIDE DEF d
<1>8. /\ d.connected = c.connected /\ d.key = c.key /\ d.ready = c.ready /\ d.waiting = c.waiting
      /\ d.cache = c.cache /\ d.open = c.open
  BY <1>7 DEF Changed, SocketFields
<1>9. \A k : InCache(k, d) <=> InCache(k, c)
  BY <1>8 DEF InCache
<1>10. Repeats(d)
  BY <1>5, <1>6, <1>7 DEF Repeats, Stage
<1>11. ClientCalm(d)
  <2>1. ~d.connected
    BY <1>2, <1>3, <1>8 DEF ClientCalm
  <2> QED
    BY <1>3, <1>6, <1>7, <1>8, <1>9, <1>10, <2>1 DEF ClientCalm
<1>12. Seen(d) = Seen(c) /\ Came(d) = Came(c)
  BY <1>2, <1>7, <1>8, <1>9 DEF Seen, Came, Has
<1>13. ClientGoes(c, Send(d, hello), Seen(c), Came(c))
  <2>1. Seen(c) \in 1..3
    BY SeenType
  <2>2. Stage(c.flight) = 0 /\ Stage(d.flight) = 1
    BY <1>2, <1>7 DEF Stage
  <2> QED
    BY <1>5, <1>8, <1>11, <1>12, <2>1, <2>2 DEF ClientGoes, Send
<1> QED
  BY <1>1, <1>5, <1>13, ClientActs DEF Send

\* The first datagram on its way arrives.
LEMMA UdpOnMessageKept ==
    ASSUME SecretInv, KeptInv, Calm, NEW p \in Peers, NEW i \in DOMAIN net[p], udpOnMessage(p, i)
    PROVE  KeptInv'
<1> DEFINE c == sock["client"]
           v == sock["server"]
           q == net[p]
           m == q[i]
           rest == RemoveAt(q, i)
           r == IF sock[p].open /\ Opens(sock[p], m) THEN handleHandshakes(p, sock[p], m)
                ELSE Keep(sock[p])
           L == Phase(m)
<1>1. Step(p, rest, r) /\ held' = held /\ (i > 1 => overtakes < scenario.overtakes)
  BY DEF udpOnMessage, Receive
<1>2. /\ IsSeq(q) /\ IsSeq(rest) /\ c.state # "new"
      /\ p = "client" => ToClient(m, v)
      /\ p = "server" => ToServer(m, c)
  BY OnTheWay
<1>3. i = 1
  <2>1. overtakes \in 0..scenario.overtakes /\ scenario.overtakes = 0
    BY DEF SecretInv, Calm
  <2>2. i \in 1..Len(q) /\ Len(q) \in Nat
    BY <1>2, SeqFacts
  <2> QED
    BY <1>1, <2>1, <2>2
<1>4. /\ ClientInv(c, v) /\ ServerInv(v, c) /\ RetransmitCount \in Nat /\ c.flight # 0
      /\ v.connects \in Nat /\ (v.connects > 0 => c.flight >= 3)
  BY <1>2, Scenario DEF SecretInv, StartInv, ServerInv, SocketInv
<1>5. CalmInv(net["client"], net["server"], c, v)
  BY DEF KeptInv
<1>6. L \in 1..3
  BY PhaseType
<1>7. CASE p = "client"
  <2> DEFINE K == Came(c) \union ({m.kind} \cap Awaited)
  <2>1. /\ InStages(q, Seen(c), Stage(v.flight)) /\ (c.open => Complete(q, Came(c)))
        /\ Seen(c) \in 1..3 /\ Stage(v.flight) \in 0..3
    BY <1>5, <1>7, SeenType, StageType DEF CalmInv
  <2>2. r = IF c.open /\ Opens(c, m) THEN clientHandles(c, m) ELSE Keep(c)
    BY <1>7 DEF handleHandshakes
  <2>3. Step("client", rest, r)
    BY <1>1, <1>7
  <2>4. ClientStep(c, r, v)
    <3>1. ClientStep(c, Keep(c), v)
      BY <1>2, <1>4, KeepClient
    <3>2. Opens(c, m) => ClientStep(c, clientHandles(c, m), v)
      BY <1>2, <1>4, <1>7, ClientHandles
    <3> HIDE DEF r
    <3> QED
      BY <2>2, <3>1, <3>2
  <2> HIDE DEF r
  <2>5. InStages(rest, L, Stage(v.flight)) /\ Seen(c) <= L /\ L <= Stage(v.flight)
    BY <1>2, <1>3, <2>1, SortedRemove
  <2>6. c.open => Complete(rest, K) /\ Needed(m.kind) \subseteq Came(c)
    BY <1>2, <1>3, <2>1, CompleteRemove, CompleteHead
  <2>7. ClientGoes(c, r, L, K)
    <3>c. ClientCalm(c)
      BY <1>5 DEF CalmInv
    <3>1. CASE c.open /\ Opens(c, m)
      <4>1. m.kind \in ClientKinds /\ c.flight \in {1, 3, 5, 7} /\ SocketInv(c)
        BY <1>2, <1>4, <1>7 DEF ToClient, ClientInv
      <4>2. m.kind = "ServerFinished" => c.ready
        <5>1. m.kind = "ServerFinished" => c.key # None
          BY <1>2, <1>7, <3>1 DEF ToClient, Opens
        <5> QED
          BY <3>c, <5>1 DEF ClientCalm
      <4>3. Needed(m.kind) \subseteq Came(c)
        BY <2>6, <3>1
      <4>4. r = clientHandles(c, m)
        BY <2>2, <3>1
      <4> HIDE DEF c, m
      <4> QED
        BY <1>4, <2>5, <3>c, <4>1, <4>2, <4>3, <4>4, ClientHandlesGoes
    <3>2. CASE ~(c.open /\ Opens(c, m))
      <4>1. c.open => K = Came(c)
        BY <1>2, <1>7, <3>2 DEF Opens, ToClient, ClientKinds, Awaited
      <4>2. r = Keep(c)
        BY <2>2, <3>2
      <4> HIDE DEF c, K
      <4> QED
        BY <2>5, <3>c, <4>1, <4>2, ClientStays
    <3> QED
      BY <3>1, <3>2
  <2>8. IsSeq(r.out) /\ (r.socket.open => c.open)
    BY <2>4, <2>7 DEF ClientStep, ClientGoes
  <2> HIDE DEF K, rest, L
  <2> QED
    BY <1>1, <1>2, <1>6, <2>3, <2>5, <2>6, <2>7, <2>8, ClientMovesCalm
<1>8. CASE p = "server"
  <2>1. /\ InStages(q, Heard(v), Stage(c.flight)) /\ Heard(v) \in 1..3 /\ Stage(c.flight) \in 0..3
    BY <1>5, <1>8, SeenType, StageType DEF CalmInv
  <2>2. r = IF v.open /\ Opens(v, m) THEN serverHandles(v, m) ELSE Keep(v)
    BY <1>8 DEF handleHandshakes
  <2>3. Step("server", rest, r)
    BY <1>1, <1>8
  <2>4. ServerStep(v, r, c)
    <3>1. ServerStep(v, Keep(v), c)
      BY <1>4, KeepServer DEF Grows
    <3>2. ServerStep(v, serverHandles(v, m), c)
      BY <1>2, <1>4, <1>8, ServerHandles
    <3> HIDE DEF r
    <3> QED
      BY <2>2, <3>1, <3>2
  <2> HIDE DEF r
  <2>5. InStages(rest, L, Stage(c.flight)) /\ Heard(v) <= L /\ L <= Stage(c.flight)
    BY <1>2, <1>3, <2>1, SortedRemove
  <2>6. ServerGoes(v, r, L)
    <3>c. ServerCalm(v) /\ m.kind \in ServerKinds
      BY <1>2, <1>5, <1>8 DEF CalmInv, ToServer
    <3>1. ServerGoes(v, serverHandles(v, m), L)
      BY <1>4, <2>5, <3>c, ServerHandlesGoes
    <3>2. ServerGoes(v, Keep(v), L)
      BY <2>5, <3>c, ServerStays
    <3> QED
      BY <2>2, <3>1, <3>2
  <2>7. IsSeq(r.out)
    BY <2>4 DEF ServerStep
  <2> HIDE DEF rest, L
  <2> QED
    BY <1>1, <1>2, <1>6, <2>3, <2>5, <2>6, <2>7, ServerMovesCalm
<1> QED
  BY <1>7, <1>8 DEF Peers

\* No handler waits for a datagram that is lost.
LEMMA LoseKept ==
    ASSUME SecretInv, KeptInv, Calm, NEW p \in Peers, NEW i \in DOMAIN net[p], lose(p, i)
    PROVE  KeptInv'
<1> DEFINE c == sock["client"]
           v == sock["server"]
           q == net[p]
           m == q[i]
           rest == RemoveAt(q, i)
<1>1. /\ Step(p, rest, Keep(sock[p])) /\ held' = held /\ m.kind \in scenario.lossable
  BY DEF lose
<1>2. IsSeq(q) /\ IsSeq(rest)
  BY OnTheWay
<1>3. CalmInv(net["client"], net["server"], c, v)
  BY DEF KeptInv
<1>4. m.kind \notin Awaited
  BY <1>1 DEF Calm, Recoverable, Awaited
<1>5. IsSeq(Keep(sock[p]).out) /\ Keep(sock[p]).socket = sock[p]
  BY NoSeq DEF Keep, Send
<1>6. CASE p = "client"
  <2>1. /\ InStages(q, Seen(c), Stage(v.flight)) /\ (c.open => Complete(q, Came(c)))
        /\ Seen(c) \in 1..3 /\ Stage(v.flight) \in 0..3
        /\ Seen(c) <= Stage(v.flight) \/ Seen(c) = 1
    BY <1>3, <1>6, SeenType, StageType DEF CalmInv
  <2>2. InStages(rest, Seen(c), Stage(v.flight))
    BY <1>2, <2>1, SortedRemove
  <2>3. c.open => Complete(rest, Came(c))
    <3>1. Came(c) \union ({m.kind} \cap Awaited) = Came(c)
      BY <1>4
    <3>2. c.open => Complete(rest, Came(c) \union ({m.kind} \cap Awaited))
      BY <1>2, <1>4, <2>1, CompleteRemove
    <3> HIDE DEF rest, m, c
    <3> QED
      BY <3>1, <3>2
  <2>4. ClientGoes(c, Keep(c), Seen(c), Came(c))
    BY <1>3, ClientGoesNowhere DEF CalmInv
  <2>5. Step("client", rest, Keep(c)) /\ IsSeq(Keep(c).out) /\ Keep(c).socket = c
    BY <1>1, <1>5, <1>6
  <2> HIDE DEF rest
  <2> QED
    BY <1>1, <1>2, <2>1, <2>2, <2>3, <2>4, <2>5, ClientMovesCalm
<1>7. CASE p = "server"
  <2>1. /\ InStages(q, Heard(v), Stage(c.flight)) /\ Heard(v) \in 1..3 /\ Stage(c.flight) \in 0..3
        /\ Heard(v) <= Stage(c.flight) \/ Heard(v) = 1
    BY <1>3, <1>7, SeenType, StageType DEF CalmInv
  <2>2. InStages(rest, Heard(v), Stage(c.flight))
    BY <1>2, <2>1, SortedRemove
  <2>3. ServerGoes(v, Keep(v), Heard(v))
    BY <1>3, ServerGoesNowhere DEF CalmInv
  <2>4. Step("server", rest, Keep(v)) /\ IsSeq(Keep(v).out)
    BY <1>1, <1>5, <1>7
  <2> HIDE DEF rest
  <2> QED
    BY <1>1, <1>2, <2>1, <2>2, <2>3, <2>4, ServerMovesCalm
<1> QED
  BY <1>6, <1>7 DEF Peers

\* The network repeats nothing.
LEMMA NothingRepeated ==
    ASSUME SecretInv, KeptInv, Calm
    PROVE  /\ \A h \in held : FALSE
           /\ \A p \in Peers : \A i \in DOMAIN net[p] : ~repeat(p, i)
<1>1. copies \in 0..scenario.copies /\ scenario.copies = 0 /\ held = {}
  BY DEF SecretInv, Calm, KeptInv
<1>2. ~(copies < scenario.copies)
  BY <1>1
<1> QED
  BY <1>1, <1>2 DEF repeat

\* An end with fewer loops, or with those it had.
LEMMA LoopsCalmClient ==
    ASSUME NEW c, NEW d, ClientCalm(c), Changed(c, d, {"loops"}),
           \A x \in d.loops : \E y \in c.loops : x.next = y.next /\ x.messages = y.messages
    PROVE  ClientCalm(d) /\ Seen(d) = Seen(c) /\ Came(d) = Came(c) /\ d.flight = c.flight /\ d.open = c.open
<1>1. /\ d.flight = c.flight /\ d.ready = c.ready /\ d.cache = c.cache /\ d.waiting = c.waiting
      /\ d.lastMessage = c.lastMessage /\ d.connected = c.connected /\ d.state = c.state
      /\ d.connects = c.connects /\ d.key = c.key /\ d.srtp = c.srtp /\ d.open = c.open
  BY DEF Changed, SocketFields
<1>2. \A k : InCache(k, d) <=> InCache(k, c)
  BY <1>1 DEF InCache
<1>3. Repeats(d) /\ \A l \in d.loops : l.next # 6
  BY <1>1 DEF Repeats, ClientCalm
<1>4. ClientCalm(d)
  BY <1>1, <1>2, <1>3 DEF ClientCalm
<1> QED
  BY <1>1, <1>2, <1>4 DEF Seen, Came, Has

LEMMA LoopsCalmServer ==
    ASSUME NEW v, NEW w, ServerCalm(v), Changed(v, w, {"loops"}),
           \A x \in w.loops : \E y \in v.loops : x.next = y.next /\ x.messages = y.messages
    PROVE  ServerCalm(w) /\ Heard(w) = Heard(v) /\ w.flight = v.flight
<1>1. /\ w.flight = v.flight /\ w.waiting = v.waiting /\ w.key = v.key
      /\ w.lastMessage = v.lastMessage /\ w.connected = v.connected /\ w.state = v.state
      /\ w.connects = v.connects /\ w.srtp = v.srtp
  BY DEF Changed, SocketFields
<1>2. Repeats(w) /\ \A l \in w.loops : l.next = 6 /\ Complete(l.messages, {})
  BY <1>1 DEF Repeats, ServerCalm
<1>3. ServerCalm(w)
  BY <1>1, <1>2 DEF ServerCalm
<1> QED
  BY <1>1, <1>3 DEF Heard

\* A loop that has not ended repeats the last flight.
LEMMA LoopRepeats ==
    ASSUME NEW s, Repeats(s), s.flight \in {0, 1, 2, 3, 4, 5, 6, 7}, NEW l \in s.loops, ~(s.flight >= l.next),
           l.next # 6 => s.flight \in {0, 1, 3, 5, 7}
    PROVE  AllIn(l.messages, Stage(s.flight))
<1>1. s.flight = l.next - 2
  BY DEF Repeats
<1> QED
  BY <1>1 DEF Repeats

LEMMA TransmitKept ==
    ASSUME SecretInv, KeptInv, Calm, NEW p \in Peers, NEW l \in sock[p].loops, transmit(p, l)
    PROVE  KeptInv'
<1> DEFINE c == sock["client"]
           v == sock["server"]
           L == sock[p].loops \ {l}
           s == [sock[p] EXCEPT !.loops = L]
           k == [l EXCEPT !.sent = @ + 1]
           M == L \union {k}
           t == [sock[p] EXCEPT !.loops = M]
           r == IF s.flight >= l.next THEN Keep(s)
                ELSE IF l.sent > RetransmitCount THEN Keep(Fail(s))
                ELSE Send(t, l.messages)
<1>0. SocketInv(sock[p]) /\ DOMAIN sock[p] = SocketFields
  BY DEF SecretInv, ClientInv, ServerInv, SocketInv, Peers
<1>1. Step(p, net[p], r) /\ held' = held
  <2> DEFINE u == [s EXCEPT !.loops = @ \union {k}]
             x == IF s.flight >= l.next THEN Keep(s)
                  ELSE IF l.sent > RetransmitCount THEN Keep(Fail(s))
                  ELSE Send(u, l.messages)
  <2>1. Step(p, net[p], x) /\ held' = held
    BY DEF transmit
  <2>2. u = t
    BY <1>0 DEF SocketFields
  <2>3. x = r
    <3> HIDE DEF u, t, s
    <3> QED
      BY <2>2
  <2> HIDE DEF x, r
  <2> QED
    BY <2>1, <2>3
<1>2. ClientInv(c, v) /\ ServerInv(v, c)
  BY DEF SecretInv
<1>3. CalmInv(net["client"], net["server"], c, v)
  BY DEF KeptInv
<1>4. k.next = l.next /\ k.messages = l.messages /\ IsSeq(l.messages)
  BY <1>0 DEF SocketInv
<1> HIDE DEF k
<1>5. /\ \A x \in L : \E y \in sock[p].loops : x.next = y.next /\ x.messages = y.messages
      /\ \A x \in M : \E y \in sock[p].loops : x.next = y.next /\ x.messages = y.messages
  BY <1>4
<1>6. /\ Changed(sock[p], s, {"loops"}) /\ s.loops = L
      /\ Changed(sock[p], t, {"loops"}) /\ t.loops = M
  BY <1>0 DEF Changed, SocketFields
<1>7. SocketInv(s)
  <2>1. s.loops \subseteq sock[p].loops
    BY <1>6
  <2> HIDE DEF s
  <2>2. /\ DOMAIN s = SocketFields /\ s.connects = sock[p].connects /\ s.connected = sock[p].connected
        /\ s.state = sock[p].state /\ s.lastMessage = sock[p].lastMessage
        /\ s.waiting = sock[p].waiting /\ s.cache = sock[p].cache
    BY <1>6 DEF Changed, SocketFields
  <2> QED
    BY <1>0, <2>1, <2>2 DEF SocketInv
<1>8. s.flight = sock[p].flight
  BY <1>6 DEF Changed, SocketFields
<1>9. \/ r = Keep(s) \/ r = Keep(Fail(s))
      \/ ~(s.flight >= l.next) /\ r = Send(t, l.messages)
  OBVIOUS
<1> HIDE DEF L, M, r, s, t
<1>10. IsSeq(r.out)
  BY <1>4, <1>9, NoSeq DEF Keep, Send
<1>11. CASE p = "client"
  <2>1. ClientCalm(c)
    BY <1>3 DEF CalmInv
  <2>2. ClientCalm(s) /\ Seen(s) = Seen(c) /\ Came(s) = Came(c) /\ s.flight = c.flight /\ s.open = c.open
    BY <1>5, <1>6, <1>11, <2>1, LoopsCalmClient
  <2>3. ClientCalm(t) /\ Seen(t) = Seen(c) /\ Came(t) = Came(c) /\ t.flight = c.flight /\ t.open = c.open
    BY <1>5, <1>6, <1>11, <2>1, LoopsCalmClient
  <2>4. Seen(c) \in 1..3 /\ Stage(c.flight) \in 0..3
    BY SeenType, StageType
  <2>5. ClientGoes(c, r, Seen(c), Came(c))
    <3> HIDE DEF c
    <3>1. CASE r = Keep(s)
      BY <2>2, <2>4, <3>1, ClientStays
    <3>2. CASE r = Keep(Fail(s))
      <4>1. ClientGoes(s, Keep(Fail(s)), Seen(s), Came(s))
        BY <1>7, <2>2, <2>4, FailGoes
      <4> QED
        BY <2>2, <3>2, <4>1 DEF ClientGoes
    <3>3. CASE ~(s.flight >= l.next) /\ r = Send(t, l.messages)
      <4>1. c.flight \in {0, 1, 3, 5, 7}
        BY <1>2 DEF ClientInv
      <4>2. Repeats(c) /\ l \in c.loops
        BY <1>11, <2>1 DEF ClientCalm, c
      <4>3. ~(c.flight >= l.next)
        BY <2>2, <3>3
      <4>4. AllIn(l.messages, Stage(c.flight))
        BY <4>1, <4>2, <4>3, LoopRepeats
      <4> QED
        BY <2>3, <2>4, <3>3, <4>4 DEF ClientGoes, Send
    <3> QED
      BY <1>9, <3>1, <3>2, <3>3
  <2> QED
    BY <1>1, <1>10, <1>11, <2>5, ClientActs
<1>12. CASE p = "server"
  <2>1. ServerCalm(v)
    BY <1>3 DEF CalmInv
  <2>2. ServerCalm(s) /\ Heard(s) = Heard(v) /\ s.flight = v.flight
    BY <1>5, <1>6, <1>12, <2>1, LoopsCalmServer
  <2>3. ServerCalm(t) /\ Heard(t) = Heard(v) /\ t.flight = v.flight
    BY <1>5, <1>6, <1>12, <2>1, LoopsCalmServer
  <2>4. Heard(v) \in 1..3 /\ Stage(v.flight) \in 0..3
    BY SeenType, StageType
  <2>5. ServerGoes(v, r, Heard(v))
    <3> HIDE DEF v
    <3>1. CASE r = Keep(s)
      BY <2>2, <2>4, <3>1, ServerStays
    <3>2. CASE r = Keep(Fail(s))
      <4>1. ServerGoes(s, Keep(Fail(s)), Heard(s))
        BY <1>7, <2>2, <2>4, FailGoesServer
      <4> QED
        BY <2>2, <3>2, <4>1 DEF ServerGoes
    <3>3. CASE ~(s.flight >= l.next) /\ r = Send(t, l.messages)
      <4>1. v.flight \in {0, 2, 4, 6}
        BY <1>2 DEF ServerInv
      <4>2. Repeats(v) /\ l \in v.loops /\ l.next = 6 /\ Complete(l.messages, {})
        BY <1>12, <2>1 DEF ServerCalm, v
      <4>3. ~(v.flight >= l.next)
        BY <2>2, <3>3
      <4>4. AllIn(l.messages, Stage(v.flight))
        BY <4>1, <4>2, <4>3, LoopRepeats
      <4> QED
        BY <2>3, <2>4, <3>3, <4>2, <4>4 DEF ServerGoes, Send
    <3> QED
      BY <1>9, <3>1, <3>2, <3>3
  <2> QED
    BY <1>1, <1>10, <1>12, <2>5, ServerActs
<1> QED
  BY <1>11, <1>12 DEF Peers

\* No handler of the client waits; one of the server waits for flight 5.
LEMMA OnlyServerWaits ==
    ASSUME SecretInv, KeptInv, Calm, NEW p \in Peers, NEW i \in DOMAIN sock[p].waiting
    PROVE  p = "server" /\ Heard(sock["server"]) = 3 /\ IsSeq(RemoveAt(sock["server"].waiting, i))
<1>1. sock["client"].waiting = <<>>
  BY DEF KeptInv, CalmInv, ClientCalm
<1>2. sock[p].waiting # <<>> /\ IsSeq(RemoveAt(sock[p].waiting, i))
  BY Waits, NoSeq
<1>3. p = "server"
  BY <1>1, <1>2 DEF Peers
<1> QED
  BY <1>2, <1>3 DEF Heard

LEMMA WaitCalmServer ==
    ASSUME NEW v, NEW q, SocketInv(v), ServerCalm(v), IsSeq(q), Heard(v) = 3
    PROVE  LET w == [v EXCEPT !.waiting = q]
           IN  SocketInv(w) /\ ServerCalm(w) /\ w.flight = v.flight /\ Heard(w) <= 3
<1> DEFINE w == [v EXCEPT !.waiting = q]
<1>1. Changed(v, w, {"waiting"}) /\ w.waiting = q
  BY DEF SocketInv, SocketFields, Changed
<1> HIDE DEF w
<1>2. /\ w.flight = v.flight /\ w.key = v.key /\ w.loops = v.loops /\ w.cache = v.cache
      /\ w.lastMessage = v.lastMessage /\ w.connected = v.connected /\ w.state = v.state
      /\ w.connects = v.connects /\ w.srtp = v.srtp
  BY <1>1 DEF Changed, SocketFields
<1>3. Repeats(w)
  BY <1>2 DEF Repeats, ServerCalm
<1>4. ServerCalm(w)
  BY <1>2, <1>3 DEF ServerCalm
<1>5. SocketInv(w)
  BY <1>1, <1>2 DEF SocketInv, Changed
<1> QED
  BY <1>2, <1>4, <1>5, SeenType DEF w

LEMMA WaitForReadyKept ==
    ASSUME SecretInv, KeptInv, Calm, NEW p \in Peers, NEW i \in DOMAIN sock[p].waiting, waitForReady(p, i)
    PROVE  KeptInv'
<1> DEFINE c == sock["client"]
           v == sock["server"]
           q == RemoveAt(v.waiting, i)
           s == [v EXCEPT !.waiting = q]
           r == Flight6(s)
<1>1. p = "server" /\ Heard(v) = 3 /\ IsSeq(q)
  BY OnlyServerWaits
<1>2. ServerInv(v, c) /\ SocketInv(v)
  BY DEF SecretInv, ServerInv
<1>3. Step("server", net["server"], r) /\ held' = held
  <2>1. s = [v EXCEPT !.waiting = RemoveAt(@, i)]
    BY <1>2 DEF SocketInv, SocketFields
  <2> QED
    BY <1>1, <2>1 DEF waitForReady
<1>4. ServerStep(s, r, c)
  <2>1. ServerInv(s, c) /\ s.cache = v.cache
    <3>1. \A k \in Range(q) : k.kind = "ClientFinished"
      BY <1>1, <1>2, Waits DEF ServerInv
    <3> HIDE DEF v, c, q
    <3> QED
      BY <1>1, <1>2, <3>1, WaitServer
  <2>2. checkHandshakesExist(v.cache, RequiredHandshakes)
    BY <1>1 DEF waitForReady, Resumable
  <2> HIDE DEF s, v
  <2> QED
    BY <2>1, <2>2, Flight6Step
<1>5. ServerGoes(v, r, 3)
  <2>1. ServerCalm(v) /\ v.flight \in {0, 2, 4, 6}
    BY <1>2 DEF KeptInv, CalmInv, ServerInv
  <2> HIDE DEF v, q
  <2>2. SocketInv(s) /\ ServerCalm(s) /\ s.flight = v.flight
    BY <1>1, <1>2, <2>1, WaitCalmServer
  <2> HIDE DEF s
  <2>3. ServerGoes(s, r, 3)
    BY <2>1, <2>2, Flight6Goes
  <2> QED
    BY <2>2, <2>3 DEF ServerGoes
<1>6. IsSeq(r.out)
  BY <1>4 DEF ServerStep
<1> HIDE DEF r
<1> QED
  BY <1>1, <1>3, <1>5, <1>6, ServerActs

LEMMA WaitForReadyTimeoutKept ==
    ASSUME SecretInv, KeptInv, Calm, NEW p \in Peers, NEW i \in DOMAIN sock[p].waiting,
           waitForReadyTimeout(p, i)
    PROVE  KeptInv'
<1> DEFINE v == sock["server"]
           q == RemoveAt(v.waiting, i)
           s == [v EXCEPT !.waiting = q]
           r == Keep(Fail(s))
<1>1. p = "server" /\ Heard(v) = 3 /\ IsSeq(q)
  BY OnlyServerWaits
<1>2. SocketInv(v) /\ ServerCalm(v)
  BY DEF SecretInv, ServerInv, KeptInv, CalmInv
<1>3. Step("server", net["server"], r) /\ held' = held
  <2>1. s = [v EXCEPT !.waiting = RemoveAt(@, i)]
    BY <1>2 DEF SocketInv, SocketFields
  <2> QED
    BY <1>1, <2>1 DEF waitForReadyTimeout
<1>4. ServerGoes(v, r, 3)
  <2> HIDE DEF v, q
  <2>1. SocketInv(s) /\ ServerCalm(s) /\ s.flight = v.flight /\ Heard(s) <= 3
    BY <1>1, <1>2, WaitCalmServer
  <2> HIDE DEF s
  <2>2. ServerGoes(s, r, 3)
    BY <2>1, FailGoesServer
  <2> QED
    BY <2>1, <2>2 DEF ServerGoes
<1>5. IsSeq(r.out)
  BY NoSeq DEF Keep, Send
<1> HIDE DEF r
<1> QED
  BY <1>1, <1>3, <1>4, <1>5, ServerActs

LEMMA StopKept ==
    ASSUME SecretInv, KeptInv, Calm, NEW p \in Peers, stop(p)
    PROVE  KeptInv'
<1> DEFINE c == sock["client"]
           v == sock["server"]
           s == [sock[p] EXCEPT !.open = FALSE, !.state = "closed", !.loops = {}]
<1>0. DOMAIN sock[p] = SocketFields
  BY DEF SecretInv, ClientInv, ServerInv, SocketInv, Peers
<1>1. Step(p, <<>>, Keep(s)) /\ held' = held
  BY DEF stop
<1>2. /\ Changed(sock[p], s, {"open", "state", "loops"}) /\ s.open = FALSE /\ s.state = "closed"
      /\ s.loops = {}
  BY <1>0 DEF Changed, SocketFields
<1> HIDE DEF s
<1>3. CalmInv(net["client"], net["server"], c, v)
  BY DEF KeptInv
<1>4. IsSeq(<<>>) /\ IsSeq(Keep(s).out) /\ Keep(s).socket = s
  BY NoSeq DEF Keep, Send
<1>5. /\ s.flight = sock[p].flight /\ s.waiting = sock[p].waiting /\ s.key = sock[p].key
      /\ s.lastMessage = sock[p].lastMessage /\ s.connected = sock[p].connected
      /\ s.cache = sock[p].cache /\ s.ready = sock[p].ready
  BY <1>2 DEF Changed, SocketFields
<1>6. CASE p = "client"
  <2>1. ClientCalm(c)
    BY <1>3 DEF CalmInv
  <2>2. \A k : InCache(k, s) <=> InCache(k, c)
    BY <1>5, <1>6 DEF InCache
  <2>3. ClientCalm(s)
    <3>1. Repeats(s)
      BY <1>2, <1>5, <1>6, <2>1 DEF ClientCalm, Repeats
    <3> QED
      BY <1>2, <1>5, <1>6, <2>1, <2>2, <3>1 DEF ClientCalm
  <2>4. Seen(s) = Seen(c) /\ Came(s) = Came(c)
    BY <1>5, <1>6, <2>2 DEF Seen, Came, Has
  <2>5. Seen(c) \in 1..3
    BY SeenType
  <2>6. Seen(c) <= Stage(v.flight) \/ Seen(c) = 1
    BY <1>3 DEF CalmInv
  <2>7. ClientGoes(c, Keep(s), Seen(c), Came(c))
    BY <1>2, <1>5, <1>6, <2>3, <2>4, <2>5, ClientStays
  <2>8. Step("client", <<>>, Keep(s))
    BY <1>1, <1>6
  <2> QED
    BY <1>1, <1>2, <1>4, <2>5, <2>6, <2>7, <2>8, InStagesNone, ClientMovesCalm
<1>7. CASE p = "server"
  <2>1. ServerCalm(v)
    BY <1>3 DEF CalmInv
  <2>2. ServerCalm(s)
    <3>1. Repeats(s)
      BY <1>2, <1>5, <1>7, <2>1 DEF ServerCalm, Repeats
    <3> QED
      BY <1>2, <1>5, <1>7, <2>1, <3>1 DEF ServerCalm
  <2>3. Heard(s) = Heard(v)
    BY <1>5, <1>7 DEF Heard
  <2>4. Heard(v) \in 1..3
    BY SeenType
  <2>5. Heard(v) <= Stage(c.flight) \/ Heard(v) = 1
    BY <1>3 DEF CalmInv
  <2>6. ServerGoes(v, Keep(s), Heard(v))
    BY <1>5, <1>7, <2>2, <2>3, <2>4, ServerStays
  <2>7. Step("server", <<>>, Keep(s))
    BY <1>1, <1>7
  <2> QED
    BY <1>1, <1>4, <2>4, <2>5, <2>6, <2>7, InStagesNone, ServerMovesCalm
<1> QED
  BY <1>6, <1>7 DEF Peers

-----------------------------------------------------------------------------
(* Sessions are kept.                                                        *)

LEMMA InitKept ==
    ASSUME Init
    PROVE  KeptInv
<1> DEFINE c == sock["client"]
           v == sock["server"]
<1>1. /\ held = {} /\ net["client"] = <<>> /\ net["server"] = <<>>
      /\ c = [FreshSocket EXCEPT !.state = "new"] /\ v = [FreshSocket EXCEPT !.state = "connecting"]
  BY DEF Init, Peers
<1>2. \A s \in {c, v} :
        /\ s.flight = 0 /\ s.connected = FALSE /\ s.cache = {} /\ s.key = None /\ s.waiting = <<>>
        /\ s.loops = {} /\ s.ready = FALSE
  BY <1>1 DEF FreshSocket
<1>3. c.state = "new" /\ v.state = "connecting"
  BY <1>1 DEF FreshSocket
<1> HIDE DEF c, v
<1>4. Repeats(c) /\ Repeats(v)
  BY <1>2 DEF Repeats
<1>5. \A k : ~InCache(k, c)
  BY <1>2 DEF InCache
<1>6. ClientCalm(c)
  BY <1>2, <1>3, <1>4, <1>5 DEF ClientCalm
<1>7. ServerCalm(v)
  BY <1>2, <1>3, <1>4 DEF ServerCalm
<1>8. Seen(c) = 1 /\ Heard(v) = 1
  BY <1>2 DEF Seen, Heard
<1>9. Complete(<<>>, Came(c))
  BY NoneIn, CompleteMore
<1>10. CalmInv(<<>>, <<>>, c, v)
  BY <1>6, <1>7, <1>8, <1>9, InStagesNone DEF CalmInv
<1> QED
  BY <1>1, <1>10 DEF KeptInv, c, v

LEMMA NextKept ==
    ASSUME SecretInv, KeptInv, [Next]_vars
    PROVE  KeptInv'
<1>1. scenario' = scenario
  BY DEF Next, Progress, vars, start, udpOnMessage, waitForReady, transmit, lateCopy, Receive,
         repeat, lose, waitForReadyTimeout, stop, Step
<1>2. CASE ~Calm
  BY <1>1, <1>2 DEF KeptInv, Calm
<1>3. CASE Calm
  <2>1. CASE start
    BY <1>3, <2>1, StartKept
  <2>2. ASSUME NEW p \in Peers, NEW i \in DOMAIN net[p], udpOnMessage(p, i) PROVE KeptInv'
    BY <1>3, <2>2, UdpOnMessageKept
  <2>3. ASSUME NEW p \in Peers, NEW i \in DOMAIN sock[p].waiting, waitForReady(p, i) PROVE KeptInv'
    BY <1>3, <2>3, WaitForReadyKept
  <2>4. ASSUME NEW p \in Peers, NEW l \in sock[p].loops, transmit(p, l) PROVE KeptInv'
    BY <1>3, <2>4, TransmitKept
  <2>5. ASSUME NEW h \in held, lateCopy(h) PROVE KeptInv'
    BY <1>3, <2>5, NothingRepeated
  <2>6. ASSUME NEW p \in Peers, NEW i \in DOMAIN net[p], repeat(p, i) PROVE KeptInv'
    BY <1>3, <2>6, NothingRepeated
  <2>7. ASSUME NEW p \in Peers, NEW i \in DOMAIN net[p], lose(p, i) PROVE KeptInv'
    BY <1>3, <2>7, LoseKept
  <2>8. ASSUME NEW p \in Peers, NEW i \in DOMAIN sock[p].waiting, waitForReadyTimeout(p, i)
        PROVE  KeptInv'
    BY <1>3, <2>8, WaitForReadyTimeoutKept
  <2>9. ASSUME NEW p \in Peers, stop(p) PROVE KeptInv'
    BY <1>3, <2>9, StopKept
  <2>10. CASE UNCHANGED vars
    BY <2>10 DEF vars, KeptInv, Calm
  <2> QED
    BY <2>1, <2>2, <2>3, <2>4, <2>5, <2>6, <2>7, <2>8, <2>9, <2>10 DEF Next, Progress
<1> QED
  BY <1>2, <1>3

\* A connected transport keeps the keys it connected with (client.ts and server.ts
\* derive none behind the connection), however often the losses of Recoverable make
\* a flight repeat: flights then arrive in their order, no handler of the client
\* waits, and no hello reaches a connected server.
THEOREM SessionsAreKept == Spec => []SessionKept
<1>1. KeptInv => SessionKept
  <2> SUFFICES ASSUME KeptInv, Calm, NEW p \in Peers, sock[p].state = "connected"
               PROVE  sock[p].key = sock[p].srtp
    BY DEF SessionKept, Calm
  <2> QED
    BY DEF KeptInv, CalmInv, ClientCalm, ServerCalm, Peers
<1>2. Init => KeptInv
  BY InitKept
<1>3. SecretInv /\ KeptInv /\ [Next]_vars => KeptInv'
  BY NextKept
<1> QED
  BY <1>1, <1>2, <1>3, HandshakeInvariant, PTL DEF Spec

=============================================================================
