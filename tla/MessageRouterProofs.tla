-------------------------- MODULE MessageRouterProofs --------------------------
(***************************************************************************)
(* For every graph, number of ranks and set of messages of a job, and any  *)
(* order of its steps: relays, metadata and checksums give a handler what  *)
(* the application pushed, and no message is in two places, provided that  *)
(* every hop is a link of the graph.                                       *)
(***************************************************************************)
EXTENDS MessageRouter, FiniteSetTheorems, SequenceTheorems, TLAPS

\* A set of naturals has a least element.
LEMMA LeastNumber ==
  ASSUME NEW S, S \subseteq Nat, S # {}
  PROVE  \E x \in S : \A y \in S : x <= y
<1> DEFINE Below == { 0 .. x - 1 : x \in S }
<1>1. Below \subseteq FiniteSubsetsOf(Nat)
  <2>1. ASSUME NEW x \in S PROVE 0 .. x - 1 \in FiniteSubsetsOf(Nat)
    <3>1. x \in Nat /\ IsFiniteSet(0 .. x - 1)
      BY FS_Interval
    <3> QED
      BY <3>1 DEF FiniteSubsetsOf
  <2> QED
    BY <2>1
<1>2. IsWellFoundedOn(StrictSubsetOrdering(Nat), FiniteSubsetsOf(Nat)) /\ Below # {}
  BY FS_StrictSubsetOrderingWellFounded
<1>3. PICK b \in Below : \A c \in Below : ~ (<<c, b>> \in StrictSubsetOrdering(Nat))
  <2> HIDE DEF Below
  <2> QED
    BY <1>1, <1>2, WFMin
<1>4. PICK x \in S : b = 0 .. x - 1
  BY <1>3
<1>5. ASSUME NEW y \in S, y < x PROVE FALSE
  <2>1. 0 .. y - 1 \in Below
    OBVIOUS
  <2>2. /\ 0 .. y - 1 \subseteq 0 .. x - 1
        /\ y \in 0 .. x - 1 /\ y \notin 0 .. y - 1
    BY <1>5
  <2>3. <<0 .. y - 1, 0 .. x - 1>> \in StrictSubsetOrdering(Nat)
    BY <2>2 DEF StrictSubsetOrdering
  <2> QED
    BY <1>3, <1>4, <2>1, <2>3
<1> QED
  BY <1>5

\* The metadata of a message, as they are saved behind its content.
Meta(sa, da, rs, rd) == [sa |-> sa, da |-> da, rs |-> rs, rd |-> rd]

\* The bytes of a packet: the content c, the metadata x, and the checksum.
body(c, x) == Append(<<c>>, x)
wire(c, x) == IF job.checksum THEN Append(body(c, x), [crc32 |-> body(c, x)]) ELSE body(c, x)

\* A message with content c.
MessageOf(c, tag, src, dst, sa, da, rs, rd) ==
  [source |-> src, destination |-> dst, tag |-> tag, sourceActor |-> sa, destinationActor |-> da,
   routingSource |-> rs, routingDestination |-> rd, bytes |-> <<c>>]

LEMMA Fields ==
  ASSUME NEW c, NEW tag, NEW src, NEW dst, NEW sa, NEW da, NEW rs, NEW rd
  PROVE  LET m == MessageOf(c, tag, src, dst, sa, da, rs, rd)
         IN  /\ m.source = src /\ m.destination = dst /\ m.tag = tag /\ m.sourceActor = sa
             /\ m.destinationActor = da /\ m.routingSource = rs /\ m.routingDestination = rd
             /\ m.bytes = <<c>>
BY DEF MessageOf

LEMMA LastAppended ==
  ASSUME NEW S, NEW s \in Seq(S), NEW e \in S
  PROVE  Last(Append(s, e)) = e /\ Front(Append(s, e)) = s
<1> DEFINE t == Append(s, e)
<1>1. t \in Seq(S) /\ Len(t) = Len(s) + 1 /\ t[Len(s) + 1] = e /\ Len(s) \in Nat /\ \A k \in 1 .. Len(s) : t[k] = s[k]
  BY AppendProperties
<1> HIDE DEF t
<1>2. Last(t) = e
  BY <1>1 DEF Last
<1>3. Front(t) = SubSeq(t, 1, Len(s))
  BY <1>1 DEF Front
<1>4. /\ SubSeq(t, 1, Len(s)) \in Seq(S) /\ Len(SubSeq(t, 1, Len(s))) = Len(s)
      /\ \A k \in 1 .. Len(s) : SubSeq(t, 1, Len(s))[k] = t[k]
  BY <1>1
<1>5. SubSeq(t, 1, Len(s)) = s
  BY <1>1, <1>4, SeqEqual
<1> QED
  BY <1>2, <1>3, <1>5 DEF t

LEMMA Unwire ==
  ASSUME NEW c, NEW x
  PROVE  /\ Front(body(c, x)) = <<c>> /\ Last(body(c, x)) = x /\ body(c, x)[1] = c
         /\ Front(Append(body(c, x), [crc32 |-> body(c, x)])) = body(c, x)
         /\ wire(c, x)[1] = c
<1> DEFINE y == [crc32 |-> body(c, x)]
<1> HIDE DEF y
<1> DEFINE S == {c, x, y}
<1>1. <<c>> \in Seq(S) /\ Len(<<c>>) = 1 /\ c \in S /\ x \in S /\ y \in S
  OBVIOUS
<1> HIDE DEF S
<1>2. body(c, x) \in Seq(S) /\ Len(body(c, x)) = 2 /\ body(c, x)[1] = c
  BY <1>1, AppendProperties DEF body
<1>3. Front(body(c, x)) = <<c>> /\ Last(body(c, x)) = x
  BY <1>1, LastAppended DEF body
<1>4. Front(Append(body(c, x), y)) = body(c, x)
  BY <1>1, <1>2, LastAppended
<1>5. Append(body(c, x), y)[1] = c
  BY <1>1, <1>2, AppendProperties
<1> QED
  BY <1>2, <1>3, <1>4, <1>5 DEF wire, y

LEMMA SentActor ==
  ASSUME NEW c, NEW tag, NEW src, NEW dst, NEW sa \in Int, NEW da \in Int, NEW rs, NEW rd
  PROVE  saveActorMetaData(MessageOf(c, tag, src, dst, sa, da, rs, rd))
           = IF sa < 0 /\ da < 0 THEN MessageOf(c, tag, src, dst, src, dst, rs, rd)
             ELSE MessageOf(c, tag, src, dst, sa, da, rs, rd)
<1> DEFINE m == MessageOf(c, tag, src, dst, sa, da, rs, rd)
           m1 == MessageOf(c, tag, src, dst, src, da, rs, rd)
           m2 == MessageOf(c, tag, src, dst, src, dst, rs, rd)
<1>1. m.sourceActor = sa /\ m.destinationActor = da /\ m.source = src /\ m.destination = dst
  BY Fields
<1>2. [m EXCEPT !.sourceActor = src] = m1 /\ [m1 EXCEPT !.destinationActor = dst] = m2
  BY DEF MessageOf
<1> HIDE DEF m, m1, m2
<1>3. [m EXCEPT !.sourceActor = src, !.destinationActor = dst] = [[m EXCEPT !.sourceActor = src] EXCEPT !.destinationActor = dst]
  OBVIOUS
<1>4. saveActorMetaData(m) = IF sa < 0 /\ da < 0 THEN m2 ELSE m
  BY <1>1, <1>2, <1>3 DEF saveActorMetaData
<1> QED
  BY <1>4 DEF m, m2

\* What is sent: the actors of a message that has none are its ranks.
LEMMA Sent ==
  ASSUME NEW c, NEW tag, NEW src, NEW dst, NEW sa \in Int, NEW da \in Int, NEW rs, NEW rd, NEW r
  PROVE  packet(r, MessageOf(c, tag, src, dst, sa, da, rs, rd)) =
           [from |-> r, to |-> dst, tag |-> tag, age |-> 0,
            bytes |-> wire(c, IF sa < 0 /\ da < 0 THEN Meta(src, dst, rs, rd) ELSE Meta(sa, da, rs, rd))]
<1> DEFINE m == MessageOf(c, tag, src, dst, sa, da, rs, rd)
           a == saveActorMetaData(m)
           x == IF sa < 0 /\ da < 0 THEN Meta(src, dst, rs, rd) ELSE Meta(sa, da, rs, rd)
           w == saveMetaData(m)
<1>1. a = IF sa < 0 /\ da < 0 THEN MessageOf(c, tag, src, dst, src, dst, rs, rd) ELSE m
  BY SentActor
<1>2. [sa |-> a.sourceActor, da |-> a.destinationActor,
       rs |-> saveRoutingMetaData(a).rs, rd |-> saveRoutingMetaData(a).rd] = x
  BY <1>1, Fields DEF saveRoutingMetaData, Meta
<1>3. a.bytes = <<c>> /\ "bytes" \in DOMAIN a
  BY <1>1 DEF MessageOf
<1> HIDE DEF m, a, x
<1>4. w = [a EXCEPT !.bytes = body(c, x)]
  <2>1. w = [a EXCEPT !.bytes = Append(a.bytes, x)]
    BY <1>2, <1>3 DEF saveMetaData, a
  <2> QED
    BY <1>3, <2>1 DEF body
<1>5. w.bytes = body(c, x) /\ "bytes" \in DOMAIN w
  BY <1>3, <1>4
<1> HIDE DEF w
<1>6. addMessageChecksums(w).bytes = wire(c, x)
  BY <1>5 DEF addMessageChecksums, wire
<1>7. m.destination = dst /\ m.tag = tag
  BY Fields DEF m
<1>8. packet(r, m) = [from |-> r, to |-> dst, tag |-> tag, age |-> 0, bytes |-> wire(c, x)]
  BY <1>6, <1>7 DEF packet, w
<1> QED
  BY <1>8 DEF m, x

\* What is received: the message that was sent, with the ranks of MPI.
LEMMA Received ==
  ASSUME NEW p, NEW c, NEW sa, NEW da, NEW rs, NEW rd, p.bytes = wire(c, Meta(sa, da, rs, rd))
  PROVE  receive(p) = MessageOf(c, p.tag, p.from, p.to, sa, da, rs, rd)
<1> DEFINE x == Meta(sa, da, rs, rd)
           bare(b) == [source |-> p.from, destination |-> p.to, tag |-> p.tag, bytes |-> b,
                       sourceActor |-> NO_VALUE, destinationActor |-> NO_VALUE,
                       routingSource |-> NO_VALUE, routingDestination |-> NO_VALUE]
           v == verifyMessageChecksums(probeAndRead(p))
<1>0. x.sa = sa /\ x.da = da /\ x.rs = rs /\ x.rd = rd
  BY DEF Meta
<1>1. \A b, d : bare(b).bytes = b /\ [bare(b) EXCEPT !.bytes = d] = bare(d)
  OBVIOUS
<1>2. probeAndRead(p) = bare(wire(c, x))
  BY DEF probeAndRead
<1>3. [bare(wire(c, x)) EXCEPT !.bytes = Front(bare(wire(c, x)).bytes)] = bare(Front(wire(c, x)))
  BY <1>1
<1>4. v = bare(body(c, x))
  <2> HIDE DEF bare, x
  <2>1. CASE job.checksum
    <3>1. v = [bare(wire(c, x)) EXCEPT !.bytes = Front(bare(wire(c, x)).bytes)]
      BY <1>2, <2>1 DEF verifyMessageChecksums
    <3>2. Front(wire(c, x)) = body(c, x)
      BY <2>1, Unwire DEF wire
    <3> QED
      BY <1>3, <3>1, <3>2
  <2>2. CASE ~ job.checksum
    BY <1>2, <2>2 DEF verifyMessageChecksums, wire
  <2> QED
    BY <2>1, <2>2
<1>5. v.bytes = body(c, x) /\ Last(v.bytes) = x /\ Front(v.bytes) = <<c>>
  <2>1. v.bytes = body(c, x)
    BY <1>1, <1>4
  <2> HIDE DEF v, x
  <2> QED
    BY <2>1, Unwire
<1>6. [v EXCEPT !.bytes = Front(v.bytes)] = bare(<<c>>)
  <2> HIDE DEF bare, v, x
  <2> QED
    BY <1>1, <1>4, <1>5
<1>7. loadRoutingMetaData(bare(<<c>>), x) = MessageOf(c, p.tag, p.from, p.to, NO_VALUE, NO_VALUE, rs, rd)
  <2> DEFINE m == MessageOf(c, p.tag, p.from, p.to, NO_VALUE, NO_VALUE, NO_VALUE, NO_VALUE)
             m1 == MessageOf(c, p.tag, p.from, p.to, NO_VALUE, NO_VALUE, rs, NO_VALUE)
             m2 == MessageOf(c, p.tag, p.from, p.to, NO_VALUE, NO_VALUE, rs, rd)
  <2>1. bare(<<c>>) = m /\ [m EXCEPT !.routingSource = rs] = m1 /\ [m1 EXCEPT !.routingDestination = rd] = m2
    BY DEF MessageOf
  <2> HIDE DEF bare, x, m, m1, m2
  <2>2. [m EXCEPT !.routingSource = rs, !.routingDestination = rd] = [[m EXCEPT !.routingSource = rs] EXCEPT !.routingDestination = rd]
    OBVIOUS
  <2>3. loadRoutingMetaData(m, x) = m2
    BY <1>0, <2>1, <2>2 DEF loadRoutingMetaData
  <2> QED
    BY <2>1, <2>3 DEF m2
<1>8. loadActorMetaData(MessageOf(c, p.tag, p.from, p.to, NO_VALUE, NO_VALUE, rs, rd), x)
        = MessageOf(c, p.tag, p.from, p.to, sa, da, rs, rd)
  <2> DEFINE m == MessageOf(c, p.tag, p.from, p.to, NO_VALUE, NO_VALUE, rs, rd)
             m1 == MessageOf(c, p.tag, p.from, p.to, sa, NO_VALUE, rs, rd)
             m2 == MessageOf(c, p.tag, p.from, p.to, sa, da, rs, rd)
  <2>1. [m EXCEPT !.sourceActor = sa] = m1 /\ [m1 EXCEPT !.destinationActor = da] = m2
    BY DEF MessageOf
  <2> HIDE DEF bare, x, m, m1, m2
  <2>2. [m EXCEPT !.sourceActor = sa, !.destinationActor = da] = [[m EXCEPT !.sourceActor = sa] EXCEPT !.destinationActor = da]
    OBVIOUS
  <2>3. loadActorMetaData(m, x) = m2
    BY <1>0, <2>1, <2>2 DEF loadActorMetaData
  <2> QED
    BY <2>3 DEF m, m2
<1> HIDE DEF bare, x
<1>9. receive(p) = loadActorMetaData(loadRoutingMetaData([v EXCEPT !.bytes = Front(v.bytes)], x), x)
  BY <1>4, <1>5 DEF receive, loadMetaData, bare
<1> QED
  BY <1>6, <1>7, <1>8, <1>9

(***************************************************************************)
(* routeOutcomingMessages: what becomes of the messages of an outbox.      *)
(***************************************************************************)
\* The recursive function inside routeOutcomingMessages, and one step of it.
routeStep(r, outbox, k, P) ==
  UNION {{[sent |-> before.sent \union {o.message}, load |-> o.load] :
            o \in outgoing(r, before.load, outbox[k])} : before \in P}
IsRoute(f, r, load, outbox, n) ==
  f = [k \in 0 .. n |-> IF k = 0 THEN {[sent |-> {}, load |-> load]}
                        ELSE routeStep(r, outbox, k, f[k - 1])]

LEMMA RouteDef ==
  ASSUME NEW r, NEW load, NEW outbox
  PROVE  routeOutcomingMessages(r, load, outbox)
           = (CHOOSE f : IsRoute(f, r, load, outbox, Len(outbox)))[Len(outbox)]
BY DEF routeOutcomingMessages, IsRoute, routeStep

\* It exists: by induction on the part of the outbox it is defined for.
LEMMA RouteExists ==
  ASSUME NEW r, NEW load, NEW outbox, NEW n \in Nat
  PROVE  \E f : IsRoute(f, r, load, outbox, n)
<1> DEFINE start == {[sent |-> {}, load |-> load]}
           step(k, P) == routeStep(r, outbox, k, P)
           part(m, f) == f = [k \in 0 .. m |-> IF k = 0 THEN start ELSE step(k, f[k - 1])]
           has(m) == \E f : part(m, f)
           Bad == { m \in Nat : ~ has(m) }
<1> HIDE DEF start, step
<1>1. ASSUME Bad # {} PROVE FALSE
  <2> HIDE DEF has
  <2>1. PICK m \in Bad : \A x \in Bad : m <= x
    <3>1. Bad \subseteq Nat
      OBVIOUS
    <3> HIDE DEF Bad
    <3> QED
      BY <1>1, <3>1, LeastNumber
  <2>2. m \in Nat /\ ~ has(m)
    BY <2>1
  <2>3. CASE m = 0
    <3> DEFINE g == [k \in 0 .. 0 |-> start]
    <3>1. part(0, g)
      OBVIOUS
    <3> HIDE DEF g
    <3> QED
      BY <2>2, <2>3, <3>1 DEF has
  <2>4. CASE m # 0
    <3>1. m - 1 \in Nat /\ m - 1 \notin Bad
      BY <2>1, <2>2, <2>4
    <3>2. PICK f : part(m - 1, f)
      BY <3>1 DEF has
    <3> DEFINE g == [k \in 0 .. m |-> IF k = m THEN step(m, f[m - 1]) ELSE f[k]]
    <3>3. ASSUME NEW k \in 0 .. m
          PROVE  g[k] = IF k = 0 THEN start ELSE step(k, g[k - 1])
      <4>1. CASE k = m
        <5>1. k # 0 /\ k - 1 \in 0 .. m /\ k - 1 # m
          BY <2>2, <2>4, <4>1
        <5>2. g[k - 1] = f[m - 1]
          BY <4>1, <5>1
        <5> QED
          BY <4>1, <5>1, <5>2
      <4>2. CASE k # m
        <5>1. k \in 0 .. m - 1
          BY <2>2, <4>2
        <5>2. g[k] = f[k] /\ f[k] = IF k = 0 THEN start ELSE step(k, f[k - 1])
          BY <3>2, <4>2, <5>1
        <5>3. k # 0 => g[k - 1] = f[k - 1]
          BY <2>2, <5>1
        <5> QED
          BY <5>2, <5>3
      <4> QED
        BY <4>1, <4>2
    <3>4. part(m, g)
      <4>1. g = [k \in 0 .. m |-> g[k]]
        OBVIOUS
      <4> HIDE DEF g
      <4> QED
        BY <3>3, <4>1
    <3> HIDE DEF g
    <3> QED
      BY <2>2, <3>4 DEF has
  <2> QED
    BY <2>3, <2>4
<1>2. has(n)
  <2> HIDE DEF has
  <2> QED
    BY <1>1
<1>3. PICK f : part(n, f)
  BY <1>2
<1> QED
  BY <1>3 DEF IsRoute, start, step

\* y is what message m may become on rank r.
From(r, m, y) == \E ld : \E o \in outgoing(r, ld, m) : y = o.message

\* Routing keeps the bytes of the messages of an outbox, and they all differ.
KeepsBytes(r, outbox) ==
  \A j \in 1 .. Len(outbox) : \A y : From(r, outbox[j], y) => y.bytes = outbox[j].bytes
AllDiffer(outbox) ==
  \A j, k \in 1 .. Len(outbox) : outbox[j].bytes = outbox[k].bytes => j = k

\* After k messages: each one sent comes from one of them, and no two from one.
SentSoFar(r, outbox, k, x) ==
  /\ \A y \in x.sent : \E j \in 1 .. k : From(r, outbox[j], y)
  /\ \A y, z \in x.sent : y.bytes = z.bytes => y = z

LEMMA RouteStep ==
  ASSUME NEW r, NEW outbox, Len(outbox) \in Nat, KeepsBytes(r, outbox), AllDiffer(outbox),
         NEW k \in 1 .. Len(outbox), NEW P, \A x \in P : SentSoFar(r, outbox, k - 1, x),
         NEW x \in routeStep(r, outbox, k, P)
  PROVE  SentSoFar(r, outbox, k, x)
<1>1. PICK b \in P : \E o \in outgoing(r, b.load, outbox[k]) :
                       x = [sent |-> b.sent \union {o.message}, load |-> o.load]
  BY DEF routeStep
<1>2. PICK o \in outgoing(r, b.load, outbox[k]) : x = [sent |-> b.sent \union {o.message}, load |-> o.load]
  BY <1>1
<1>3. x.sent = b.sent \union {o.message}
  BY <1>2
<1>4. From(r, outbox[k], o.message)
  BY <1>2 DEF From
<1>5. SentSoFar(r, outbox, k - 1, b)
  OBVIOUS
<1>6. ASSUME NEW y \in b.sent PROVE y.bytes # o.message.bytes
  <2>1. PICK j \in 1 .. k - 1 : From(r, outbox[j], y)
    BY <1>5 DEF SentSoFar
  <2>2. j \in 1 .. Len(outbox) /\ j # k
    BY <2>1
  <2>3. y.bytes = outbox[j].bytes /\ o.message.bytes = outbox[k].bytes
    BY <1>4, <2>1, <2>2 DEF KeepsBytes
  <2> QED
    BY <2>2, <2>3 DEF AllDiffer
<1>7. ASSUME NEW y \in x.sent PROVE \E j \in 1 .. k : From(r, outbox[j], y)
  <2>1. CASE y = o.message
    BY <1>4, <2>1
  <2>2. CASE y # o.message
    <3>1. PICK j \in 1 .. k - 1 : From(r, outbox[j], y)
      BY <1>3, <1>5, <2>2 DEF SentSoFar
    <3>2. j \in 1 .. k
      BY <3>1
    <3> QED
      BY <3>1, <3>2
  <2> QED
    BY <2>1, <2>2
<1>8. ASSUME NEW y \in x.sent, NEW z \in x.sent, y.bytes = z.bytes PROVE y = z
  BY <1>3, <1>5, <1>6, <1>8 DEF SentSoFar
<1> QED
  BY <1>7, <1>8 DEF SentSoFar

LEMMA RoutedOutbox ==
  ASSUME NEW r, NEW load, NEW outbox, Len(outbox) \in Nat, KeepsBytes(r, outbox), AllDiffer(outbox),
         NEW x \in routeOutcomingMessages(r, load, outbox)
  PROVE  SentSoFar(r, outbox, Len(outbox), x)
<1> DEFINE n == Len(outbox)
<1>1. PICK f : IsRoute(f, r, load, outbox, n) /\ routeOutcomingMessages(r, load, outbox) = f[n]
  <2>1. \E f : IsRoute(f, r, load, outbox, n)
    BY RouteExists
  <2>2. IsRoute(CHOOSE f : IsRoute(f, r, load, outbox, n), r, load, outbox, n)
    BY <2>1, Zenon
  <2>3. routeOutcomingMessages(r, load, outbox) = (CHOOSE f : IsRoute(f, r, load, outbox, n))[n]
    BY RouteDef
  <2> QED
    BY <2>2, <2>3
<1>2. /\ f[0] = {[sent |-> {}, load |-> load]}
      /\ \A k \in 1 .. n : f[k] = routeStep(r, outbox, k, f[k - 1])
  <2> DEFINE start == {[sent |-> {}, load |-> load]}
             step(k, P) == routeStep(r, outbox, k, P)
  <2> HIDE DEF start, step, n
  <2>1. f = [k \in 0 .. n |-> IF k = 0 THEN start ELSE step(k, f[k - 1])]
    BY <1>1 DEF IsRoute, start, step
  <2>2. n \in Nat
    BY DEF n
  <2>3. f[0] = start
    BY <2>1, <2>2
  <2>4. ASSUME NEW k \in 1 .. n PROVE f[k] = step(k, f[k - 1])
    <3>1. k \in 0 .. n /\ k # 0
      BY <2>2
    <3> QED
      BY <2>1, <3>1
  <2> QED
    BY <2>3, <2>4 DEF start, step
<1> DEFINE good(k) == \A y \in f[k] : SentSoFar(r, outbox, k, y)
           Bad == { k \in 0 .. n : ~ good(k) }
<1>3. ASSUME Bad # {} PROVE FALSE
  <2> HIDE DEF good
  <2>1. PICK m \in Bad : \A y \in Bad : m <= y
    <3>1. Bad \subseteq Nat
      OBVIOUS
    <3> HIDE DEF Bad
    <3> QED
      BY <1>3, <3>1, LeastNumber
  <2>2. m \in 0 .. n /\ ~ good(m)
    BY <2>1
  <2>3. m # 0
    <3>1. good(0)
      BY <1>2 DEF good, SentSoFar
    <3> QED
      BY <2>2, <3>1
  <2>4. m \in 1 .. n /\ m - 1 \in 0 .. n /\ m - 1 \notin Bad
    BY <2>1, <2>2, <2>3
  <2>5. good(m - 1)
    BY <2>4
  <2>6. good(m)
    BY <1>2, <2>4, <2>5, RouteStep DEF good
  <2> QED
    BY <2>2, <2>6
<1>4. good(n)
  <2> HIDE DEF good
  <2> QED
    BY <1>3
<1> QED
  BY <1>1, <1>4

(***************************************************************************)
(* The links of every graph lead to ranks of the job.                      *)
(***************************************************************************)
Stays(g, n) == g.type # "complete" => \A a \in ranksOf(n) : g.out[a] \subseteq ranksOf(n)

LEMMA VerticesDomain ==
  ASSUME NEW n, NEW shape, NEW words
  PROVE  DOMAIN vertices(n, shape, words) = ranksOf(n)
BY DEF vertices

LEMMA WordGraphStays ==
  ASSUME NEW n, NEW type, NEW shape, NEW v, NEW out, \A a \in ranksOf(n) : out[a] \subseteq ranksOf(n)
  PROVE  Stays([unlinked(type, shape, v) EXCEPT !.out = out], n)
BY DEF Stays, unlinked

LEMMA GraphStays ==
  ASSUME NEW type, NEW n, NEW degree, NEW g \in graphs(type, n, degree)
  PROVE  Stays(g, n)
<1>1. Stays(complete(n), n)
  BY DEF Stays, complete
<1>2. Stays(group(n), n)
  BY DEF Stays, group
<1>3. \A h \in randomGraphs(n) : Stays(h, n)
  <2> SUFFICES ASSUME NEW edges PROVE Stays([type |-> "random", size |-> n,
        out |-> [a \in ranksOf(n) |-> {b \in ranksOf(n) \ {a} : {a, b} \in edges}]], n)
    BY DEF randomGraphs
  <2> QED
    BY DEF Stays
<1>4. Stays(polytope(n, degree), n)
  <2> DEFINE shape == Pt!configureGraph(n, degree)
             v == vertices(n, shape, wordsOf(shape))
             out == [a \in DOMAIN v |-> {b \in DOMAIN v : Pt!computeConnection(v[a], v[b])}]
  <2>1. \A a \in ranksOf(n) : out[a] \subseteq ranksOf(n)
    BY VerticesDomain
  <2>2. polytope(n, degree) = [unlinked("polytope", shape, v) EXCEPT !.out = out]
    BY DEF polytope
  <2> HIDE DEF shape, v, out
  <2> QED
    BY <2>1, <2>2, WordGraphStays
<1>5. Stays(torus(n, degree), n)
  <2> DEFINE shape == To!configureGraph(n, degree)
             v == vertices(n, shape, wordsOf(shape))
             out == [a \in DOMAIN v |-> {b \in DOMAIN v : To!computeConnection(v[a], v[b], shape.base)}]
  <2>1. \A a \in ranksOf(n) : out[a] \subseteq ranksOf(n)
    BY VerticesDomain
  <2>2. torus(n, degree) = [unlinked("torus", shape, v) EXCEPT !.out = out]
    BY DEF torus
  <2> HIDE DEF shape, v, out
  <2> QED
    BY <2>1, <2>2, WordGraphStays
<1>6. ASSUME NEW t, NEW shape, NEW words PROVE Stays(overlapGraph(t, n, shape, words), n)
  <2> DEFINE v == vertices(n, shape, words)
             out == [a \in DOMAIN v |-> {b \in DOMAIN v : Ov!computeConnection(v[a], v[b], shape.length)}]
  <2>1. \A a \in ranksOf(n) : out[a] \subseteq ranksOf(n)
    BY VerticesDomain
  <2>2. overlapGraph(t, n, shape, words) = [unlinked(t, shape, v) EXCEPT !.out = out]
    BY DEF overlapGraph
  <2> HIDE DEF v, out
  <2> QED
    BY <2>1, <2>2, WordGraphStays
<1>7. Stays(deBruijn(n, degree), n)
  BY <1>6 DEF deBruijn
<1>8. Stays(kautz(n), n)
  BY <1>6 DEF kautz
<1>9. Stays(experimental(n), n)
  BY <1>6 DEF experimental
<1> QED
  BY <1>1, <1>2, <1>3, <1>4, <1>5, <1>7, <1>8, <1>9 DEF graphs

LEMMA LinkStays ==
  ASSUME NEW type, NEW n, NEW degree, NEW g \in graphs(type, n, degree), g.type # "complete",
         NEW a \in ranksOf(n), NEW b, isConnected(g, a, b)
  PROVE  b \in ranksOf(n)
BY GraphStays DEF Stays, isConnected

(***************************************************************************)
(* A message on its way.                                                   *)
(***************************************************************************)
JobOK == job \in Scenarios /\ graph \in graphs(job.type, job.size, job.degree)

\* The tag of the application behind a tag on the network.
appTag(t) == IF isRoutingTag(t) THEN getMessageTagFromRoutingTag(t) ELSE t

\* What tells messages apart, in a packet and in a message.
key(p) == <<p.bytes[1], appTag(p.tag)>>
keyOf(m) == <<m.bytes[1], m.tag>>

\* The messages an application pushes.
IsPushed(s) ==
  \E src, dst \in AllRanks, tag \in {WorkTag, StopTag}, sa, da \in Int :
    /\ s = MessageOf([from |-> src, to |-> dst], tag, src, dst, sa, da, NO_VALUE, NO_VALUE)
    /\ \/ sa = NO_VALUE /\ da = NO_VALUE
       \/ sa = src + job.size /\ da = dst + job.size

\* Packet p carries message s: directly, or under a routing tag with the source
\* and the destination of s in its metadata.
Carries(p, s, sa, da, rs, rd) ==
  /\ p.bytes = wire(s.bytes[1], Meta(sa, da, rs, rd))
  /\ da \in Nat
  /\ IF s.destinationActor \in Nat THEN sa = s.sourceActor /\ da = s.destinationActor ELSE da < job.size
  /\ \/ p.tag = s.tag /\ p.from = s.source /\ p.to = s.destination
     \/ p.tag = s.tag + TagBase /\ rs = s.source /\ rd = s.destination
PacketOf(p, s) ==
  /\ p = [from |-> p.from, to |-> p.to, tag |-> p.tag, bytes |-> p.bytes, age |-> p.age]
  /\ \E sa, da, rs, rd \in Int : Carries(p, s, sa, da, rs, rd)

\* m is what a handler should see of s.
ArrivedAs(m, s) ==
  /\ m.source = s.source /\ m.destination = s.destination
  /\ m.tag = s.tag /\ m.bytes = s.bytes
  /\ isActorModelMessage(m) = isActorModelMessage(s)
  /\ isActorModelMessage(s) => /\ m.sourceActor = s.sourceActor
                               /\ m.destinationActor = s.destinationActor

LEMMA Tags ==
  /\ WorkTag \in Nat /\ StopTag \in Nat /\ TagBase \in Nat /\ WorkTag # StopTag
  /\ WorkTag < TagBase /\ StopTag < TagBase
BY MessageRouterAssumption

LEMMA JobSize ==
  ASSUME JobOK
  PROVE  /\ job.size \in Nat \ {0} /\ AllRanks = 0 .. job.size - 1 /\ MASTER_RANK \in AllRanks
BY ScenarioAssumption DEF JobOK, AllRanks, ranksOf, MASTER_RANK

LEMMA WorkForm ==
  ASSUME JobOK, NEW s \in job.sends
  PROVE  /\ IsPushed(workMessage(s.from, s.to, s.actor))
         /\ keyOf(workMessage(s.from, s.to, s.actor)) = <<[from |-> s.from, to |-> s.to], WorkTag>>
<1>1. s.from \in AllRanks /\ s.to \in AllRanks /\ s.actor \in BOOLEAN
  BY ScenarioAssumption DEF JobOK, AllRanks
<1>2. s.from \in Int /\ s.to \in Int /\ job.size \in Int
  BY <1>1, JobSize
<1> DEFINE sa == IF s.actor THEN s.from + job.size ELSE NO_VALUE
           da == IF s.actor THEN s.to + job.size ELSE NO_VALUE
<1>3. /\ sa \in Int /\ da \in Int
      /\ \/ sa = NO_VALUE /\ da = NO_VALUE
         \/ sa = s.from + job.size /\ da = s.to + job.size
  BY <1>2 DEF NO_VALUE
<1>4. workMessage(s.from, s.to, s.actor) = MessageOf([from |-> s.from, to |-> s.to], WorkTag, s.from, s.to, sa, da, NO_VALUE, NO_VALUE)
  BY DEF workMessage, MessageOf
<1> HIDE DEF sa, da
<1>5. IsPushed(workMessage(s.from, s.to, s.actor))
  BY <1>1, <1>3, <1>4 DEF IsPushed
<1> DEFINE c == [from |-> s.from, to |-> s.to]
<1> HIDE DEF c
<1>6. workMessage(s.from, s.to, s.actor) = MessageOf(c, WorkTag, s.from, s.to, sa, da, NO_VALUE, NO_VALUE)
  BY <1>4 DEF c
<1>7. keyOf(workMessage(s.from, s.to, s.actor)) = <<c, WorkTag>>
  BY <1>6, Fields DEF keyOf
<1> QED
  BY <1>5, <1>7 DEF c

LEMMA StopForm ==
  ASSUME JobOK, NEW r \in AllRanks
  PROVE  /\ IsPushed(stopMessage(r)) /\ stopMessage(r).source = MASTER_RANK
         /\ stopMessage(r).bytes = <<[from |-> MASTER_RANK, to |-> r]>> /\ stopMessage(r).tag = StopTag
<1> DEFINE m(tag) == MessageOf([from |-> MASTER_RANK, to |-> r], tag, MASTER_RANK, r, NO_VALUE, NO_VALUE, NO_VALUE, NO_VALUE)
<1>1. workMessage(MASTER_RANK, r, FALSE) = m(WorkTag)
  BY DEF workMessage, MessageOf
<1>2. [m(WorkTag) EXCEPT !.tag = StopTag] = m(StopTag)
  BY DEF MessageOf
<1>3. stopMessage(r) = m(StopTag)
  BY <1>1, <1>2 DEF stopMessage
<1>4. NO_VALUE \in Int /\ MASTER_RANK \in AllRanks
  BY JobSize DEF NO_VALUE
<1> QED
  BY <1>3, <1>4, Fields DEF IsPushed

LEMMA SentIsPushed ==
  ASSUME JobOK, NEW s \in sentMessages
  PROVE  IsPushed(s)
BY WorkForm, StopForm DEF sentMessages

\* What routeOutcomingMessages makes of a message that is new on the network...
LEMMA NewMessage ==
  ASSUME NEW c, NEW tag \in Nat, tag < TagBase, NEW src, NEW dst, NEW sa, NEW da, NEW r, NEW y,
         From(r, MessageOf(c, tag, src, dst, sa, da, NO_VALUE, NO_VALUE), y)
  PROVE  \/ y = MessageOf(c, tag, src, dst, sa, da, NO_VALUE, NO_VALUE)
         \/ /\ graph.type # "complete"
            /\ \E n : y = MessageOf(c, tag + TagBase, src, n, sa, da, src, dst)
<1> DEFINE m == MessageOf(c, tag, src, dst, sa, da, NO_VALUE, NO_VALUE)
<1>1. PICK ld : \E o \in outgoing(r, ld, m) : y = o.message
  BY DEF From
<1>2. PICK o \in outgoing(r, ld, m) : y = o.message
  BY <1>1
<1>3. m.source = src /\ m.destination = dst /\ m.tag = tag
  BY Fields
<1>4. ~ isRoutingTag(m.tag)
  BY <1>3, Tags DEF isRoutingTag
<1>5. CASE isConnected(graph, src, dst)
  <2>1. outgoing(r, ld, m) = {[message |-> m, load |-> ld]}
    BY <1>3, <1>5 DEF outgoing
  <2>2. o = [message |-> m, load |-> ld]
    BY <1>2, <2>1
  <2> HIDE DEF m
  <2>3. y = m
    BY <1>2, <2>2
  <2> QED
    BY <2>3 DEF m
<1>6. CASE ~ isConnected(graph, src, dst)
  <2> DEFINE routed(n) == [m EXCEPT !.tag = getRoutingTag(@), !.routingSource = m.source,
                                    !.routingDestination = m.destination, !.destination = n]
  <2>1. graph.type # "complete"
    BY <1>6 DEF isConnected
  <2>2. outgoing(r, ld, m) = {[message |-> routed(next.rank), load |-> next.load] : next \in nextRanks(graph, ld, r, dst)}
    BY <1>3, <1>4, <1>6 DEF outgoing
  <2>3. \E n : y = routed(n)
    <3> HIDE DEF routed, m
    <3>1. PICK next \in nextRanks(graph, ld, r, dst) : o = [message |-> routed(next.rank), load |-> next.load]
      BY <1>2, <2>2
    <3>2. y = routed(next.rank)
      BY <1>2, <3>1
    <3> QED
      BY <3>2
  <2>4. ASSUME NEW n PROVE routed(n) = MessageOf(c, tag + TagBase, src, n, sa, da, src, dst)
    <3> DEFINE m1 == MessageOf(c, tag + TagBase, src, dst, sa, da, NO_VALUE, NO_VALUE)
               m2 == MessageOf(c, tag + TagBase, src, dst, sa, da, src, NO_VALUE)
               m3 == MessageOf(c, tag + TagBase, src, dst, sa, da, src, dst)
               m4 == MessageOf(c, tag + TagBase, src, n, sa, da, src, dst)
    <3>1. /\ [m EXCEPT !.tag = tag + TagBase] = m1 /\ [m1 EXCEPT !.routingSource = src] = m2
          /\ [m2 EXCEPT !.routingDestination = dst] = m3 /\ [m3 EXCEPT !.destination = n] = m4
      BY DEF MessageOf
    <3> HIDE DEF m, m1, m2, m3, m4
    <3>2. routed(n) = [[[[m EXCEPT !.tag = getRoutingTag(m.tag)] EXCEPT !.routingSource = m.source]
                          EXCEPT !.routingDestination = m.destination] EXCEPT !.destination = n]
      OBVIOUS
    <3>3. getRoutingTag(m.tag) = tag + TagBase
      BY <1>3 DEF getRoutingTag
    <3> QED
      BY <1>3, <3>1, <3>2, <3>3 DEF m4
  <2> QED
    BY <2>1, <2>3, <2>4
<1> QED
  BY <1>5, <1>6

\* ... and of one that is being relayed.
LEMMA RelayedMessage ==
  ASSUME NEW r, NEW m, NEW y, isRoutingTag(m.tag), From(r, m, y)
  PROVE  y = m
<1>1. PICK ld : \E o \in outgoing(r, ld, m) : y = o.message
  BY DEF From
<1>2. outgoing(r, ld, m) = {[message |-> m, load |-> ld]}
  BY DEF outgoing
<1> QED
  BY <1>1, <1>2

\* The keys of a packet and of what it carries are the same.
LEMMA KeyOfPacket ==
  ASSUME JobOK, NEW s, IsPushed(s), NEW p, PacketOf(p, s)
  PROVE  key(p) = keyOf(s) /\ s.tag \in Nat /\ s.tag < TagBase
<1>1. PICK x : p.bytes = wire(s.bytes[1], x) /\ p.tag \in {s.tag, s.tag + TagBase}
  BY DEF PacketOf, Carries
<1>2. s.tag \in Nat /\ s.tag < TagBase /\ TagBase \in Nat
  BY Fields, Tags DEF IsPushed
<1>3. appTag(p.tag) = s.tag
  BY <1>1, <1>2 DEF appTag, isRoutingTag, getMessageTagFromRoutingTag
<1>4. p.bytes[1] = s.bytes[1]
  <2> DEFINE c == s.bytes[1]
  <2> HIDE DEF c
  <2>1. wire(c, x)[1] = c
    BY Unwire
  <2>2. p.bytes = wire(c, x)
    BY <1>1 DEF c
  <2>3. p.bytes[1] = c
    BY <2>1, <2>2
  <2> QED
    BY <2>3 DEF c
<1> QED
  BY <1>2, <1>3, <1>4 DEF key, keyOf

\* The first hop: PushWork and SendStops, when it leads to a rank of the job.
LEMMA FirstHop ==
  ASSUME JobOK, NEW s, IsPushed(s), NEW y, From(s.source, s, y),
         isConnected(graph, packet(s.source, y).from, packet(s.source, y).to)
  PROVE  PacketOf(packet(s.source, y), s) /\ y.bytes = s.bytes
<1>1. PICK src \in AllRanks, dst \in AllRanks, tag \in {WorkTag, StopTag}, sa \in Int, da \in Int :
        /\ s = MessageOf([from |-> src, to |-> dst], tag, src, dst, sa, da, NO_VALUE, NO_VALUE)
        /\ \/ sa = NO_VALUE /\ da = NO_VALUE
           \/ sa = src + job.size /\ da = dst + job.size
  BY DEF IsPushed
<1> DEFINE c == [from |-> src, to |-> dst]
<1> HIDE DEF c
<1>2. /\ s = MessageOf(c, tag, src, dst, sa, da, NO_VALUE, NO_VALUE)
      /\ s.source = src /\ s.destination = dst /\ s.tag = tag /\ s.sourceActor = sa
      /\ s.destinationActor = da /\ s.bytes = <<c>> /\ s.bytes[1] = c
  BY <1>1, Fields DEF c
<1>3. /\ tag \in Nat /\ tag < TagBase /\ TagBase \in Nat /\ job.size \in Nat \ {0}
      /\ src \in Nat /\ dst \in Nat /\ src < job.size /\ dst < job.size /\ NO_VALUE = -1
  BY Tags, JobSize DEF NO_VALUE
<1>4. ASSUME NEW t, NEW d \in Nat, d < job.size, NEW rs \in Int, NEW rd \in Int,
             y = MessageOf(c, t, src, d, sa, da, rs, rd),
             \/ t = tag /\ d = dst
             \/ t = tag + TagBase /\ rs = src /\ rd = dst
      PROVE  PacketOf(packet(s.source, y), s) /\ y.bytes = s.bytes
  <2> DEFINE p == packet(src, y)
             x == IF sa < 0 /\ da < 0 THEN Meta(src, d, rs, rd) ELSE Meta(sa, da, rs, rd)
             fa == IF sa < 0 /\ da < 0 THEN src ELSE sa
             ta == IF sa < 0 /\ da < 0 THEN d ELSE da
  <2>1. p = [from |-> src, to |-> d, tag |-> t, age |-> 0, bytes |-> wire(c, x)]
    BY <1>4, Sent
  <2>2. x = Meta(fa, ta, rs, rd)
    OBVIOUS
  <2>3. /\ fa \in Int /\ ta \in Nat
        /\ IF da \in Nat THEN fa = sa /\ ta = da ELSE ta < job.size
    BY <1>1, <1>3, <1>4
  <2> HIDE DEF x, fa, ta
  <2>4. /\ p.bytes = wire(c, x) /\ p.from = src /\ p.to = d /\ p.tag = t
        /\ p = [from |-> p.from, to |-> p.to, tag |-> p.tag, bytes |-> p.bytes, age |-> p.age]
    BY <2>1
  <2> HIDE DEF p
  <2>5. Carries(p, s, fa, ta, rs, rd)
    BY <1>2, <1>4, <2>2, <2>3, <2>4 DEF Carries
  <2>6. PacketOf(p, s)
    BY <1>4, <2>3, <2>4, <2>5 DEF PacketOf
  <2>7. y.bytes = <<c>>
    BY <1>4, Fields
  <2> QED
    BY <1>2, <2>6, <2>7 DEF p
<1>5. CASE y = MessageOf(c, tag, src, dst, sa, da, NO_VALUE, NO_VALUE)
  BY <1>3, <1>4, <1>5
<1>6. ASSUME graph.type # "complete", NEW n, y = MessageOf(c, tag + TagBase, src, n, sa, da, src, dst)
      PROVE  PacketOf(packet(s.source, y), s) /\ y.bytes = s.bytes
  <2>1. packet(src, y).from = src /\ packet(src, y).to = n
    BY <1>6, Fields DEF packet
  <2>2. n \in ranksOf(job.size)
    BY <1>2, <1>6, <2>1, LinkStays DEF JobOK, AllRanks
  <2>3. n \in Nat /\ n < job.size
    BY <1>3, <2>2 DEF ranksOf
  <2> QED
    BY <1>3, <1>4, <1>6, <2>3
<1> QED
  BY <1>2, <1>3, <1>5, <1>6, NewMessage

\* What a rank receives of a packet.
LEMMA ReceivedOf ==
  ASSUME NEW s, NEW p, PacketOf(p, s)
  PROVE  \E sa, da, rs, rd \in Int :
           /\ Carries(p, s, sa, da, rs, rd)
           /\ receive(p) = MessageOf(s.bytes[1], p.tag, p.from, p.to, sa, da, rs, rd)
<1>1. PICK sa \in Int, da \in Int, rs \in Int, rd \in Int : Carries(p, s, sa, da, rs, rd)
  BY DEF PacketOf
<1>2. p.bytes = wire(s.bytes[1], Meta(sa, da, rs, rd))
  BY <1>1 DEF Carries
<1>3. receive(p) = MessageOf(s.bytes[1], p.tag, p.from, p.to, sa, da, rs, rd)
  BY <1>2, Received
<1> QED
  BY <1>1, <1>3

\* A further hop: Relay.
LEMMA FurtherHop ==
  ASSUME JobOK, NEW s, IsPushed(s), NEW p, PacketOf(p, s), NEW r, mustRelay(r, receive(p)),
         NEW n, NEW y, From(r, [receive(p) EXCEPT !.source = r, !.destination = n], y)
  PROVE  PacketOf(packet(r, y), s) /\ y.bytes = <<s.bytes[1]>>
<1>1. PICK sa \in Int, da \in Int, rs \in Int, rd \in Int :
           /\ Carries(p, s, sa, da, rs, rd)
           /\ receive(p) = MessageOf(s.bytes[1], p.tag, p.from, p.to, sa, da, rs, rd)
  BY ReceivedOf
<1> DEFINE c == s.bytes[1]
           m == MessageOf(c, p.tag, p.from, p.to, sa, da, rs, rd)
           m1 == MessageOf(c, p.tag, r, p.to, sa, da, rs, rd)
           m2 == MessageOf(c, p.tag, r, n, sa, da, rs, rd)
<1>2. m.tag = p.tag /\ m2.tag = p.tag /\ m2.bytes = <<c>>
  BY Fields
<1>3. [m EXCEPT !.source = r, !.destination = n] = m2
  <2>1. [m EXCEPT !.source = r] = m1 /\ [m1 EXCEPT !.destination = n] = m2
    BY DEF MessageOf
  <2> HIDE DEF m, m1, m2
  <2>2. [m EXCEPT !.source = r, !.destination = n] = [[m EXCEPT !.source = r] EXCEPT !.destination = n]
    OBVIOUS
  <2> QED
    BY <2>1, <2>2
<1>4. isRoutingTag(p.tag)
  BY <1>1, <1>2 DEF mustRelay
<1>5. y = m2
  <2> HIDE DEF m, m2
  <2>1. From(r, m2, y)
    BY <1>1, <1>3 DEF m
  <2> QED
    BY <1>2, <1>4, <2>1, RelayedMessage
<1>6. da \in Nat /\ ~ (sa < 0 /\ da < 0)
  BY <1>1 DEF Carries
<1> DEFINE q == packet(r, y)
<1>7. q = [from |-> r, to |-> n, tag |-> p.tag, age |-> 0, bytes |-> wire(c, Meta(sa, da, rs, rd))]
  <2> HIDE DEF c
  <2> QED
    BY <1>5, <1>6, Sent
<1>8. /\ q.bytes = wire(c, Meta(sa, da, rs, rd)) /\ q.tag = p.tag
      /\ q = [from |-> q.from, to |-> q.to, tag |-> q.tag, bytes |-> q.bytes, age |-> q.age]
  <2> HIDE DEF c
  <2> QED
    BY <1>7
<1> HIDE DEF q
<1>9. q.tag = s.tag + TagBase /\ rs = s.source /\ rd = s.destination
  <2>1. s.tag \in Nat /\ s.tag < TagBase /\ TagBase \in Nat
    BY KeyOfPacket, Tags
  <2> QED
    BY <1>1, <1>4, <1>8, <2>1 DEF Carries, isRoutingTag
<1>10. Carries(q, s, sa, da, rs, rd)
  BY <1>1, <1>8, <1>9 DEF Carries
<1> QED
  BY <1>1, <1>2, <1>5, <1>8, <1>10 DEF PacketOf, q

\* The end of the way: Deliver.
LEMMA LastHop ==
  ASSUME JobOK, NEW s, IsPushed(s), NEW p, PacketOf(p, s), ~ mustRelay(p.to, receive(p))
  PROVE  ArrivedAs(restored(receive(p)), s) /\ keyOf(restored(receive(p))) = keyOf(s)
<1>1. PICK sa \in Int, da \in Int, rs \in Int, rd \in Int :
           /\ Carries(p, s, sa, da, rs, rd)
           /\ receive(p) = MessageOf(s.bytes[1], p.tag, p.from, p.to, sa, da, rs, rd)
  BY ReceivedOf
<1>2. PICK src \in AllRanks, dst \in AllRanks, tag \in {WorkTag, StopTag}, fa \in Int, ta \in Int :
        /\ s = MessageOf([from |-> src, to |-> dst], tag, src, dst, fa, ta, NO_VALUE, NO_VALUE)
        /\ \/ fa = NO_VALUE /\ ta = NO_VALUE
           \/ fa = src + job.size /\ ta = dst + job.size
  BY DEF IsPushed
<1> DEFINE c == [from |-> src, to |-> dst]
<1> HIDE DEF c
<1>3. /\ s.source = src /\ s.destination = dst /\ s.tag = tag /\ s.sourceActor = fa
      /\ s.destinationActor = ta /\ s.bytes = <<c>> /\ s.bytes[1] = c
  BY <1>2, Fields DEF c
<1>4. /\ tag \in Nat /\ tag < TagBase /\ TagBase \in Nat /\ job.size \in Nat \ {0}
      /\ src \in Nat /\ dst \in Nat /\ src < job.size /\ dst < job.size /\ NO_VALUE = -1
  BY Tags, JobSize DEF NO_VALUE
<1> DEFINE m == restored(receive(p))
<1>5. m = MessageOf(c, tag, src, dst, sa, da, rs, rd)
  <2>0. receive(p) = MessageOf(c, p.tag, p.from, p.to, sa, da, rs, rd)
    BY <1>1, <1>3
  <2>1. CASE p.tag = tag /\ p.from = src /\ p.to = dst
    <3>1. ~ isRoutingTag(receive(p).tag)
      BY <1>4, <2>0, <2>1, Fields DEF isRoutingTag
    <3> QED
      BY <2>0, <2>1, <3>1 DEF restored
  <2>2. CASE p.tag = tag + TagBase /\ rs = src /\ rd = dst
    <3> DEFINE a == MessageOf(c, p.tag, p.from, p.to, sa, da, rs, rd)
               a1 == MessageOf(c, p.tag, rs, p.to, sa, da, rs, rd)
               a2 == MessageOf(c, tag, rs, p.to, sa, da, rs, rd)
    <3>1. a.tag = p.tag /\ a.routingSource = rs /\ a.routingDestination = rd
      BY Fields
    <3>2. isRoutingTag(p.tag) /\ getMessageTagFromRoutingTag(p.tag) = tag
      BY <1>4, <2>2 DEF isRoutingTag, getMessageTagFromRoutingTag
    <3>3. p.to = dst
      BY <2>0, <2>2, <3>1, <3>2 DEF mustRelay
    <3>4. [a EXCEPT !.source = rs] = a1 /\ [a1 EXCEPT !.tag = tag] = a2 /\ a1.tag = p.tag
      BY DEF MessageOf
    <3> HIDE DEF a, a1, a2
    <3>5. [a EXCEPT !.source = a.routingSource, !.tag = getMessageTagFromRoutingTag(@)]
            = [[a EXCEPT !.source = a.routingSource] EXCEPT !.tag = getMessageTagFromRoutingTag(@)]
      OBVIOUS
    <3>6. restored(a) = a2
      BY <3>1, <3>2, <3>4, <3>5 DEF restored
    <3> QED
      BY <2>0, <2>2, <3>3, <3>6 DEF a, a2
  <2> QED
    BY <1>1, <1>3, <2>1, <2>2 DEF Carries
<1>6. /\ m.source = src /\ m.destination = dst /\ m.tag = tag /\ m.bytes = <<c>>
      /\ m.sourceActor = sa /\ m.destinationActor = da
  BY <1>5, Fields
<1>7. da \in Nat /\ IF ta \in Nat THEN sa = fa /\ da = ta ELSE da < job.size
  BY <1>1, <1>3 DEF Carries
<1> HIDE DEF m
<1>8. isActorModelMessage(m) <=> isActorModelMessage(s)
  BY <1>2, <1>3, <1>4, <1>6, <1>7 DEF isActorModelMessage
<1>9. isActorModelMessage(m) = isActorModelMessage(s)
  <2>1. isActorModelMessage(m) \in BOOLEAN /\ isActorModelMessage(s) \in BOOLEAN
    BY <1>3, <1>4, <1>6, <1>7 DEF isActorModelMessage
  <2> QED
    BY <1>8, <2>1
<1>10. isActorModelMessage(s) => m.sourceActor = s.sourceActor /\ m.destinationActor = s.destinationActor
  BY <1>2, <1>3, <1>4, <1>6, <1>7 DEF isActorModelMessage
<1>11. keyOf(m) = keyOf(s)
  BY <1>3, <1>6 DEF keyOf
<1> QED
  BY <1>3, <1>6, <1>9, <1>10, <1>11 DEF ArrivedAs, m

(***************************************************************************)
(* The invariant: every packet carries a message of the job, every arrived *)
(* message is one, and no message is in two places at once.  Its parts are *)
(* stated for a set T of messages to send, a set N of packets and a set A  *)
(* of arrived messages.                                                    *)
(***************************************************************************)
TodoPart(T) == T \subseteq {workMessage(s.from, s.to, s.actor) : s \in job.sends}
NetworkPart(N) == \A p \in N : \E s \in sentMessages : PacketOf(p, s)
ArrivedPart(A) == \A m \in A : \E s \in sentMessages : ArrivedAs(m, s)
OncePart(T, N, A) ==
  /\ \A p, q \in N : key(p) = key(q) => p = q
  /\ \A p \in N, m \in A : key(p) # keyOf(m)
  /\ \A t \in T : /\ \A p \in N : key(p) # keyOf(t)
                  /\ \A m \in A : keyOf(m) # keyOf(t)
RouterState(T, N, A) == TodoPart(T) /\ NetworkPart(N) /\ ArrivedPart(A) /\ OncePart(T, N, A)

RouterInv == JobOK /\ RouterState(todo, network, arrived)

\* The job does not change, and with it what the parts say.
LEMMA SameJob ==
  ASSUME JobOK, job' = job, graph' = graph, RouterState(todo', network', arrived')
  PROVE  RouterInv'
<1>1. JobOK'
  BY DEF JobOK
<1>2. sentMessages' = sentMessages
  BY DEF sentMessages, workMessage, stopMessage, AllRanks
<1>3. ASSUME NEW p, NEW s PROVE PacketOf(p, s)' <=> PacketOf(p, s)
  BY DEF PacketOf, Carries, wire
<1>4. ASSUME NEW m, NEW s PROVE ArrivedAs(m, s)' <=> ArrivedAs(m, s)
  BY DEF ArrivedAs, isActorModelMessage
<1>5. TodoPart(todo)'
  BY DEF RouterState, TodoPart, workMessage
<1>6. NetworkPart(network)'
  BY <1>2, <1>3 DEF RouterState, NetworkPart
<1>7. ArrivedPart(arrived)'
  BY <1>2, <1>4 DEF RouterState, ArrivedPart
<1>8. OncePart(todo, network, arrived)'
  BY DEF RouterState, OncePart, key, keyOf, appTag, isRoutingTag, getMessageTagFromRoutingTag
<1> QED
  BY <1>1, <1>5, <1>6, <1>7, <1>8 DEF RouterInv, RouterState

\* Packets are added to the network: each carries a message of the job, and no
\* two of them, nor one of them and anything else, are the same message.
NewPackets(New, T, N, A) ==
  /\ \A p \in New : \E s \in sentMessages : PacketOf(p, s)
  /\ \A p, q \in New : key(p) = key(q) => p = q
  /\ \A p \in New, q \in N : key(p) # key(q)
  /\ \A p \in New, m \in A : key(p) # keyOf(m)
  /\ \A p \in New, t \in T : key(p) # keyOf(t)

LEMMA AddPackets ==
  ASSUME NEW T, NEW N, NEW A, RouterState(T, N, A), NEW U, U \subseteq T, NEW others, others \subseteq N,
         NEW New, NewPackets(New, U, others, A)
  PROVE  RouterState(U, others \union New, A)
<1> USE DEF RouterState
<1>1. TodoPart(U)
  BY DEF TodoPart
<1>2. NetworkPart(others \union New)
  BY DEF NetworkPart, NewPackets
<1>3. OncePart(U, others \union New, A)
  <2>1. ASSUME NEW p \in others \union New, NEW q \in others \union New, key(p) = key(q) PROVE p = q
    BY <2>1 DEF OncePart, NewPackets
  <2>2. ASSUME NEW p \in others \union New, NEW m \in A PROVE key(p) # keyOf(m)
    BY <2>2 DEF OncePart, NewPackets
  <2>3. ASSUME NEW t \in U PROVE /\ \A p \in others \union New : key(p) # keyOf(t)
                                 /\ \A m \in A : keyOf(m) # keyOf(t)
    BY <2>3 DEF OncePart, NewPackets
  <2> QED
    BY <2>1, <2>2, <2>3 DEF OncePart
<1> QED
  BY <1>1, <1>2, <1>3

\* The bytes of a new message do not change when it is routed.
LEMMA PushedKeepsBytes ==
  ASSUME JobOK, NEW s, IsPushed(s), NEW r, NEW y, From(r, s, y)
  PROVE  y.bytes = s.bytes
<1>1. PICK src \in AllRanks, dst \in AllRanks, tag \in {WorkTag, StopTag}, sa \in Int, da \in Int :
        s = MessageOf([from |-> src, to |-> dst], tag, src, dst, sa, da, NO_VALUE, NO_VALUE)
  BY DEF IsPushed
<1> DEFINE c == [from |-> src, to |-> dst]
<1> HIDE DEF c
<1>2. s = MessageOf(c, tag, src, dst, sa, da, NO_VALUE, NO_VALUE)
  BY <1>1 DEF c
<1>3. tag \in Nat /\ tag < TagBase
  BY Tags
<1>4. \/ y = s
      \/ \E n : y = MessageOf(c, tag + TagBase, src, n, sa, da, src, dst)
  BY <1>2, <1>3, NewMessage
<1> QED
  BY <1>2, <1>4, Fields

LEMMA InitHolds == RouterInit => RouterInv
BY DEF RouterInit, RouterInv, JobOK, RouterState, TodoPart, NetworkPart, ArrivedPart, OncePart

LEMMA SentWork ==
  ASSUME NEW m, m \in {workMessage(s.from, s.to, s.actor) : s \in job.sends}
  PROVE  m \in sentMessages
BY DEF sentMessages

LEMMA PushWorkKeeps ==
  ASSUME RouterInv, EveryHopIsALink', NEW r \in AllRanks, NEW m \in todo, PushWork(r, m)
  PROVE  RouterInv'
<1>1. JobOK /\ job' = job /\ graph' = graph /\ arrived' = arrived /\ todo' = todo \ {m} /\ m.source = r
  BY DEF RouterInv, PushWork
<1>2. PICK x \in routeOutcomingMessages(r, loads[r], <<m>>) : network' = network \union {packet(r, y) : y \in x.sent}
  BY DEF PushWork, sendMessages
<1>3. PICK w \in job.sends : m = workMessage(w.from, w.to, w.actor)
  BY DEF RouterInv, RouterState, TodoPart
<1>4. IsPushed(m) /\ keyOf(m) = <<[from |-> w.from, to |-> w.to], WorkTag>> /\ m \in sentMessages
  BY <1>1, <1>3, WorkForm, SentWork
<1> DEFINE outbox == <<m>>
<1>5. Len(outbox) = 1 /\ outbox[1] = m
  OBVIOUS
<1>6. \A y \in x.sent : From(r, m, y) /\ y.bytes = m.bytes
  <2> HIDE DEF outbox
  <2>1. KeepsBytes(r, outbox) /\ AllDiffer(outbox)
    BY <1>1, <1>4, <1>5, PushedKeepsBytes DEF KeepsBytes, AllDiffer
  <2>2. SentSoFar(r, outbox, Len(outbox), x)
    BY <1>2, <1>5, <2>1, RoutedOutbox DEF outbox
  <2>3. \A y \in x.sent : From(r, m, y)
    BY <1>5, <2>2 DEF SentSoFar
  <2> QED
    BY <1>1, <1>4, <2>3, PushedKeepsBytes
<1>7. \A y, z \in x.sent : y = z
  <2> HIDE DEF outbox
  <2>1. KeepsBytes(r, outbox) /\ AllDiffer(outbox)
    BY <1>1, <1>4, <1>5, PushedKeepsBytes DEF KeepsBytes, AllDiffer
  <2>2. SentSoFar(r, outbox, Len(outbox), x)
    BY <1>2, <1>5, <2>1, RoutedOutbox DEF outbox
  <2> QED
    BY <1>6, <2>2 DEF SentSoFar
<1> DEFINE New == {packet(r, y) : y \in x.sent}
<1>8. ASSUME NEW p \in New PROVE PacketOf(p, m) /\ key(p) = keyOf(m)
  <2>1. PICK y \in x.sent : p = packet(r, y)
    OBVIOUS
  <2>2. isConnected(graph, p.from, p.to)
    <3>1. p \in network'
      BY <1>2
    <3> QED
      BY <1>1, <3>1 DEF EveryHopIsALink
  <2>3. PacketOf(p, m)
    BY <1>1, <1>4, <1>6, <2>1, <2>2, FirstHop
  <2> QED
    BY <1>1, <1>4, <2>3, KeyOfPacket
<1>9. ASSUME NEW t \in todo', keyOf(t) = keyOf(m) PROVE FALSE
  <2>1. PICK v \in job.sends : t = workMessage(v.from, v.to, v.actor)
    BY <1>1 DEF RouterInv, RouterState, TodoPart
  <2>2. keyOf(t) = <<[from |-> v.from, to |-> v.to], WorkTag>>
    BY <1>1, <2>1, WorkForm
  <2>3. [from |-> v.from, to |-> v.to] = [from |-> w.from, to |-> w.to]
    BY <1>4, <1>9, <2>2
  <2>4. v.from = w.from /\ v.to = w.to
    BY <2>3
  <2>5. v = w
    BY <1>1, <2>4, ScenarioAssumption DEF JobOK
  <2> QED
    BY <1>1, <1>3, <2>1, <2>5
<1>10. \A p, q \in New : p = q
  BY <1>7
<1> HIDE DEF New
<1>11. \A q \in network : key(q) # keyOf(m)
  BY DEF RouterInv, RouterState, OncePart
<1>12. \A a \in arrived : keyOf(a) # keyOf(m)
  BY DEF RouterInv, RouterState, OncePart
<1>13. NewPackets(New, todo', network, arrived)
  BY <1>4, <1>8, <1>9, <1>10, <1>11, <1>12 DEF NewPackets
<1>14. RouterState(todo', network', arrived')
  <2>1. RouterState(todo, network, arrived) /\ todo' \subseteq todo /\ network' = network \union New
    BY <1>1, <1>2 DEF RouterInv, New
  <2>2. RouterState(todo', network \union New, arrived)
    BY <1>13, <2>1, AddPackets
  <2> QED
    BY <1>1, <2>1, <2>2
<1> QED
  BY <1>1, <1>14, SameJob

LEMMA SendStopsKeeps ==
  ASSUME RouterInv, EveryHopIsALink', SendStops
  PROVE  RouterInv'
<1> DEFINE r == MASTER_RANK
           outbox == [i \in 1 .. job.size |-> stopMessage(i - 1)]
<1>1. /\ JobOK /\ job' = job /\ graph' = graph /\ arrived' = arrived /\ todo' = todo /\ job.stops
      /\ todo = {} /\ \A a \in arrived : a.tag # StopTag
  BY DEF RouterInv, SendStops
<1>2. PICK x \in routeOutcomingMessages(r, loads[r], outbox) : network' = {} \union {packet(r, y) : y \in x.sent}
  BY DEF SendStops, sendMessages
<1>3. job.size \in Nat \ {0} /\ AllRanks = 0 .. job.size - 1
  BY <1>1, JobSize
<1>4. Len(outbox) = job.size /\ \A i \in 1 .. job.size : outbox[i] = stopMessage(i - 1) /\ i - 1 \in AllRanks
  BY <1>3
<1> HIDE DEF outbox
<1>5. ASSUME NEW i \in 1 .. job.size
      PROVE  /\ IsPushed(outbox[i]) /\ outbox[i] \in sentMessages /\ outbox[i].source = r
             /\ outbox[i].bytes = <<[from |-> MASTER_RANK, to |-> i - 1]>> /\ outbox[i].tag = StopTag
  BY <1>1, <1>4, StopForm DEF sentMessages
<1>6. KeepsBytes(r, outbox)
  BY <1>1, <1>4, <1>5, PushedKeepsBytes DEF KeepsBytes
<1>7. AllDiffer(outbox)
  <2>1. ASSUME NEW j \in 1 .. job.size, NEW k \in 1 .. job.size, outbox[j].bytes = outbox[k].bytes PROVE j = k
    <3>1. <<[from |-> MASTER_RANK, to |-> j - 1]>> = <<[from |-> MASTER_RANK, to |-> k - 1]>>
      BY <1>5, <2>1
    <3>2. [from |-> MASTER_RANK, to |-> j - 1] = [from |-> MASTER_RANK, to |-> k - 1]
      BY <3>1
    <3>3. j - 1 = k - 1
      BY <3>2
    <3> QED
      BY <1>3, <3>3
  <2> QED
    BY <1>4, <2>1 DEF AllDiffer
<1>8. SentSoFar(r, outbox, job.size, x)
  <2>1. Len(outbox) \in Nat
    BY <1>3, <1>4
  <2> QED
    BY <1>2, <1>4, <1>6, <1>7, <2>1, RoutedOutbox
<1> DEFINE New == {packet(r, y) : y \in x.sent}
<1>9. ASSUME NEW y \in x.sent
      PROVE  \E i \in 1 .. job.size : /\ PacketOf(packet(r, y), outbox[i]) /\ y.bytes = outbox[i].bytes
                                      /\ key(packet(r, y)) = keyOf(outbox[i])
  <2>1. PICK i \in 1 .. job.size : From(r, outbox[i], y)
    BY <1>8 DEF SentSoFar
  <2>2. isConnected(graph, packet(r, y).from, packet(r, y).to)
    <3>1. packet(r, y) \in network'
      BY <1>2
    <3> HIDE DEF r
    <3> QED
      BY <1>1, <3>1 DEF EveryHopIsALink
  <2>3. PacketOf(packet(r, y), outbox[i]) /\ y.bytes = outbox[i].bytes
    BY <1>1, <1>5, <2>1, <2>2, FirstHop
  <2>4. key(packet(r, y)) = keyOf(outbox[i])
    BY <1>1, <1>5, <2>3, KeyOfPacket
  <2> QED
    BY <2>3, <2>4
<1> HIDE DEF r
<1>10. ASSUME NEW p \in New PROVE \E s \in sentMessages : PacketOf(p, s)
  BY <1>5, <1>9
<1>11. ASSUME NEW p \in New, NEW m \in arrived PROVE key(p) # keyOf(m)
  <2>1. PICK y \in x.sent : p = packet(r, y)
    OBVIOUS
  <2>2. PICK i \in 1 .. job.size : key(p) = keyOf(outbox[i])
    BY <1>9, <2>1
  <2>3. outbox[i].tag = StopTag /\ m.tag # StopTag
    BY <1>1, <1>5
  <2> QED
    BY <2>2, <2>3 DEF keyOf
<1>12. ASSUME NEW p \in New, NEW q \in New, key(p) = key(q) PROVE p = q
  <2>1. PICK y \in x.sent, z \in x.sent : p = packet(r, y) /\ q = packet(r, z)
    OBVIOUS
  <2>2. PICK i \in 1 .. job.size : y.bytes = outbox[i].bytes /\ key(p) = keyOf(outbox[i])
    BY <1>9, <2>1
  <2>3. PICK j \in 1 .. job.size : z.bytes = outbox[j].bytes /\ key(q) = keyOf(outbox[j])
    BY <1>9, <2>1
  <2> DEFINE c(k) == [from |-> MASTER_RANK, to |-> k - 1]
  <2>4. outbox[i].bytes = <<c(i)>> /\ outbox[j].bytes = <<c(j)>>
    BY <1>5
  <2> HIDE DEF c
  <2>5. c(i) = c(j)
    <3>1. keyOf(outbox[i]) = <<c(i), outbox[i].tag>> /\ keyOf(outbox[j]) = <<c(j), outbox[j].tag>>
      BY <2>4 DEF keyOf
    <3>2. key(p) = <<c(i), outbox[i].tag>> /\ key(q) = <<c(j), outbox[j].tag>>
      BY <2>2, <2>3, <3>1
    <3>3. <<c(i), outbox[i].tag>> = <<c(j), outbox[j].tag>>
      BY <1>12, <3>2
    <3> QED
      BY <3>3
  <2>6. y.bytes = z.bytes
    BY <2>2, <2>3, <2>4, <2>5
  <2>7. y = z
    BY <1>8, <2>6 DEF SentSoFar
  <2> QED
    BY <2>1, <2>7
<1>13. network' = {} \union New
  BY <1>2
<1> HIDE DEF New
<1>14. NewPackets(New, todo, {}, arrived)
  BY <1>1, <1>10, <1>11, <1>12 DEF NewPackets
<1>15. RouterState(todo, {} \union New, arrived)
  <2>1. RouterState(todo, network, arrived) /\ {} \subseteq network /\ todo \subseteq todo
    BY DEF RouterInv
  <2> QED
    BY <1>14, <2>1, AddPackets
<1>16. RouterState(todo', network', arrived')
  BY <1>1, <1>13, <1>15
<1> QED
  BY <1>1, <1>16, SameJob

LEMMA RelayKeeps ==
  ASSUME RouterInv, NEW r \in AllRanks, NEW p \in network, Relay(r, p)
  PROVE  RouterInv'
<1>1. JobOK /\ job' = job /\ graph' = graph /\ arrived' = arrived /\ todo' = todo /\ mustRelay(r, receive(p))
  BY DEF RouterInv, Relay
<1>2. PICK n, ld : sendMessages(r, ld, <<[receive(p) EXCEPT !.source = r, !.destination = n]>>, network \ {p})
  BY DEF Relay
<1> DEFINE m == [receive(p) EXCEPT !.source = r, !.destination = n]
           outbox == <<m>>
<1>3. Len(outbox) = 1 /\ outbox[1] = m
  OBVIOUS
<1>4. PICK x \in routeOutcomingMessages(r, ld, outbox) : network' = (network \ {p}) \union {packet(r, y) : y \in x.sent}
  BY <1>2 DEF sendMessages
<1>5. PICK s \in sentMessages : PacketOf(p, s)
  BY DEF RouterInv, RouterState, NetworkPart
<1>6. IsPushed(s)
  BY <1>1, SentIsPushed
<1>7. ASSUME NEW y, From(r, m, y) PROVE PacketOf(packet(r, y), s) /\ y = m
  <2>1. PacketOf(packet(r, y), s)
    BY <1>1, <1>5, <1>6, <1>7, FurtherHop
  <2>2. PICK sa \in Int, da \in Int, rs \in Int, rd \in Int :
           receive(p) = MessageOf(s.bytes[1], p.tag, p.from, p.to, sa, da, rs, rd)
    BY <1>5, ReceivedOf
  <2>3. m.tag = receive(p).tag
    <3> DEFINE f == receive(p)
    <3>1. "tag" \in DOMAIN f
      BY <2>2 DEF MessageOf
    <3> HIDE DEF f
    <3>2. [f EXCEPT !.source = r, !.destination = n].tag = f.tag
      BY <3>1
    <3> QED
      BY <3>2 DEF f
  <2>4. isRoutingTag(m.tag)
    BY <1>1, <2>3 DEF mustRelay
  <2> HIDE DEF m
  <2> QED
    BY <1>7, <2>1, <2>4, RelayedMessage
<1> HIDE DEF m
<1>8. \A y \in x.sent : From(r, m, y)
  <2> HIDE DEF outbox
  <2>1. KeepsBytes(r, outbox) /\ AllDiffer(outbox)
    BY <1>3, <1>7 DEF KeepsBytes, AllDiffer
  <2>2. SentSoFar(r, outbox, Len(outbox), x)
    BY <1>3, <1>4, <2>1, RoutedOutbox DEF outbox
  <2> QED
    BY <1>3, <2>2 DEF SentSoFar
<1> DEFINE New == {packet(r, y) : y \in x.sent}
<1>9. \A q \in New : PacketOf(q, s) /\ q = packet(r, m)
  BY <1>7, <1>8
<1>10. \A q \in New : key(q) = key(p)
  BY <1>1, <1>5, <1>6, <1>9, KeyOfPacket
<1> HIDE DEF New
<1>11. NewPackets(New, todo, network \ {p}, arrived)
  BY <1>9, <1>10 DEF NewPackets, RouterInv, RouterState, OncePart
<1>12. RouterState(todo, (network \ {p}) \union New, arrived)
  <2>1. RouterState(todo, network, arrived) /\ (network \ {p}) \subseteq network /\ todo \subseteq todo
    BY DEF RouterInv
  <2> QED
    BY <1>11, <2>1, AddPackets
<1>13. RouterState(todo', network', arrived')
  BY <1>1, <1>4, <1>12 DEF New
<1> QED
  BY <1>1, <1>13, SameJob

LEMMA DeliverKeeps ==
  ASSUME RouterInv, NEW r \in AllRanks, NEW p \in network, Deliver(r, p)
  PROVE  RouterInv'
<1> DEFINE m == restored(receive(p))
<1>1. /\ JobOK /\ job' = job /\ graph' = graph /\ todo' = todo /\ ~ mustRelay(p.to, receive(p))
      /\ network' = network \ {p} /\ arrived' = arrived \union {m}
  BY DEF RouterInv, Deliver
<1>2. PICK s \in sentMessages : PacketOf(p, s)
  BY DEF RouterInv, RouterState, NetworkPart
<1>3. IsPushed(s)
  BY <1>1, SentIsPushed
<1>4. ArrivedAs(m, s) /\ keyOf(m) = key(p)
  BY <1>1, <1>2, <1>3, LastHop, KeyOfPacket
<1> HIDE DEF m
<1>5. NetworkPart(network') /\ TodoPart(todo')
  BY <1>1 DEF RouterInv, RouterState, NetworkPart
<1>6. ArrivedPart(arrived')
  BY <1>1, <1>4 DEF RouterInv, RouterState, ArrivedPart
<1>7. OncePart(todo', network', arrived')
  BY <1>1, <1>4 DEF RouterInv, RouterState, OncePart
<1> QED
  BY <1>1, <1>5, <1>6, <1>7, SameJob DEF RouterState

LEMMA TickKeeps ==
  ASSUME RouterInv, Tick
  PROVE  RouterInv'
<1> DEFINE older(p) == [p EXCEPT !.age = @ + 1]
<1>1. /\ JobOK /\ job' = job /\ graph' = graph /\ todo' = todo /\ arrived' = arrived
      /\ network' = {older(p) : p \in network}
  BY DEF RouterInv, Tick
<1>2. ASSUME NEW p \in network PROVE /\ \E s \in sentMessages : PacketOf(older(p), s)
                                     /\ key(older(p)) = key(p)
  <2>1. PICK s \in sentMessages : PacketOf(p, s)
    BY DEF RouterInv, RouterState, NetworkPart
  <2>2. p = [from |-> p.from, to |-> p.to, tag |-> p.tag, bytes |-> p.bytes, age |-> p.age]
    BY <2>1 DEF PacketOf
  <2>3. older(p) = [from |-> p.from, to |-> p.to, tag |-> p.tag, bytes |-> p.bytes, age |-> p.age + 1]
    BY <2>2
  <2> DEFINE q == older(p)
  <2>4. /\ q.from = p.from /\ q.to = p.to /\ q.tag = p.tag /\ q.bytes = p.bytes
        /\ q = [from |-> q.from, to |-> q.to, tag |-> q.tag, bytes |-> q.bytes, age |-> q.age]
    BY <2>3
  <2> HIDE DEF q
  <2>5. PacketOf(q, s)
    BY <2>1, <2>4 DEF PacketOf, Carries
  <2>6. key(q) = key(p)
    BY <2>4 DEF key
  <2> QED
    BY <2>5, <2>6 DEF q
<1> HIDE DEF older
<1>3. NetworkPart(network')
  BY <1>1, <1>2 DEF NetworkPart
<1>4. OncePart(todo', network', arrived')
  <2>1. ASSUME NEW p \in network', NEW q \in network', key(p) = key(q) PROVE p = q
    BY <1>1, <1>2, <2>1 DEF RouterInv, RouterState, OncePart
  <2>2. ASSUME NEW p \in network' PROVE /\ \A m \in arrived' : key(p) # keyOf(m)
                                        /\ \A t \in todo' : key(p) # keyOf(t)
    BY <1>1, <1>2, <2>2 DEF RouterInv, RouterState, OncePart
  <2>3. \A t \in todo', m \in arrived' : keyOf(m) # keyOf(t)
    BY <1>1 DEF RouterInv, RouterState, OncePart
  <2> QED
    BY <2>1, <2>2, <2>3 DEF OncePart
<1>5. TodoPart(todo') /\ ArrivedPart(arrived')
  BY <1>1 DEF RouterInv, RouterState
<1> QED
  BY <1>1, <1>3, <1>4, <1>5, SameJob DEF RouterState

\* Nothing of the invariant changes.
LEMMA StillKeeps ==
  ASSUME RouterInv, job' = job, graph' = graph, todo' = todo, network' = network, arrived' = arrived
  PROVE  RouterInv'
BY SameJob DEF RouterInv

LEMMA StepKeeps ==
  ASSUME RouterInv, EveryHopIsALink', [RouterNext]_routerVars
  PROVE  RouterInv'
<1>1. CASE Enable
  BY <1>1, StillKeeps DEF Enable
<1>2. CASE SendStops
  BY <1>2, SendStopsKeeps
<1>3. CASE Tick
  BY <1>3, TickKeeps
<1>4. ASSUME NEW r \in AllRanks, NEW m \in todo, PushWork(r, m) PROVE RouterInv'
  BY <1>4, PushWorkKeeps
<1>5. ASSUME NEW r \in AllRanks, NEW p \in network, Relay(r, p) PROVE RouterInv'
  BY <1>5, RelayKeeps
<1>6. ASSUME NEW r \in AllRanks, NEW p \in network, Deliver(r, p) PROVE RouterInv'
  BY <1>6, DeliverKeeps
<1>7. ASSUME NEW r \in AllRanks, Leave(r) PROVE RouterInv'
  BY <1>7, StillKeeps DEF Leave
<1>8. CASE UNCHANGED routerVars
  BY <1>8, StillKeeps DEF routerVars
<1> QED
  BY <1>1, <1>2, <1>3, <1>4, <1>5, <1>6, <1>7, <1>8 DEF RouterNext

LEMMA RouterInvImplies ==
  ASSUME RouterInv
  PROVE  DeliveredAsSent
<1>1. ASSUME NEW m \in arrived, NEW p \in network, p.bytes[1] = m.bytes[1]
      PROVE  restored(receive(p)).tag # m.tag
  <2>1. PICK s \in sentMessages : PacketOf(p, s)
    BY DEF RouterInv, RouterState, NetworkPart
  <2>2. PICK sa \in Int, da \in Int, rs \in Int, rd \in Int :
           receive(p) = MessageOf(s.bytes[1], p.tag, p.from, p.to, sa, da, rs, rd)
    BY <2>1, ReceivedOf
  <2> DEFINE f == receive(p)
  <2>3. f.tag = p.tag /\ {"tag", "source"} \subseteq DOMAIN f
    BY <2>2 DEF MessageOf
  <2> HIDE DEF f
  <2>4. restored(f).tag = appTag(p.tag)
    BY <2>3 DEF restored, appTag
  <2>5. key(p) # keyOf(m)
    BY DEF RouterInv, RouterState, OncePart
  <2> QED
    BY <1>1, <2>4, <2>5 DEF key, keyOf, f
<1>2. \A m \in arrived : \E s \in sentMessages : ArrivedAs(m, s)
  BY DEF RouterInv, RouterState, ArrivedPart
<1> QED
  BY <1>1, <1>2 DEF DeliveredAsSent, ArrivedAs

\* As long as every hop is a link of the graph (the assertion at the end of
\* routeOutcomingMessages and in relayMessage), what a handler sees after any
\* number of relays is what the application pushed, at the rank it meant, and
\* a message that has arrived is not under way a second time: for every
\* graph, every number of ranks and every set of messages.
THEOREM RelaysKeepMessages == RouterSpec => ([]EveryHopIsALink => []DeliveredAsSent)
<1>1. RouterInv /\ EveryHopIsALink' /\ [RouterNext]_routerVars => RouterInv'
  BY StepKeeps
<1>2. RouterInv => DeliveredAsSent
  BY RouterInvImplies
<1> QED
  BY InitHolds, <1>1, <1>2, PTL DEF RouterSpec
================================================================================
