---------------------------- MODULE SendPathProofs ----------------------------
(***************************************************************************)
(* For every ring of memory/RingAllocator.cpp that is as large as          *)
(* SizingAssumption asks, any number of messages and any order in which    *)
(* MPI completes the sends: MessagesHandler::sendMessages gives MPI        *)
(* buffers that nothing writes to while MPI reads them.  The counters of   *)
(* the allocator are right for both senders, for that of the mini-ranks    *)
(* in a ring of any size.                                                  *)
(***************************************************************************)
EXTENDS SendPath, FiniteSetTheorems, TLAPS

ByRank == m_miniRanksAreEnabled = FALSE

\* The free buffers that are handed out before h is.
Before(a, h) == { g \in Handle \ a.dirty : Distance(a.m_current, g) < Distance(a.m_current, h) }
Ahead(a, h) == Cardinality(Before(a, h))

\* The messages that are still to be posted in this tick.
Remaining == IF phase = "isend" THEN Len(outbox) - index + 1 ELSE Len(outbox)

\* Is the message at place j of the outbox not with MPI yet?
NotPosted(j) == phase = "isend" => j >= index

\* Where the sending thread is, and how far it is in its loop.
PlaceOK ==
  /\ Len(outbox) <= MaxPerTick
  /\ IF phase = "work" THEN index = 1 ELSE index \in 1 .. Len(outbox)
  /\ phase = "sweep" => index = 1

\* Messages have names of their own.
NamesDiffer ==
  /\ \A j, k \in DOMAIN outbox : outbox[j].msg = outbox[k].msg => j = k
  /\ \A j \in DOMAIN outbox :
       NotPosted(j) => outbox[j].msg \notin InFlight /\ \A h \in Handle : request[h] # outbox[j].msg
  /\ \A g, h \in Handle : request[g] = request[h] /\ request[g] # Null => g = h

\* The request of the buffer of a send that is under way is that of the send, and
\* the buffer has its bytes.
Tracked ==
  \A f \in flight :
    f.buf \in alloc.registered /\ request[f.buf] = f.msg /\ content[f.buf] = f.msg

\* There are as many buffers that are not dirty as a tick may need.
Room ==
  /\ IsFiniteSet(flight)
  /\ Cardinality(flight) + Remaining <= MaxOutstanding
  /\ Cardinality(alloc.dirty) + MaxPerTick + (IF phase = "isend" THEN Remaining ELSE 0) <= m_chunks

\* A message that has not been posted is in a buffer that is not dirty, alone
\* once it has been copied, and with its bytes.
BuffersOK ==
  \A j \in DOMAIN outbox :
    LET b == outbox[j].buf
        copied == phase \in {"sweep", "isend"} \/ (phase = "copy" /\ j < index)
    IN  /\ copied => b # Null
        /\ b # Null => content[b] = outbox[j].msg
        /\ b # Null /\ NotPosted(j) => b \notin alloc.dirty
        /\ copied => \A k \in DOMAIN outbox :
             (phase = "copy" => k < index) /\ outbox[k].buf = b => k = j

\* The ring does not come round to a message before it may: in the tick that
\* creates it, before the copy of it, and after that before the last copy.
RingTurnsLate ==
  \A j \in DOMAIN outbox :
    LET b == outbox[j].buf
    IN  b # Null =>
          /\ phase = "work" => Ahead(alloc, b) >= MaxPerTick - Len(outbox) + (j - 1)
          /\ phase = "copy" =>
               Ahead(alloc, b) >= IF j < index THEN Len(outbox) - index + 1 ELSE j - index

\* The two senders use different phases; a mini-rank's messages have no buffer
\* of the ring while they are queued.
ModesOK ==
  m_miniRanksAreEnabled = TRUE =>
    phase \in {"work", "isend"} /\ \A j \in DOMAIN outbox : outbox[j].buf = Null

\* The inductive invariant.
RankInv == PlaceOK /\ NamesDiffer /\ Tracked /\ Room /\ BuffersOK /\ RingTurnsLate
IInv == TypeOK /\ CountersAgree /\ ModesOK /\ (ByRank => RankInv)
------------------------------------------------------------------------------
\* A set of natural numbers has a least element.  The finite intervals below its
\* elements have one that contains no other.
LEMMA LeastNumber ==
  ASSUME NEW S, S \subseteq Nat, S # {}
  PROVE  \E x \in S : \A y \in S : x <= y
<1> DEFINE Below == { 0 .. x - 1 : x \in S }
<1>1. Below \subseteq FiniteSubsetsOf(Nat)
  <2>1. ASSUME NEW x \in S PROVE 0 .. x - 1 \in FiniteSubsetsOf(Nat)
    <3>1. x \in Nat /\ IsFiniteSet(0 .. x - 1)
      BY FS_Interval
    <3> QED
      BY <3>1 DEF FiniteSubsetsOf
  <2> QED
    BY <2>1
<1>2. IsWellFoundedOn(StrictSubsetOrdering(Nat), FiniteSubsetsOf(Nat)) /\ Below # {}
  BY FS_StrictSubsetOrderingWellFounded
<1>3. PICK b \in Below : \A c \in Below : ~ (<<c, b>> \in StrictSubsetOrdering(Nat))
  <2> HIDE DEF Below
  <2> QED
    BY <1>1, <1>2, WFMin
<1>4. PICK x \in S : b = 0 .. x - 1
  BY <1>3
<1>5. ASSUME NEW y \in S, y < x PROVE FALSE
  <2>1. 0 .. y - 1 \subseteq 0 .. x - 1 /\ y \in 0 .. x - 1 /\ y \notin 0 .. y - 1 /\ 0 .. y - 1 \in Below
    BY <1>5
  <2>2. <<0 .. y - 1, 0 .. x - 1>> \in StrictSubsetOrdering(Nat)
    BY <2>1 DEF StrictSubsetOrdering
  <2> QED
    BY <1>3, <1>4, <2>1, <2>2
<1> QED
  BY <1>5

\* The circle of buffers.
LEMMA Circle ==
  /\ m_chunks \in Nat /\ m_chunks >= 1 /\ IsFiniteSet(Handle) /\ Cardinality(Handle) = m_chunks
  /\ \A g, h \in Handle : Distance(g, h) \in 0 .. m_chunks - 1
  /\ \A g, h, k \in Handle : Distance(g, h) = Distance(g, k) => h = k
  /\ \A h \in Handle : After(h, 1) \in Handle
<1>1. m_chunks \in Nat /\ m_chunks >= 1
  BY ChunksAssumption
<1>2. IsFiniteSet(Handle) /\ Cardinality(Handle) = m_chunks
  BY <1>1, FS_Interval DEF Handle
<1> QED
  BY <1>1, <1>2 DEF Handle, Distance, After

\* allocate() hands out a buffer of the ring: the nearest one that is not dirty,
\* if there is any.
LEMMA Chosen ==
  ASSUME NEW a \in Allocator
  PROVE  /\ chosen(a) \in Handle
         /\ a.dirty # Handle =>
              /\ chosen(a) \notin a.dirty
              /\ \A g \in Handle \ a.dirty :
                   Distance(a.m_current, chosen(a)) <= Distance(a.m_current, g)
<1>1. a.m_current \in Handle /\ a.dirty \subseteq Handle
  BY DEF Allocator
<1>2. CASE a.dirty = Handle
  BY <1>1, <1>2 DEF chosen
<1>3. CASE a.dirty # Handle
  <2> DEFINE Free == Handle \ a.dirty
             Far == { Distance(a.m_current, g) : g \in Free }
  <2>1. Free # {} /\ Free \subseteq Handle
    BY <1>1, <1>3
  <2>2. Far \subseteq Nat /\ Far # {}
    BY <1>1, <2>1, Circle
  <2>3. PICK x \in Far : \A y \in Far : x <= y
    <3> HIDE DEF Far
    <3> QED
      BY <2>2, LeastNumber
  <2>4. \E h \in Free : \A g \in Free : Distance(a.m_current, h) <= Distance(a.m_current, g)
    BY <2>3
  <2> QED
    BY <1>3, <2>4 DEF chosen
<1> QED
  BY <1>2, <1>3

\* The buffers that come before another one, and their number.
LEMMA BeforeFinite ==
  ASSUME NEW a \in Allocator, NEW h
  PROVE  Before(a, h) \subseteq Handle /\ IsFiniteSet(Before(a, h)) /\ Ahead(a, h) \in Nat
<1>1. Before(a, h) \in SUBSET Handle
  BY DEF Before
<1>2. IsFiniteSet(Before(a, h))
  BY <1>1, Circle, FS_Subset
<1> QED
  BY <1>1, <1>2, FS_CardinalityType DEF Ahead

\* allocate() takes the buffer that nothing is before, puts it behind all the
\* others, and moves each of the others up by one.
LEMMA RingTurns ==
  ASSUME NEW a \in Allocator, a.dirty # Handle
  PROVE  /\ allocate(a) \in Allocator /\ allocate(a).dirty = a.dirty
         /\ Ahead(a, chosen(a)) = 0
         /\ Ahead(allocate(a), chosen(a)) = m_chunks - Cardinality(a.dirty) - 1
         /\ \A h \in Handle \ a.dirty : h # chosen(a) => Ahead(allocate(a), h) >= Ahead(a, h) - 1
<1> DEFINE c == chosen(a)
           b == allocate(a)
           Free == Handle \ a.dirty
<1>1. a.m_current \in Handle /\ a.dirty \subseteq Handle
  BY DEF Allocator
<1>2. c \in Free /\ \A g \in Free : Distance(a.m_current, c) <= Distance(a.m_current, g)
  BY Chosen
<1>3. b \in Allocator /\ b.dirty = a.dirty /\ b.m_current = After(c, 1)
  BY <1>2, Circle DEF allocate, Allocator
<1> HIDE DEF c, b
<1>4. Ahead(a, c) = 0
  <2>1. Before(a, c) = {}
    BY <1>1, <1>2, Circle DEF Before
  <2> QED
    BY <2>1, FS_EmptySet DEF Ahead
<1>5. Ahead(b, c) = m_chunks - Cardinality(a.dirty) - 1
  <2>1. Before(b, c) = Free \ {c}
    <3>1. \A g \in Handle : Distance(After(c, 1), g) < Distance(After(c, 1), c) <=> g # c
      BY <1>2, Circle DEF Distance, After, Handle
    <3> QED
      BY <1>2, <1>3, <3>1 DEF Before
  <2>2. IsFiniteSet(Free) /\ Cardinality(Free) = m_chunks - Cardinality(a.dirty)
    <3>1. Handle \cap a.dirty = a.dirty
      BY <1>1
    <3> QED
      BY <3>1, Circle, FS_Difference
  <2>3. Cardinality(Free \ {c}) = Cardinality(Free) - 1
    BY <1>2, <2>2, FS_RemoveElement
  <2> QED
    BY <2>1, <2>2, <2>3 DEF Ahead
<1>6. ASSUME NEW h \in Free, h # c PROVE Ahead(b, h) >= Ahead(a, h) - 1
  <2>1. Before(a, h) \ {c} \subseteq Before(b, h)
    <3>1. ASSUME NEW g \in Free, g # c, Distance(a.m_current, g) < Distance(a.m_current, h)
          PROVE  Distance(After(c, 1), g) < Distance(After(c, 1), h)
      <4>1. Distance(a.m_current, c) < Distance(a.m_current, g)
        BY <1>1, <1>2, <3>1, Circle
      <4>2. /\ a.m_current \in Int /\ c \in Int /\ g \in Int /\ h \in Int
            /\ 0 <= a.m_current /\ a.m_current < m_chunks /\ 0 <= c /\ c < m_chunks
            /\ 0 <= g /\ g < m_chunks /\ 0 <= h /\ h < m_chunks
        <5>1. a.m_current \in Handle /\ c \in Handle /\ g \in Handle /\ h \in Handle
          BY <1>1, <1>2
        <5>2. \A x \in Handle : x \in Int /\ 0 <= x /\ x < m_chunks
          BY ChunksAssumption DEF Handle
        <5> QED
          BY <5>1, <5>2
      <4> QED
        BY <3>1, <4>1, <4>2, Circle DEF Distance, After
    <3> QED
      BY <1>3, <3>1 DEF Before
  <2>2. IsFiniteSet(Before(a, h)) /\ IsFiniteSet(Before(b, h)) /\ Ahead(a, h) \in Nat /\ Ahead(b, h) \in Nat
    BY <1>3, BeforeFinite
  <2>3. IsFiniteSet(Before(a, h) \ {c}) /\ Cardinality(Before(a, h) \ {c}) >= Ahead(a, h) - 1
    <3>1. /\ IsFiniteSet(Before(a, h) \ {c})
          /\ Cardinality(Before(a, h) \ {c}) =
               IF c \in Before(a, h) THEN Ahead(a, h) - 1 ELSE Ahead(a, h)
      BY <2>2, FS_RemoveElement DEF Ahead
    <3> QED
      BY <2>2, <3>1
  <2>4. Cardinality(Before(a, h) \ {c}) <= Ahead(b, h)
    BY <2>1, <2>2, FS_Subset DEF Ahead
  <2>5. Cardinality(Before(a, h) \ {c}) \in Nat
    BY <2>3, FS_CardinalityType
  <2> QED
    BY <2>2, <2>3, <2>4, <2>5
<1> QED
  BY <1>3, <1>4, <1>5, <1>6 DEF c, b

------------------------------------------------------------------------------
\* CountersAgree of an allocator.
Agree(a) ==
  /\ a.registered = a.dirty
  /\ a.m_numberOfDirtyBuffers = Cardinality(a.registered)
  /\ a.m_availableBuffers = m_chunks - Cardinality(a.dirty)

LEMMA DirtyFinite ==
  ASSUME NEW a \in Allocator
  PROVE  /\ a.dirty \subseteq Handle /\ IsFiniteSet(a.dirty) /\ Cardinality(a.dirty) \in Nat
         /\ a.registered \subseteq Handle
<1>1. a.dirty \in SUBSET Handle /\ a.registered \in SUBSET Handle
  BY DEF Allocator
<1>2. IsFiniteSet(a.dirty)
  BY <1>1, Circle, FS_Subset
<1> QED
  BY <1>1, <1>2, FS_CardinalityType

\* Handing out a buffer changes no counter.
LEMMA AllocateAgrees ==
  ASSUME NEW a \in Allocator, Agree(a)
  PROVE  /\ allocate(a) \in Allocator /\ Agree(allocate(a))
         /\ allocate(a).dirty = a.dirty /\ allocate(a).registered = a.registered
<1>1. After(chosen(a), 1) \in Handle
  BY Chosen, Circle
<1> QED
  BY <1>1 DEF allocate, Allocator, Agree

\* A buffer that is registered for the first time is counted once.
LEMMA RegisterAgrees ==
  ASSUME NEW a \in Allocator, Agree(a), NEW h \in Handle, h \notin a.registered,
         NEW b, b = registerBuffer(a, h)
  PROVE  /\ b \in Allocator /\ Agree(b)
         /\ b.dirty = a.dirty \cup {h} /\ b.registered = a.registered \cup {h}
         /\ Cardinality(a.dirty \cup {h}) = Cardinality(a.dirty) + 1
<1>1. Cardinality(a.dirty \cup {h}) = Cardinality(a.dirty) + 1
  BY DirtyFinite, FS_AddElement DEF Agree
<1>2. /\ b \in Allocator
      /\ b.dirty = a.dirty \cup {h} /\ b.registered = a.registered \cup {h}
      /\ b.m_availableBuffers = a.m_availableBuffers - 1
      /\ b.m_numberOfDirtyBuffers = a.m_numberOfDirtyBuffers + 1
  <2>1. /\ a = [dirty |-> a.dirty, registered |-> a.registered, m_current |-> a.m_current,
                m_availableBuffers |-> a.m_availableBuffers,
                m_numberOfDirtyBuffers |-> a.m_numberOfDirtyBuffers]
        /\ a.m_current \in Handle /\ a.m_availableBuffers \in Int /\ a.m_numberOfDirtyBuffers \in Int
        /\ a.dirty \cup {h} \in SUBSET Handle /\ a.registered \cup {h} \in SUBSET Handle
    BY DEF Allocator
  <2>2. b = [dirty |-> a.dirty \cup {h}, registered |-> a.registered \cup {h}, m_current |-> a.m_current,
             m_availableBuffers |-> a.m_availableBuffers - 1,
             m_numberOfDirtyBuffers |-> a.m_numberOfDirtyBuffers + 1]
    BY <2>1 DEF registerBuffer
  <2>3. b \in Allocator
    BY <2>1, <2>2 DEF Allocator
  <2> QED
    BY <2>2, <2>3
<1>3. m_chunks \in Int /\ Cardinality(a.dirty) \in Int
  BY Circle, DirtyFinite
<1> QED
  BY <1>1, <1>2, <1>3 DEF Agree

\* A sweep that is not skipped leaves the buffers whose sends are under way.
LEMMA CleanAgrees ==
  ASSUME NEW a \in Allocator, Agree(a), NEW S, NEW b, b = cleanDirtyBuffers(a, S)
  PROVE  /\ b \in Allocator /\ Agree(b)
         /\ b.dirty \subseteq a.dirty /\ a.dirty \ S \subseteq b.dirty
         /\ \/ b = a /\ Cardinality(a.dirty) < m_minimumNumberOfDirtyBuffersForSweep
            \/ b.dirty = a.dirty \ S
<1> DEFINE F == a.registered \cap S
<1>1. CASE a.m_numberOfDirtyBuffers < m_minimumNumberOfDirtyBuffersForSweep
  BY <1>1 DEF cleanDirtyBuffers, Agree
<1>2. CASE ~ (a.m_numberOfDirtyBuffers < m_minimumNumberOfDirtyBuffersForSweep)
  <2>1. b = salvage(a, F)
    BY <1>2 DEF cleanDirtyBuffers
  <2>2. /\ IsFiniteSet(F) /\ F \subseteq a.dirty /\ a.dirty \cap F = F
        /\ Cardinality(F) \in Nat /\ Cardinality(a.dirty) \in Nat
    <3>1. F \in SUBSET a.dirty
      BY DEF Agree
    <3>2. IsFiniteSet(F)
      BY <3>1, DirtyFinite, FS_Subset
    <3> QED
      BY <3>1, <3>2, DirtyFinite, FS_CardinalityType
  <2>3. Cardinality(a.dirty \ F) = Cardinality(a.dirty) - Cardinality(F)
    <3> HIDE DEF F
    <3>1. IsFiniteSet(a.dirty)
      BY DirtyFinite
    <3> QED
      BY <2>2, <3>1, FS_Difference
  <2> HIDE DEF F
  <2>4. /\ b \in Allocator
        /\ b.dirty = a.dirty \ F /\ b.registered = a.registered \ F
        /\ b.m_availableBuffers = a.m_availableBuffers + Cardinality(F)
        /\ b.m_numberOfDirtyBuffers = a.m_numberOfDirtyBuffers - Cardinality(F)
    <3>1. /\ a = [dirty |-> a.dirty, registered |-> a.registered, m_current |-> a.m_current,
                  m_availableBuffers |-> a.m_availableBuffers,
                  m_numberOfDirtyBuffers |-> a.m_numberOfDirtyBuffers]
          /\ a.m_current \in Handle /\ a.m_availableBuffers \in Int /\ a.m_numberOfDirtyBuffers \in Int
          /\ a.dirty \ F \in SUBSET Handle /\ a.registered \ F \in SUBSET Handle
      BY DEF Allocator
    <3>2. b = [dirty |-> a.dirty \ F, registered |-> a.registered \ F, m_current |-> a.m_current,
               m_availableBuffers |-> a.m_availableBuffers + Cardinality(F),
               m_numberOfDirtyBuffers |-> a.m_numberOfDirtyBuffers - Cardinality(F)]
      BY <2>1, <3>1 DEF salvage
    <3>3. b \in Allocator
      BY <2>2, <3>1, <3>2 DEF Allocator
    <3> QED
      BY <3>2, <3>3
  <2>5. Agree(b)
    <3>1. m_chunks \in Int
      BY Circle
    <3> QED
      BY <2>2, <2>3, <2>4, <3>1 DEF Agree
  <2>6. a.dirty \ F = a.dirty \ S
    BY DEF F, Agree
  <2> QED
    BY <2>4, <2>5, <2>6
<1> QED
  BY <1>1, <1>2

------------------------------------------------------------------------------
\* Without mini-ranks the ring is large enough.
LEMMA Sizing ==
  ASSUME TypeOK, ByRank
  PROVE  /\ MaxPerTick \in Nat /\ MaxPerTick >= 1 /\ MaxOutstanding \in Nat
         /\ MaxOutstanding + MaxPerTick <= m_chunks
         /\ m_minimumNumberOfDirtyBuffersForSweep - 1 + 2 * MaxPerTick <= m_chunks
         /\ m_minimumNumberOfDirtyBuffersForSweep \in Int
<1>1. FALSE \in Modes
  BY DEF TypeOK, ByRank
<1>2. m_minimumNumberOfDirtyBuffersForSweep \in Int
  BY Circle DEF m_minimumNumberOfDirtyBuffersForSweep
<1> QED
  BY <1>1, <1>2, SizingAssumption, BoundsAssumption

LEMMA InitIInv == Init => IInv
<1> SUFFICES ASSUME Init PROVE IInv
  OBVIOUS
<1> USE DEF Init
<1>0. m_chunks \in Nat /\ 0 \in Handle
  BY ChunksAssumption DEF Handle
<1>1. alloc \in Allocator /\ alloc.dirty = {} /\ Agree(alloc)
  BY <1>0, FS_EmptySet DEF newAllocator, Allocator, Agree
<1>2. TypeOK
  BY <1>1 DEF TypeOK
<1>3. CountersAgree
  BY <1>1 DEF Agree, CountersAgree
<1>4. ModesOK
  BY DEF ModesOK
<1>5. ASSUME ByRank PROVE RankInv
  <2>1. Remaining = 0 /\ DOMAIN outbox = {} /\ Cardinality(flight) = 0 /\ IsFiniteSet(flight)
    BY FS_EmptySet DEF Remaining
  <2>2. Room
    BY <1>0, <1>1, <1>2, <1>5, <2>1, Sizing, FS_EmptySet DEF Room
  <2>3. PlaceOK
    BY <1>2, <1>5, Sizing DEF PlaceOK
  <2> QED
    BY <2>1, <2>2, <2>3 DEF RankInv, NamesDiffer, Tracked, BuffersOK, RingTurnsLate
<1> QED
  BY <1>2, <1>3, <1>4, <1>5 DEF IInv

\* The outbox with one message more.
LEMMA Appended ==
  ASSUME NEW q \in Seq(Entry), NEW e \in Entry
  PROVE  /\ Append(q, e) \in Seq(Entry) /\ Len(Append(q, e)) = Len(q) + 1 /\ Len(q) \in Nat
         /\ DOMAIN q = 1 .. Len(q) /\ DOMAIN Append(q, e) = 1 .. Len(q) + 1
         /\ \A j \in 1 .. Len(q) : Append(q, e)[j] = q[j]
         /\ Append(q, e)[Len(q) + 1] = e
OBVIOUS

------------------------------------------------------------------------------
\* A handler adds a message with a name of its own: what does not depend on the
\* buffer it is in.
LEMMA CreatedIInv ==
  ASSUME IInv, ByRank, phase = "work", NEW m \in Msg, MayCreate(m),
         NEW b \in Handle \cup {Null}, outbox' = Append(outbox, [msg |-> m, buf |-> b]),
         alloc' \in Allocator, Agree(alloc'), alloc'.dirty = alloc.dirty,
         alloc'.registered = alloc.registered,
         content' \in [Handle -> Msg \cup {Null}],
         UNCHANGED <<m_miniRanksAreEnabled, request, flight, phase, index>>
  PROVE  /\ TypeOK' /\ CountersAgree' /\ ModesOK'
         /\ PlaceOK' /\ NamesDiffer' /\ Room'
         /\ DOMAIN outbox = 1 .. Len(outbox) /\ DOMAIN outbox' = 1 .. Len(outbox) + 1
         /\ \A j \in 1 .. Len(outbox) : outbox'[j] = outbox[j]
         /\ outbox'[Len(outbox) + 1].msg = m /\ outbox'[Len(outbox) + 1].buf = b
         /\ Len(outbox') = Len(outbox) + 1 /\ Len(outbox) \in Nat /\ Len(outbox) < MaxPerTick
<1> DEFINE e == [msg |-> m, buf |-> b]
           n == Len(outbox)
<1>0. TypeOK /\ PlaceOK /\ NamesDiffer /\ Room
  BY DEF IInv, RankInv
<1>1. e \in Entry /\ e.msg = m /\ e.buf = b
  BY DEF Entry
<1>2. outbox \in Seq(Entry) /\ outbox' = Append(outbox, e)
  BY <1>0 DEF TypeOK
<1> HIDE DEF e
<1>3. /\ outbox' \in Seq(Entry) /\ Len(outbox') = n + 1 /\ n \in Nat
      /\ DOMAIN outbox = 1 .. n /\ DOMAIN outbox' = 1 .. n + 1
      /\ \A j \in 1 .. n : outbox'[j] = outbox[j]
      /\ outbox'[n + 1] = e
  BY <1>1, <1>2, Appended
<1>4. n < MaxPerTick /\ n + Cardinality(flight) < MaxOutstanding /\ Fresh(m)
  BY DEF MayCreate
<1> HIDE DEF n
<1>5. TypeOK'
  BY <1>0, <1>3 DEF TypeOK
<1>6. CountersAgree' /\ ModesOK'
  BY DEF CountersAgree, Agree, ModesOK, ByRank
<1>7. MaxPerTick \in Nat /\ MaxOutstanding \in Nat /\ Cardinality(flight) \in Nat
  BY <1>0, Sizing, FS_CardinalityType DEF Room
<1>8. PlaceOK'
  BY <1>0, <1>3, <1>4, <1>7 DEF PlaceOK
<1>9. NamesDiffer'
  <2>1. /\ \A j \in 1 .. n : outbox[j].msg # m
        /\ m \notin InFlight /\ \A h \in Handle : request[h] # m
    BY <1>3, <1>4 DEF Fresh, Queued
  <2>2. InFlight' = InFlight /\ request' = request
    BY DEF InFlight
  <2>3. \A j \in 1 .. n + 1 : j \in 1 .. n \/ j = n + 1
    BY <1>3
  <2>4. \A j, k \in DOMAIN outbox' : outbox'[j].msg = outbox'[k].msg => j = k
    BY <1>0, <1>1, <1>3, <2>1, <2>3 DEF NamesDiffer
  <2>5. \A j \in DOMAIN outbox' : outbox'[j].msg \notin InFlight /\ \A h \in Handle : request[h] # outbox'[j].msg
    BY <1>0, <1>1, <1>3, <2>1, <2>3 DEF NamesDiffer, NotPosted
  <2>6. \A g, h \in Handle : request[g] = request[h] /\ request[g] # Null => g = h
    BY <1>0 DEF NamesDiffer
  <2> QED
    BY <2>2, <2>4, <2>5, <2>6 DEF NamesDiffer
<1>10. Room'
  <2>1. Remaining' = n + 1
    BY <1>3 DEF Remaining
  <2> QED
    BY <1>0, <1>3, <1>4, <1>7, <2>1 DEF Room
<1> QED
  BY <1>1, <1>3, <1>4, <1>5, <1>6, <1>8, <1>9, <1>10 DEF n

LEMMA CreateWithBufferIInv ==
  ASSUME IInv, NEW m \in Msg, CreateWithBuffer(m)
  PROVE  IInv'
<1> DEFINE c == chosen(alloc)
           n == Len(outbox)
<1>0. TypeOK /\ CountersAgree /\ ByRank /\ RankInv /\ alloc \in Allocator /\ Agree(alloc)
  BY DEF IInv, CreateWithBuffer, InMode, ByRank, TypeOK, CountersAgree, Agree
<1>1. /\ phase = "work" /\ MayCreate(m)
      /\ alloc' = allocate(alloc)
      /\ content' = [content EXCEPT ![c] = m]
      /\ outbox' = Append(outbox, [msg |-> m, buf |-> c])
      /\ UNCHANGED <<m_miniRanksAreEnabled, request, flight, phase, index>>
  BY DEF CreateWithBuffer, InMode
<1>2. MaxPerTick \in Nat /\ MaxPerTick >= 1
  BY <1>0, Sizing
<1>3. Cardinality(alloc.dirty) \in Nat /\ Cardinality(alloc.dirty) + MaxPerTick <= m_chunks
  <2>1. Cardinality(alloc.dirty) \in Nat
    BY <1>0, DirtyFinite
  <2>2. Cardinality(alloc.dirty) + MaxPerTick + 0 <= m_chunks
    BY <1>0, <1>1 DEF RankInv, Room
  <2> QED
    BY <1>2, <2>1, <2>2
<1>4. alloc.dirty # Handle
  BY <1>2, <1>3, Circle
<1>5. c \in Handle /\ c \notin alloc.dirty
  BY <1>0, <1>4, Chosen
<1>6. /\ alloc' \in Allocator /\ Agree(alloc') /\ alloc'.dirty = alloc.dirty
      /\ alloc'.registered = alloc.registered
  BY <1>0, <1>1, AllocateAgrees
<1>7. /\ Ahead(alloc, c) = 0
      /\ Ahead(alloc', c) = m_chunks - Cardinality(alloc.dirty) - 1
      /\ \A h \in Handle \ alloc.dirty : h # c => Ahead(alloc', h) >= Ahead(alloc, h) - 1
  BY <1>0, <1>1, <1>4, RingTurns
<1>8. \A h : Ahead(alloc, h) \in Nat /\ Ahead(alloc', h) \in Nat
  BY <1>0, <1>6, BeforeFinite
<1> HIDE DEF c
<1>9. /\ content' \in [Handle -> Msg \cup {Null}] /\ content'[c] = m
      /\ \A h \in Handle : h # c => content'[h] = content[h]
  BY <1>0, <1>1, <1>5 DEF TypeOK
<1>10. /\ TypeOK' /\ CountersAgree' /\ ModesOK'
       /\ PlaceOK' /\ NamesDiffer' /\ Room'
       /\ DOMAIN outbox = 1 .. n /\ DOMAIN outbox' = 1 .. n + 1
       /\ \A j \in 1 .. n : outbox'[j] = outbox[j]
       /\ outbox'[n + 1].msg = m /\ outbox'[n + 1].buf = c
       /\ Len(outbox') = n + 1 /\ n \in Nat /\ n < MaxPerTick
  BY <1>0, <1>1, <1>5, <1>6, <1>9, CreatedIInv
<1> HIDE DEF n
<1>11. Tracked'
  <2>1. \A f \in flight : f.buf \in alloc.registered /\ f.buf \in Handle /\ f.buf # c
    BY <1>0, <1>5, DirtyFinite DEF RankInv, Tracked, Agree
  <2> QED
    BY <1>0, <1>1, <1>6, <1>9, <2>1 DEF RankInv, Tracked
<1>12. \A j \in 1 .. n + 1 : j \in 1 .. n \/ j = n + 1
  BY <1>10
<1>13. ASSUME NEW j \in 1 .. n, outbox[j].buf # Null
       PROVE  /\ outbox[j].buf \in Handle \ alloc.dirty /\ content[outbox[j].buf] = outbox[j].msg
              /\ Ahead(alloc, outbox[j].buf) >= MaxPerTick - n + (j - 1) /\ outbox[j].buf # c
  <2>1. outbox[j] \in Entry
    BY <1>0, <1>10 DEF TypeOK
  <2>2. /\ outbox[j].buf \notin alloc.dirty /\ content[outbox[j].buf] = outbox[j].msg
        /\ Ahead(alloc, outbox[j].buf) >= MaxPerTick - n + (j - 1)
    BY <1>0, <1>1, <1>10, <1>13 DEF RankInv, BuffersOK, RingTurnsLate, NotPosted, n
  <2>3. Ahead(alloc, outbox[j].buf) > 0
    BY <1>2, <1>8, <1>10, <2>2
  <2> QED
    BY <1>7, <1>13, <2>1, <2>2, <2>3 DEF Entry
<1>14. BuffersOK'
  <2>1. ASSUME NEW j \in 1 .. n + 1, outbox'[j].buf # Null
        PROVE  content'[outbox'[j].buf] = outbox'[j].msg /\ outbox'[j].buf \notin alloc'.dirty
    <3>1. CASE j = n + 1
      BY <1>5, <1>6, <1>9, <1>10, <3>1
    <3>2. CASE j \in 1 .. n
      BY <1>6, <1>9, <1>10, <1>13, <2>1, <3>2
    <3> QED
      BY <1>12, <3>1, <3>2
  <2> QED
    BY <1>1, <1>10, <2>1 DEF BuffersOK
<1>15. RingTurnsLate'
  <2>1. ASSUME NEW j \in 1 .. n + 1, outbox'[j].buf # Null
        PROVE  Ahead(alloc', outbox'[j].buf) >= MaxPerTick - (n + 1) + (j - 1)
    <3>1. CASE j = n + 1
      BY <1>2, <1>3, <1>7, <1>10, <3>1, Circle
    <3>2. CASE j \in 1 .. n
      <4>1. outbox'[j] = outbox[j]
        BY <1>10, <3>2
      <4>2. /\ Ahead(alloc', outbox[j].buf) >= Ahead(alloc, outbox[j].buf) - 1
            /\ Ahead(alloc, outbox[j].buf) >= MaxPerTick - n + (j - 1)
        BY <1>7, <1>13, <2>1, <3>2, <4>1
      <4> QED
        BY <1>2, <1>8, <1>10, <3>2, <4>1, <4>2
    <3> QED
      BY <1>12, <3>1, <3>2
  <2> QED
    BY <1>1, <1>10, <2>1 DEF RingTurnsLate
<1> QED
  BY <1>10, <1>11, <1>14, <1>15 DEF IInv, RankInv

LEMMA CreateEmptyIInv ==
  ASSUME IInv, NEW m \in Msg, CreateEmpty(m)
  PROVE  IInv'
<1> DEFINE n == Len(outbox)
<1>0. TypeOK /\ ByRank /\ RankInv /\ alloc \in Allocator /\ Agree(alloc)
  BY DEF IInv, CreateEmpty, InMode, ByRank, TypeOK, CountersAgree, Agree
<1>1. /\ phase = "work" /\ MayCreate(m)
      /\ outbox' = Append(outbox, [msg |-> m, buf |-> Null])
      /\ UNCHANGED <<m_miniRanksAreEnabled, alloc, content, request, flight, phase, index>>
  BY DEF CreateEmpty, InMode
<1>2. content' \in [Handle -> Msg \cup {Null}]
  BY <1>0, <1>1 DEF TypeOK
<1>3. /\ TypeOK' /\ CountersAgree' /\ ModesOK'
      /\ PlaceOK' /\ NamesDiffer' /\ Room'
      /\ DOMAIN outbox = 1 .. n /\ DOMAIN outbox' = 1 .. n + 1
      /\ \A j \in 1 .. n : outbox'[j] = outbox[j]
      /\ outbox'[n + 1].msg = m /\ outbox'[n + 1].buf = Null
      /\ Len(outbox') = n + 1 /\ n \in Nat /\ n < MaxPerTick
  BY <1>0, <1>1, <1>2, CreatedIInv
<1>4. \A j \in 1 .. n + 1 : outbox'[j].buf # Null => j \in 1 .. n
  BY <1>3
<1>5. Tracked'
  BY <1>0, <1>1 DEF RankInv, Tracked
<1>6. BuffersOK'
  BY <1>0, <1>1, <1>3, <1>4 DEF RankInv, BuffersOK, NotPosted
<1>7. RingTurnsLate'
  <2>1. MaxPerTick \in Nat
    BY <1>0, Sizing
  <2>2. ASSUME NEW j \in 1 .. n + 1, outbox'[j].buf # Null
        PROVE  Ahead(alloc, outbox'[j].buf) >= MaxPerTick - (n + 1) + (j - 1)
    <3>1. j \in 1 .. n /\ outbox'[j] = outbox[j]
      BY <1>3, <1>4, <2>2
    <3>2. Ahead(alloc, outbox[j].buf) >= MaxPerTick - n + (j - 1)
      BY <1>0, <1>1, <1>3, <2>2, <3>1 DEF RankInv, RingTurnsLate
    <3>3. Ahead(alloc, outbox[j].buf) \in Nat
      BY <1>0, BeforeFinite
    <3> QED
      BY <1>3, <2>1, <3>1, <3>2, <3>3
  <2> QED
    BY <1>1, <1>3, <2>2 DEF RingTurnsLate
<1> QED
  BY <1>3, <1>5, <1>6, <1>7 DEF IInv, RankInv

LEMMA SendBeginIInv ==
  ASSUME IInv, SendBegin
  PROVE  IInv'
<1>0. TypeOK /\ CountersAgree /\ ByRank /\ RankInv
  BY DEF IInv, SendBegin, InMode, ByRank
<1>1. /\ phase = "work" /\ outbox # << >> /\ phase' = "copy" /\ index' = 1
      /\ UNCHANGED <<m_miniRanksAreEnabled, alloc, content, outbox, request, flight>>
  BY DEF SendBegin, InMode
<1>2. outbox \in Seq(Entry) /\ Len(outbox) \in Nat /\ Len(outbox) >= 1 /\ DOMAIN outbox = 1 .. Len(outbox)
  BY <1>0, <1>1 DEF TypeOK
<1>3. TypeOK' /\ CountersAgree' /\ ModesOK'
  BY <1>0, <1>1 DEF TypeOK, CountersAgree, ModesOK, ByRank
<1>4. PlaceOK'
  BY <1>0, <1>1, <1>2 DEF RankInv, PlaceOK
<1>5. NamesDiffer'
  BY <1>0, <1>1 DEF RankInv, NamesDiffer, NotPosted, InFlight
<1>6. Tracked' /\ Room'
  BY <1>0, <1>1 DEF RankInv, Tracked, Room, Remaining
<1>7. BuffersOK'
  BY <1>0, <1>1, <1>2 DEF RankInv, BuffersOK, NotPosted
<1>8. RingTurnsLate'
  <2>1. ASSUME NEW j \in 1 .. Len(outbox), outbox[j].buf # Null
        PROVE  Ahead(alloc, outbox[j].buf) >= j - 1
    <3>1. Ahead(alloc, outbox[j].buf) >= MaxPerTick - Len(outbox) + (j - 1)
      BY <1>0, <1>1, <1>2, <2>1 DEF RankInv, RingTurnsLate
    <3>2. Ahead(alloc, outbox[j].buf) \in Nat
      BY <1>0, BeforeFinite DEF TypeOK
    <3>3. MaxPerTick \in Nat /\ Len(outbox) <= MaxPerTick
      BY <1>0, Sizing DEF RankInv, PlaceOK
    <3> QED
      BY <1>2, <3>1, <3>2, <3>3
  <2> QED
    BY <1>1, <1>2, <2>1 DEF RingTurnsLate
<1> QED
  BY <1>3, <1>4, <1>5, <1>6, <1>7, <1>8 DEF IInv, RankInv

\* The outbox with one message moved to another buffer.
LEMMA Moved ==
  ASSUME NEW q \in Seq(Entry), NEW i \in DOMAIN q, NEW b \in Handle, NEW r,
         r = [q EXCEPT ![i] = [q[i] EXCEPT !.buf = b]]
  PROVE  /\ r \in Seq(Entry) /\ Len(r) = Len(q) /\ Len(q) \in Nat
         /\ DOMAIN q = 1 .. Len(q) /\ DOMAIN r = 1 .. Len(q)
         /\ \A j \in 1 .. Len(q) : r[j].msg = q[j].msg
         /\ \A j \in 1 .. Len(q) : j # i => r[j] = q[j]
         /\ r[i].buf = b
<1>1. q[i] \in Entry /\ Len(q) \in Nat /\ DOMAIN q = 1 .. Len(q)
  OBVIOUS
<1> DEFINE e == [q[i] EXCEPT !.buf = b]
<1>2. e \in Entry /\ e.msg = q[i].msg /\ e.buf = b
  BY <1>1 DEF Entry
<1>3. r = [q EXCEPT ![i] = e]
  OBVIOUS
<1> HIDE DEF e
<1>4. r \in Seq(Entry) /\ Len(r) = Len(q) /\ DOMAIN r = 1 .. Len(q)
  BY <1>2, <1>3
<1>5. \A j \in 1 .. Len(q) : r[j] = IF j = i THEN e ELSE q[j]
  BY <1>1, <1>3
<1> QED
  BY <1>1, <1>2, <1>4, <1>5

\* The copy at place index goes to a buffer that no message needs any more.
LEMMA CopyToNewBufferIInv ==
  ASSUME IInv, CopyToNewBuffer
  PROVE  IInv'
<1> DEFINE c == chosen(alloc)
           old == outbox[index].buf
           n == Len(outbox)
<1>0. TypeOK /\ CountersAgree /\ ByRank /\ RankInv /\ alloc \in Allocator /\ Agree(alloc)
  BY DEF IInv, CopyToNewBuffer, InMode, ByRank, TypeOK, CountersAgree, Agree
<1>1. /\ phase = "copy"
      /\ alloc' = allocate(alloc)
      /\ content' = [content EXCEPT ![c] = IF old = Null THEN outbox[index].msg ELSE content[old]]
      /\ outbox' = [outbox EXCEPT ![index].buf = c]
      /\ UNCHANGED <<m_miniRanksAreEnabled, request, flight>>
      /\ \/ index = n /\ phase' = "sweep" /\ index' = 1
         \/ index # n /\ phase' = "copy" /\ index' = index + 1
  BY DEF CopyToNewBuffer, InMode
<1>2. MaxPerTick \in Nat /\ MaxPerTick >= 1 /\ n <= MaxPerTick
  BY <1>0, Sizing DEF RankInv, PlaceOK
<1>3. Cardinality(alloc.dirty) \in Nat /\ Cardinality(alloc.dirty) + MaxPerTick <= m_chunks
  <2>1. Cardinality(alloc.dirty) \in Nat
    BY <1>0, DirtyFinite
  <2>2. Cardinality(alloc.dirty) + MaxPerTick + 0 <= m_chunks
    BY <1>0, <1>1 DEF RankInv, Room
  <2> QED
    BY <1>2, <2>1, <2>2
<1>4. alloc.dirty # Handle
  BY <1>2, <1>3, Circle
<1>5. c \in Handle /\ c \notin alloc.dirty
  BY <1>0, <1>4, Chosen
<1>6. /\ alloc' \in Allocator /\ Agree(alloc') /\ alloc'.dirty = alloc.dirty
      /\ alloc'.registered = alloc.registered
  BY <1>0, <1>1, AllocateAgrees
<1>7. /\ Ahead(alloc, c) = 0
      /\ Ahead(alloc', c) = m_chunks - Cardinality(alloc.dirty) - 1
      /\ \A h \in Handle \ alloc.dirty : h # c => Ahead(alloc', h) >= Ahead(alloc, h) - 1
  BY <1>0, <1>1, <1>4, RingTurns
<1>8. \A h : Ahead(alloc, h) \in Nat /\ Ahead(alloc', h) \in Nat
  BY <1>0, <1>6, BeforeFinite
<1> HIDE DEF c
<1>9. outbox \in Seq(Entry) /\ index \in 1 .. n /\ index \in DOMAIN outbox
  BY <1>0, <1>1 DEF TypeOK, RankInv, PlaceOK
<1>10. /\ outbox' \in Seq(Entry) /\ Len(outbox') = n /\ n \in Nat
       /\ DOMAIN outbox = 1 .. n /\ DOMAIN outbox' = 1 .. n
       /\ \A j \in 1 .. n : outbox'[j].msg = outbox[j].msg
       /\ \A j \in 1 .. n : j # index => outbox'[j] = outbox[j]
       /\ outbox'[index].buf = c
  <2>1. outbox' = [outbox EXCEPT ![index] = [outbox[index] EXCEPT !.buf = c]]
    BY <1>1
  <2> QED
    BY <1>5, <1>9, <2>1, Moved
<1>11. ASSUME NEW j \in 1 .. n, outbox[j].buf # Null
       PROVE  /\ outbox[j].buf \in Handle \ alloc.dirty /\ content[outbox[j].buf] = outbox[j].msg
              /\ Ahead(alloc, outbox[j].buf) >= IF j < index THEN n - index + 1 ELSE j - index
              /\ j # index => outbox[j].buf # c
  <2>1. outbox[j] \in Entry
    BY <1>9, <1>10
  <2>2. outbox[j].buf \notin alloc.dirty /\ content[outbox[j].buf] = outbox[j].msg
    BY <1>0, <1>1, <1>10, <1>11 DEF RankInv, BuffersOK, NotPosted
  <2>3. Ahead(alloc, outbox[j].buf) >= IF j < index THEN n - index + 1 ELSE j - index
    BY <1>0, <1>1, <1>10, <1>11 DEF RankInv, RingTurnsLate
  <2>4. j # index => Ahead(alloc, outbox[j].buf) > 0
    BY <1>8, <1>9, <1>10, <2>3
  <2> QED
    BY <1>7, <1>11, <2>1, <2>2, <2>3, <2>4 DEF Entry
<1>12. outbox[index].msg \in Msg
  <2>1. outbox[index] \in Entry
    BY <1>9
  <2> QED
    BY <2>1 DEF Entry
<1>13. (IF old = Null THEN outbox[index].msg ELSE content[old]) = outbox[index].msg
  BY <1>9, <1>11
<1>14. /\ content' \in [Handle -> Msg \cup {Null}] /\ content'[c] = outbox[index].msg
       /\ \A h \in Handle : h # c => content'[h] = content[h]
  <2>1. content' = [content EXCEPT ![c] = outbox[index].msg]
    BY <1>1, <1>13
  <2> HIDE DEF old
  <2> QED
    BY <1>0, <1>5, <1>12, <2>1 DEF TypeOK
<1> HIDE DEF n, old
<1>15. phase' \in {"sweep", "copy"} /\ index' \in 1 .. n /\ (phase' = "sweep" => index' = 1)
  BY <1>1, <1>9, <1>10
<1>16. TypeOK'
  BY <1>0, <1>1, <1>6, <1>10, <1>14, <1>15 DEF TypeOK
<1>17. CountersAgree' /\ ModesOK'
  BY <1>0, <1>1, <1>6 DEF CountersAgree, Agree, ModesOK, ByRank
<1>18. PlaceOK'
  BY <1>2, <1>10, <1>15 DEF PlaceOK
<1>19. NamesDiffer'
  <2>1. InFlight' = InFlight /\ request' = request
    BY <1>1 DEF InFlight
  <2>2. \A j \in 1 .. n : NotPosted(j)
    BY <1>1 DEF NotPosted
  <2> QED
    BY <1>0, <1>10, <2>1, <2>2 DEF RankInv, NamesDiffer
<1>20. Tracked'
  <2>1. \A f \in flight : f.buf \in alloc.registered /\ f.buf \in Handle /\ f.buf # c
    BY <1>0, <1>5, DirtyFinite DEF RankInv, Tracked, Agree
  <2> QED
    BY <1>0, <1>1, <1>6, <1>14, <2>1 DEF RankInv, Tracked
<1>21. Room'
  <2>1. Remaining' = Remaining /\ Remaining = n
    BY <1>1, <1>10, <1>15 DEF Remaining, n
  <2> QED
    BY <1>0, <1>1, <1>6, <1>15, <2>1 DEF RankInv, Room
<1>22. BuffersOK'
  <2>1. ASSUME NEW j \in 1 .. n, outbox'[j].buf # Null
        PROVE  content'[outbox'[j].buf] = outbox'[j].msg /\ outbox'[j].buf \notin alloc'.dirty
    <3>1. CASE j = index
      BY <1>5, <1>6, <1>10, <1>14, <3>1
    <3>2. CASE j # index
      BY <1>6, <1>10, <1>11, <1>14, <2>1, <3>2
    <3> QED
      BY <3>1, <3>2
  <2>2. \A j \in 1 .. n : (phase' = "sweep" \/ j < index') => j <= index
    BY <1>1, <1>9, <1>10 DEF n
  <2>3. ASSUME NEW j \in 1 .. n, j <= index PROVE outbox'[j].buf # Null
    <3>1. CASE j = index
      BY <1>5, <1>10, <3>1, NullAssumption
    <3>2. CASE j # index
      BY <1>0, <1>1, <1>9, <1>10, <2>3, <3>2 DEF RankInv, BuffersOK
    <3> QED
      BY <3>1, <3>2
  <2>4. ASSUME NEW j \in 1 .. n, j <= index, NEW k \in 1 .. n, k <= index, outbox'[k].buf = outbox'[j].buf
        PROVE  k = j
    <3>1. CASE j # index /\ k # index
      BY <1>0, <1>1, <1>9, <1>10, <2>4, <3>1 DEF RankInv, BuffersOK
    <3>2. CASE j = index /\ k # index
      BY <1>10, <1>11, <2>3, <2>4, <3>2
    <3>3. CASE j # index /\ k = index
      BY <1>10, <1>11, <2>3, <2>4, <3>3
    <3> QED
      BY <3>1, <3>2, <3>3
  <2> QED
    BY <1>10, <1>15, <2>1, <2>2, <2>3, <2>4 DEF BuffersOK
<1>23. RingTurnsLate'
  <2>1. ASSUME NEW j \in 1 .. n, outbox'[j].buf # Null, phase' = "copy"
        PROVE  Ahead(alloc', outbox'[j].buf) >= IF j < index' THEN n - index' + 1 ELSE j - index'
    <3>0. index' = index + 1 /\ index < n /\ n <= MaxPerTick
      BY <1>1, <1>2, <1>9, <1>10, <2>1 DEF n
    <3>1. CASE j = index
      <4>1. Ahead(alloc', outbox'[j].buf) >= MaxPerTick - 1
        BY <1>2, <1>3, <1>7, <1>10, <3>1, Circle
      <4>2. Ahead(alloc', outbox'[j].buf) \in Nat
        BY <1>8
      <4> QED
        BY <1>2, <1>9, <1>10, <3>0, <3>1, <4>1, <4>2
    <3>2. CASE j # index
      <4>1. outbox'[j] = outbox[j]
        BY <1>10, <3>2
      <4>2. /\ Ahead(alloc', outbox[j].buf) >= Ahead(alloc, outbox[j].buf) - 1
            /\ Ahead(alloc, outbox[j].buf) >= IF j < index THEN n - index + 1 ELSE j - index
        BY <1>7, <1>11, <2>1, <3>2, <4>1
      <4>3. Ahead(alloc', outbox[j].buf) \in Nat /\ Ahead(alloc, outbox[j].buf) \in Nat
        BY <1>8
      <4> QED
        BY <1>9, <1>10, <3>0, <3>2, <4>1, <4>2, <4>3
    <3> QED
      BY <3>1, <3>2
  <2> QED
    BY <1>10, <1>15, <2>1 DEF RingTurnsLate
<1> QED
  BY <1>16, <1>17, <1>18, <1>19, <1>20, <1>21, <1>22, <1>23 DEF IInv, RankInv

\* A dirty buffer whose request has not completed is the buffer of a send that is
\* under way, so there are no more of them than sends.
LEMMA SweptEnough ==
  ASSUME TypeOK, NamesDiffer, Tracked, IsFiniteSet(flight)
  PROVE  Cardinality(alloc.dirty \ Completed) <= Cardinality(flight)
<1> DEFINE T == { f.buf : f \in flight }
           F == [f \in flight |-> f.buf]
<1>1. F \in Surjection(flight, T)
  BY DEF Surjection
<1>2. IsFiniteSet(T) /\ Cardinality(T) <= Cardinality(flight)
  <2> HIDE DEF F, T
  <2> QED
    BY <1>1, FS_Surjection
<1>3. ASSUME NEW h \in alloc.dirty \ Completed PROVE h \in T
  <2>1. h \in Handle /\ request[h] \in InFlight
    BY DirtyFinite DEF TypeOK, Completed, MPI_Test
  <2>2. PICK f \in flight : f.msg = request[h]
    BY <2>1 DEF InFlight
  <2>3. f.msg \in Msg /\ f.msg # Null
    BY NullAssumption DEF TypeOK, Entry
  <2>4. f.buf \in Handle /\ request[f.buf] = f.msg
    BY DirtyFinite DEF TypeOK, Tracked
  <2>5. f.buf = h
    BY <2>1, <2>2, <2>3, <2>4 DEF NamesDiffer
  <2> QED
    BY <2>5
<1>4. alloc.dirty \ Completed \in SUBSET T
  BY <1>3
<1>5. Cardinality(alloc.dirty \ Completed) <= Cardinality(T)
  <2> HIDE DEF T
  <2> QED
    BY <1>2, <1>4, FS_Subset
<1>6. IsFiniteSet(alloc.dirty \ Completed)
  BY <1>2, <1>4, FS_Subset
<1>7. Cardinality(alloc.dirty \ Completed) \in Nat /\ Cardinality(T) \in Nat /\ Cardinality(flight) \in Nat
  BY <1>2, <1>6, FS_CardinalityType
<1> QED
  BY <1>2, <1>5, <1>7

\* What the cleaning of the ring does for both senders.
LEMMA Cleaned ==
  ASSUME IInv, Clean
  PROVE  /\ alloc' \in Allocator /\ Agree(alloc')
         /\ alloc'.dirty \subseteq alloc.dirty /\ alloc.dirty \ Completed \subseteq alloc'.dirty
         /\ \/ alloc' = alloc /\ Cardinality(alloc.dirty) < m_minimumNumberOfDirtyBuffersForSweep
            \/ alloc'.dirty = alloc.dirty \ Completed
         /\ request' \in [Handle -> Msg \cup {Null}]
         /\ \A h \in Handle : request'[h] = IF h \in alloc'.registered THEN request[h] ELSE Null
<1>1. alloc \in Allocator /\ Agree(alloc) /\ request \in [Handle -> Msg \cup {Null}]
  BY DEF IInv, TypeOK, CountersAgree, Agree
<1>2. /\ alloc' = cleanDirtyBuffers(alloc, Completed)
      /\ request' = [h \in Handle |-> IF h \in alloc'.registered THEN request[h] ELSE Null]
  BY DEF Clean
<1> QED
  BY <1>1, <1>2, CleanAgrees

LEMMA SweepIInv ==
  ASSUME IInv, Sweep
  PROVE  IInv'
<1> DEFINE n == Len(outbox)
<1>0. TypeOK /\ ByRank /\ RankInv /\ Agree(alloc)
  BY DEF IInv, Sweep, InMode, ByRank, CountersAgree, Agree
<1>1. /\ phase = "sweep" /\ phase' = "isend" /\ Clean
      /\ UNCHANGED <<m_miniRanksAreEnabled, content, outbox, flight, index>>
  BY DEF Sweep, InMode
<1>2. /\ alloc' \in Allocator /\ Agree(alloc')
      /\ alloc'.dirty \subseteq alloc.dirty /\ alloc.dirty \ Completed \subseteq alloc'.dirty
      /\ \/ alloc' = alloc /\ Cardinality(alloc.dirty) < m_minimumNumberOfDirtyBuffersForSweep
         \/ alloc'.dirty = alloc.dirty \ Completed
      /\ request' \in [Handle -> Msg \cup {Null}]
      /\ \A h \in Handle : request'[h] = IF h \in alloc'.registered THEN request[h] ELSE Null
  BY <1>1, Cleaned
<1>3. outbox \in Seq(Entry) /\ n \in Nat /\ DOMAIN outbox = 1 .. n /\ index = 1 /\ index \in 1 .. n
  BY <1>0, <1>1 DEF TypeOK, RankInv, PlaceOK
<1>4. \A j \in 1 .. n : outbox[j].msg \in Msg /\ outbox[j].msg # Null
  <2>1. \A j \in 1 .. n : outbox[j] \in Entry
    BY <1>3
  <2> QED
    BY <2>1, NullAssumption DEF Entry
<1>5. TypeOK' /\ CountersAgree' /\ ModesOK'
  BY <1>0, <1>1, <1>2 DEF TypeOK, CountersAgree, Agree, ModesOK, ByRank
<1>6. PlaceOK'
  BY <1>0, <1>1, <1>3 DEF RankInv, PlaceOK
<1>7. NamesDiffer'
  <2>1. InFlight' = InFlight
    BY <1>1 DEF InFlight
  <2>2. \A j \in 1 .. n : outbox[j].msg \notin InFlight /\ \A h \in Handle : request'[h] # outbox[j].msg
    BY <1>0, <1>1, <1>2, <1>3, <1>4 DEF RankInv, NamesDiffer, NotPosted
  <2>3. \A g, h \in Handle : request'[g] = request'[h] /\ request'[g] # Null => g = h
    BY <1>0, <1>2 DEF RankInv, NamesDiffer
  <2> QED
    BY <1>0, <1>1, <1>3, <2>1, <2>2, <2>3 DEF RankInv, NamesDiffer
<1>8. Tracked'
  <2>1. ASSUME NEW f \in flight
        PROVE  f.buf \in alloc'.registered /\ request'[f.buf] = f.msg /\ content'[f.buf] = f.msg
    <3>1. f.buf \in alloc.registered /\ f.buf \in Handle /\ request[f.buf] = f.msg /\ content[f.buf] = f.msg
      BY <1>0, DirtyFinite DEF RankInv, Tracked, TypeOK
    <3>2. f.buf \notin Completed
      BY <3>1 DEF Completed, MPI_Test, InFlight
    <3> QED
      BY <1>0, <1>1, <1>2, <3>1, <3>2 DEF Agree
  <2> QED
    BY <1>1, <2>1 DEF Tracked
<1>9. Room'
  <2>1. /\ Remaining' = n /\ Remaining = n /\ n <= MaxPerTick /\ IsFiniteSet(flight)
        /\ Cardinality(flight) + n <= MaxOutstanding
    BY <1>0, <1>1, <1>3 DEF RankInv, PlaceOK, Room, Remaining
  <2>2. /\ MaxPerTick \in Nat /\ MaxOutstanding \in Nat /\ m_chunks \in Nat
        /\ MaxOutstanding + MaxPerTick <= m_chunks
        /\ m_minimumNumberOfDirtyBuffersForSweep - 1 + 2 * MaxPerTick <= m_chunks
        /\ m_minimumNumberOfDirtyBuffersForSweep \in Int
    BY <1>0, Sizing, Circle
  <2>3. Cardinality(flight) \in Nat /\ Cardinality(alloc'.dirty) \in Nat
    BY <1>2, <2>1, DirtyFinite, FS_CardinalityType
  <2>4. \/ Cardinality(alloc'.dirty) < m_minimumNumberOfDirtyBuffersForSweep
        \/ Cardinality(alloc'.dirty) <= Cardinality(flight)
    BY <1>0, <1>2, <2>1, SweptEnough DEF RankInv
  <2>5. Cardinality(alloc'.dirty) + MaxPerTick + n <= m_chunks
    BY <1>3, <2>1, <2>2, <2>3, <2>4
  <2> QED
    BY <1>1, <2>1, <2>5 DEF Room
<1>10. BuffersOK'
  BY <1>0, <1>1, <1>2, <1>3 DEF RankInv, BuffersOK, NotPosted
<1>11. RingTurnsLate'
  BY <1>1 DEF RingTurnsLate
<1> QED
  BY <1>5, <1>6, <1>7, <1>8, <1>9, <1>10, <1>11 DEF IInv, RankInv

\* A message that is posted is in a buffer that is not dirty, so that it is
\* registered, and its request is the one that the sweeps will test.
LEMMA IsendIInv ==
  ASSUME IInv, Isend
  PROVE  IInv'
<1> DEFINE x == outbox[index]
           n == Len(outbox)
<1>0. TypeOK /\ ByRank /\ RankInv /\ alloc \in Allocator /\ Agree(alloc)
  BY DEF IInv, Isend, InMode, ByRank, TypeOK, CountersAgree, Agree
<1>1. phase = "isend"
  BY DEF Isend
<1>2. outbox \in Seq(Entry) /\ n \in Nat /\ DOMAIN outbox = 1 .. n /\ index \in 1 .. n
  BY <1>0, <1>1 DEF TypeOK, RankInv, PlaceOK
<1>3. x \in Entry
  BY <1>2
<1>4. x.msg \in Msg /\ x.msg # Null /\ x.buf \in Handle /\ x.buf \notin alloc.dirty /\ content[x.buf] = x.msg
  <2>1. x.buf # Null /\ x.buf \notin alloc.dirty /\ content[x.buf] = x.msg
    BY <1>0, <1>1, <1>2 DEF RankInv, BuffersOK, NotPosted
  <2> QED
    BY <1>3, <2>1, NullAssumption DEF Entry
<1>5. x.buf \notin alloc.registered
  BY <1>0, <1>4 DEF Agree
<1>6. /\ alloc' = registerBuffer(alloc, x.buf)
      /\ request' = [request EXCEPT ![x.buf] = x.msg]
      /\ flight' = flight \cup {x}
      /\ UNCHANGED <<m_miniRanksAreEnabled, content>>
      /\ \/ index = n /\ phase' = "work" /\ index' = 1 /\ outbox' = << >>
         \/ index # n /\ phase' = "isend" /\ index' = index + 1 /\ outbox' = outbox
  BY <1>5 DEF Isend, InMode
<1> HIDE DEF x
<1>7. /\ alloc' \in Allocator /\ Agree(alloc')
      /\ alloc'.dirty = alloc.dirty \cup {x.buf} /\ alloc'.registered = alloc.registered \cup {x.buf}
      /\ Cardinality(alloc'.dirty) = Cardinality(alloc.dirty) + 1
  <2>1. PICK h \in Handle : h = x.buf /\ h \notin alloc.registered
    BY <1>4, <1>5
  <2>2. alloc' = registerBuffer(alloc, h)
    BY <1>6, <2>1
  <2>3. /\ alloc' \in Allocator /\ Agree(alloc')
        /\ alloc'.dirty = alloc.dirty \cup {h} /\ alloc'.registered = alloc.registered \cup {h}
        /\ Cardinality(alloc.dirty \cup {h}) = Cardinality(alloc.dirty) + 1
    BY <1>0, <2>1, <2>2, RegisterAgrees
  <2> QED
    BY <2>1, <2>3
<1>8. /\ request' \in [Handle -> Msg \cup {Null}] /\ request'[x.buf] = x.msg
      /\ \A h \in Handle : h # x.buf => request'[h] = request[h]
  BY <1>0, <1>4, <1>6 DEF TypeOK
<1>9. /\ outbox' \in Seq(Entry) /\ DOMAIN outbox' \subseteq 1 .. n
      /\ \A j \in DOMAIN outbox' : outbox'[j] = outbox[j] /\ phase' = "isend" /\ index' = index + 1 /\ outbox' = outbox
  <2>1. << >> \in Seq(Entry) /\ DOMAIN << >> = {}
    OBVIOUS
  <2>2. CASE index = n
    BY <1>6, <2>1, <2>2
  <2>3. CASE index # n
    BY <1>2, <1>6, <2>3
  <2> QED
    BY <2>2, <2>3
<1>10. TypeOK'
  <2>1. m_miniRanksAreEnabled' \in Modes /\ content' \in [Handle -> Msg \cup {Null}]
    BY <1>0, <1>6 DEF TypeOK
  <2>2. flight' \subseteq Entry
    BY <1>0, <1>3, <1>6 DEF TypeOK
  <2>3. phase' \in {"work", "copy", "sweep", "isend"} /\ index' \in Nat
    <3>1. index \in Nat
      BY <1>2
    <3>2. CASE index = n
      <4>1. phase' = "work" /\ index' = 1
        BY <1>6, <3>2
      <4> QED
        BY <4>1
    <3>3. CASE index # n
      <4>1. phase' = "isend" /\ index' = index + 1
        BY <1>6, <3>3
      <4> QED
        BY <3>1, <4>1
    <3> QED
      BY <3>2, <3>3
  <2> QED
    BY <1>7, <1>8, <1>9, <2>1, <2>2, <2>3 DEF TypeOK
<1>11. CountersAgree' /\ ModesOK'
  BY <1>0, <1>6, <1>7 DEF CountersAgree, Agree, ModesOK, ByRank
<1>12. PlaceOK'
  <2>1. MaxPerTick \in Nat /\ n <= MaxPerTick
    BY <1>0, Sizing DEF RankInv, PlaceOK
  <2>2. CASE index = n
    <3>1. Len(outbox') = 0 /\ phase' = "work" /\ index' = 1
      BY <1>6, <2>2
    <3> QED
      BY <2>1, <3>1 DEF PlaceOK
  <2>3. CASE index # n
    <3>1. Len(outbox') = n /\ phase' = "isend" /\ index' \in 1 .. n
      <4>1. outbox' = outbox /\ phase' = "isend" /\ index' = index + 1
        BY <1>6, <2>3
      <4>2. index + 1 \in 1 .. n
        <5>1. n \in Nat /\ index \in 1 .. n
          BY <1>2
        <5> HIDE DEF n
        <5> QED
          BY <2>3, <5>1
      <4> QED
        BY <4>1, <4>2
    <3> QED
      BY <2>1, <3>1 DEF PlaceOK
  <2> QED
    BY <2>2, <2>3
<1>13. ASSUME NEW j \in 1 .. n, j >= index
       PROVE  outbox[j].msg \notin InFlight /\ \A h \in Handle : request[h] # outbox[j].msg
  BY <1>0, <1>1, <1>2, <1>13 DEF RankInv, NamesDiffer, NotPosted
<1>14. x.msg \notin InFlight /\ \A h \in Handle : request[h] # x.msg
  <2>1. index >= index
    BY <1>2
  <2> QED
    BY <1>2, <1>13, <2>1 DEF x
<1>15. NamesDiffer'
  <2>1. InFlight' = InFlight \cup {x.msg}
    BY <1>6 DEF InFlight
  <2>2. \A j, k \in DOMAIN outbox' : outbox'[j].msg = outbox'[k].msg => j = k
    BY <1>0, <1>2, <1>9 DEF RankInv, NamesDiffer
  <2>3. ASSUME NEW j \in DOMAIN outbox', NotPosted(j)'
        PROVE  outbox'[j].msg \notin InFlight' /\ \A h \in Handle : request'[h] # outbox'[j].msg
    <3>1. j \in 1 .. n /\ j > index /\ outbox'[j] = outbox[j]
      BY <1>2, <1>9, <2>3 DEF NotPosted
    <3>2. outbox[j].msg # x.msg
      BY <1>0, <1>2, <3>1 DEF RankInv, NamesDiffer, x
    <3>3. j >= index
      BY <1>2, <3>1
    <3> QED
      BY <1>8, <1>13, <2>1, <3>1, <3>2, <3>3
  <2>4. ASSUME NEW g \in Handle, NEW h \in Handle, request'[g] = request'[h], request'[g] # Null
        PROVE  g = h
    BY <1>0, <1>8, <1>14, <2>4 DEF RankInv, NamesDiffer
  <2> QED
    BY <2>2, <2>3, <2>4 DEF NamesDiffer
<1>16. Tracked'
  <2>1. ASSUME NEW f \in flight
        PROVE  f.buf \in alloc'.registered /\ request'[f.buf] = f.msg /\ content'[f.buf] = f.msg
    <3>1. f.buf \in alloc.registered /\ f.buf \in Handle /\ request[f.buf] = f.msg /\ content[f.buf] = f.msg
      BY <1>0, DirtyFinite DEF RankInv, Tracked
    <3> QED
      BY <1>5, <1>6, <1>7, <1>8, <3>1
  <2>2. x.buf \in alloc'.registered /\ request'[x.buf] = x.msg /\ content'[x.buf] = x.msg
    BY <1>4, <1>6, <1>7, <1>8
  <2> QED
    BY <1>6, <2>1, <2>2 DEF Tracked
<1>17. Room'
  <2>1. /\ Remaining = n - index + 1 /\ IsFiniteSet(flight)
        /\ Cardinality(flight) + Remaining <= MaxOutstanding
        /\ Cardinality(alloc.dirty) + MaxPerTick + Remaining <= m_chunks
    BY <1>0, <1>1 DEF RankInv, Room, Remaining, n
  <2>2. Remaining' = Remaining - 1 /\ (phase' # "isend" => Remaining' = 0)
    <3>1. CASE index = n
      <4>1. Len(outbox') = 0 /\ phase' = "work"
        BY <1>6, <3>1
      <4> QED
        BY <1>2, <2>1, <3>1, <4>1 DEF Remaining
    <3>2. CASE index # n
      <4>1. Len(outbox') = n /\ phase' = "isend" /\ index' = index + 1
        BY <1>6, <3>2
      <4>2. Remaining' = n - (index + 1) + 1
        BY <4>1 DEF Remaining
      <4> QED
        BY <1>2, <2>1, <4>1, <4>2
    <3> QED
      BY <3>1, <3>2
  <2>3. IsFiniteSet(flight') /\ Cardinality(flight') \in Nat /\ Cardinality(flight) \in Nat
        /\ Cardinality(flight') <= Cardinality(flight) + 1
    <3>1. Cardinality(flight) \in Nat
      BY <2>1, FS_CardinalityType
    <3>2. /\ IsFiniteSet(flight')
          /\ Cardinality(flight') = IF x \in flight THEN Cardinality(flight) ELSE Cardinality(flight) + 1
      BY <1>6, <2>1, FS_AddElement
    <3> QED
      BY <3>1, <3>2
  <2>4. /\ MaxPerTick \in Nat /\ MaxOutstanding \in Nat /\ m_chunks \in Nat
        /\ Cardinality(alloc.dirty) \in Nat /\ Remaining \in Int
    BY <1>0, <1>2, <2>1, Sizing, Circle, DirtyFinite
  <2>5. Cardinality(flight') + Remaining' <= MaxOutstanding
    BY <2>1, <2>2, <2>3, <2>4, SMTT(30)
  <2>6. Cardinality(alloc'.dirty) + MaxPerTick + Remaining' <= m_chunks
    BY <1>7, <2>1, <2>2, <2>4
  <2>7. Cardinality(alloc'.dirty) + MaxPerTick + (IF phase' = "isend" THEN Remaining' ELSE 0) <= m_chunks
    BY <2>2, <2>6
  <2> QED
    BY <2>3, <2>5, <2>7 DEF Room
<1>18. BuffersOK'
  <2>1. ASSUME NEW j \in DOMAIN outbox'
        PROVE  /\ outbox'[j].buf # Null /\ content'[outbox'[j].buf] = outbox'[j].msg
               /\ NotPosted(j)' => outbox'[j].buf \notin alloc'.dirty
               /\ \A k \in DOMAIN outbox' : outbox'[k].buf = outbox'[j].buf => k = j
    <3>1. j \in 1 .. n /\ outbox' = outbox /\ phase' = "isend" /\ index' = index + 1
      BY <1>9
    <3>2. /\ outbox[j].buf # Null /\ content[outbox[j].buf] = outbox[j].msg
          /\ j >= index => outbox[j].buf \notin alloc.dirty
          /\ \A k \in 1 .. n : outbox[k].buf = outbox[j].buf => k = j
      BY <1>0, <1>1, <1>2, <3>1 DEF RankInv, BuffersOK, NotPosted
    <3>3. NotPosted(j)' => j > index /\ j >= index
      BY <1>2, <3>1 DEF NotPosted
    <3>4. j > index => outbox[j].buf # x.buf
      BY <1>2, <3>2 DEF x
    <3> QED
      BY <1>2, <1>6, <1>7, <3>1, <3>2, <3>3, <3>4
  <2> QED
    BY <2>1 DEF BuffersOK
<1>19. RingTurnsLate'
  BY <1>9 DEF RingTurnsLate
<1> QED
  BY <1>10, <1>11, <1>12, <1>15, <1>16, <1>17, <1>18, <1>19 DEF IInv, RankInv

------------------------------------------------------------------------------
LEMMA MiniRankPushIInv ==
  ASSUME IInv, NEW m \in Msg, MiniRankPush(m)
  PROVE  IInv'
<1> DEFINE e == [msg |-> m, buf |-> Null]
<1>0. TypeOK /\ CountersAgree /\ ModesOK
  BY DEF IInv
<1>1. /\ m_miniRanksAreEnabled = TRUE /\ outbox' = Append(outbox, e)
      /\ UNCHANGED <<m_miniRanksAreEnabled, alloc, content, request, flight, phase, index>>
  BY DEF MiniRankPush, InMode
<1>2. e \in Entry /\ e.buf = Null /\ outbox \in Seq(Entry)
  BY <1>0 DEF Entry, TypeOK
<1> HIDE DEF e
<1>3. /\ outbox' \in Seq(Entry) /\ DOMAIN outbox = 1 .. Len(outbox) /\ Len(outbox) \in Nat
      /\ DOMAIN outbox' = 1 .. Len(outbox) + 1
      /\ \A j \in 1 .. Len(outbox) : outbox'[j] = outbox[j]
      /\ outbox'[Len(outbox) + 1] = e
  BY <1>1, <1>2, Appended
<1>4. TypeOK' /\ CountersAgree'
  BY <1>0, <1>1, <1>3 DEF TypeOK, CountersAgree
<1>5. ModesOK'
  <2>1. \A j \in 1 .. Len(outbox) + 1 : j \in 1 .. Len(outbox) \/ j = Len(outbox) + 1
    BY <1>3
  <2> QED
    BY <1>0, <1>1, <1>2, <1>3, <2>1 DEF ModesOK
<1> QED
  BY <1>1, <1>4, <1>5 DEF IInv, ByRank

LEMMA SweepForMiniRankIInv ==
  ASSUME IInv, SweepForMiniRank
  PROVE  IInv'
<1>0. TypeOK /\ ModesOK
  BY DEF IInv
<1>1. /\ m_miniRanksAreEnabled = TRUE /\ phase' = "isend" /\ Clean
      /\ UNCHANGED <<m_miniRanksAreEnabled, content, outbox, flight, index>>
  BY DEF SweepForMiniRank, InMode
<1>2. alloc' \in Allocator /\ Agree(alloc') /\ request' \in [Handle -> Msg \cup {Null}]
  BY <1>1, Cleaned
<1>3. TypeOK' /\ CountersAgree' /\ ModesOK'
  BY <1>0, <1>1, <1>2 DEF TypeOK, CountersAgree, Agree, ModesOK
<1> QED
  BY <1>1, <1>3 DEF IInv, ByRank

LEMMA IsendForMiniRankIInv ==
  ASSUME IInv, IsendForMiniRank
  PROVE  IInv'
<1> DEFINE x == Head(outbox)
           c == chosen(alloc)
           a == allocate(alloc)
<1>0. TypeOK /\ ModesOK /\ alloc \in Allocator /\ Agree(alloc)
  BY DEF IInv, TypeOK, CountersAgree, Agree
<1>1. /\ m_miniRanksAreEnabled = TRUE /\ phase = "isend" /\ outbox # << >> /\ outbox' = Tail(outbox)
      /\ content' = [content EXCEPT ![c] = x.msg]
      /\ alloc' = IF c \notin alloc.registered THEN registerBuffer(a, c) ELSE a
      /\ request' = [request EXCEPT ![c] = IF c \notin alloc.registered THEN Null ELSE @]
      /\ flight' = flight \cup {[msg |-> x.msg, buf |-> c]}
      /\ UNCHANGED <<m_miniRanksAreEnabled, phase, index>>
  BY DEF IsendForMiniRank, InMode
<1>2. outbox \in Seq(Entry)
  BY <1>0 DEF TypeOK
<1>3. x \in Entry /\ outbox' \in Seq(Entry) /\ \A j \in DOMAIN outbox' : j + 1 \in DOMAIN outbox /\ outbox'[j] = outbox[j + 1]
  BY <1>1, <1>2
<1>4. c \in Handle
  BY <1>0, Chosen
<1>5. a \in Allocator /\ Agree(a) /\ a.registered = alloc.registered
  BY <1>0, AllocateAgrees
<1> HIDE DEF x, c, a
<1>6. alloc' \in Allocator /\ Agree(alloc')
  <2>1. CASE c \notin alloc.registered
    <3>1. alloc' = registerBuffer(a, c) /\ c \notin a.registered
      BY <1>1, <1>5, <2>1
    <3> QED
      BY <1>4, <1>5, <3>1, RegisterAgrees
  <2>2. CASE c \in alloc.registered
    BY <1>1, <1>5, <2>2
  <2> QED
    BY <2>1, <2>2
<1>7. /\ content' \in [Handle -> Msg \cup {Null}] /\ request' \in [Handle -> Msg \cup {Null}]
      /\ flight' \subseteq Entry
  BY <1>0, <1>1, <1>3, <1>4 DEF TypeOK, Entry
<1>8. TypeOK'
  BY <1>0, <1>1, <1>3, <1>6, <1>7 DEF TypeOK
<1>9. CountersAgree' /\ ModesOK'
  BY <1>0, <1>1, <1>3, <1>6 DEF CountersAgree, Agree, ModesOK
<1> QED
  BY <1>1, <1>8, <1>9 DEF IInv, ByRank

LEMMA ReturnForMiniRankIInv ==
  ASSUME IInv, ReturnForMiniRank
  PROVE  IInv'
<1>1. /\ m_miniRanksAreEnabled = TRUE /\ phase' = "work"
      /\ UNCHANGED <<m_miniRanksAreEnabled, alloc, content, outbox, request, flight, index>>
  BY DEF ReturnForMiniRank, InMode
<1> QED
  BY <1>1 DEF IInv, TypeOK, CountersAgree, ModesOK, ByRank

\* A send that completes takes no assumption away.
LEMMA MPI_CompleteIInv ==
  ASSUME IInv, NEW f \in flight, MPI_Complete(f)
  PROVE  IInv'
<1>1. /\ flight' = flight \ {f}
      /\ UNCHANGED <<m_miniRanksAreEnabled, alloc, content, outbox, request, phase, index>>
  BY DEF MPI_Complete
<1>2. TypeOK' /\ CountersAgree' /\ ModesOK'
  BY <1>1 DEF IInv, TypeOK, CountersAgree, ModesOK
<1>3. ASSUME ByRank PROVE RankInv'
  <2>0. RankInv
    BY <1>3 DEF IInv
  <2>1. InFlight' \subseteq InFlight
    BY <1>1 DEF InFlight
  <2>2. PlaceOK' /\ NamesDiffer'
    BY <1>1, <2>0, <2>1 DEF RankInv, PlaceOK, NamesDiffer, NotPosted
  <2>3. Tracked' /\ BuffersOK' /\ RingTurnsLate'
    BY <1>1, <2>0 DEF RankInv, Tracked, BuffersOK, RingTurnsLate, NotPosted
  <2>4. Room'
    <3>1. IsFiniteSet(flight) /\ Cardinality(flight) + Remaining <= MaxOutstanding /\ Remaining' = Remaining
      BY <1>1, <2>0 DEF RankInv, Room, Remaining
    <3>2. IsFiniteSet(flight') /\ Cardinality(flight') = Cardinality(flight) - 1 /\ Cardinality(flight) \in Nat
      BY <1>1, <3>1, FS_RemoveElement, FS_CardinalityType
    <3>3. Remaining \in Int /\ MaxOutstanding \in Nat
      BY <1>3, Sizing DEF IInv, TypeOK, Remaining
    <3>4. Cardinality(flight') + Remaining' <= MaxOutstanding
      BY <3>1, <3>2, <3>3
    <3> QED
      BY <1>1, <2>0, <3>1, <3>2, <3>4 DEF RankInv, Room
  <2> QED
    BY <2>2, <2>3, <2>4 DEF RankInv
<1> QED
  BY <1>1, <1>2, <1>3 DEF IInv, ByRank

LEMMA NextIInv == IInv /\ [Next]_vars => IInv'
<1> SUFFICES ASSUME IInv, [Next]_vars PROVE IInv'
  OBVIOUS
<1>1. CASE UNCHANGED vars
  <2>1. UNCHANGED <<m_miniRanksAreEnabled, alloc, content, outbox, request, flight, phase, index>>
    BY <1>1 DEF vars
  <2>2. TypeOK' /\ CountersAgree' /\ ModesOK'
    BY <2>1 DEF IInv, TypeOK, CountersAgree, ModesOK
  <2>3. RankInv => RankInv'
    BY <2>1 DEF RankInv, PlaceOK, NamesDiffer, NotPosted, InFlight, Tracked, Room, Remaining,
                BuffersOK, RingTurnsLate
  <2> QED
    BY <2>1, <2>2, <2>3 DEF IInv, ByRank
<1> QED
  BY <1>1, CreateWithBufferIInv, CreateEmptyIInv, SendBeginIInv, CopyToNewBufferIInv, SweepIInv,
     IsendIInv, MiniRankPushIInv, SweepForMiniRankIInv, IsendForMiniRankIInv,
     ReturnForMiniRankIInv, MPI_CompleteIInv DEF Next

LEMMA Invariance == Spec => []IInv
BY InitIInv, NextIInv, PTL DEF Spec

------------------------------------------------------------------------------
\* The allocator and the sender refer to buffers of the ring and to messages.
THEOREM TypeCorrect == Spec => []TypeOK
<1>1. IInv => TypeOK
  BY DEF IInv
<1> QED
  BY <1>1, Invariance, PTL

\* Whatever is allocated, registered and swept, m_availableBuffers and
\* m_numberOfDirtyBuffers count the buffers, for both senders.
THEOREM CountersAlwaysAgree == Spec => []CountersAgree
<1>1. IInv => CountersAgree
  BY DEF IInv
<1> QED
  BY <1>1, Invariance, PTL

\* Not to be enabled is to run without mini-ranks.
LEMMA NotEnabled == IInv /\ ~ m_miniRanksAreEnabled => RankInv
<1> SUFFICES ASSUME IInv, ~ m_miniRanksAreEnabled PROVE RankInv
  OBVIOUS
<1>1. m_miniRanksAreEnabled \in BOOLEAN
  BY ModeAssumption DEF IInv, TypeOK
<1>2. ByRank
  BY <1>1 DEF ByRank
<1> QED
  BY <1>2 DEF IInv

\* In a ring as large as SizingAssumption asks, a buffer is dirty until the send
\* of it completes: sendMessages never posts a buffer that is registered already.
THEOREM DirtyUntilSent == Spec => []DirtyWhileSentByRank
<1>1. IInv => DirtyWhileSentByRank
  <2> SUFFICES ASSUME IInv, ~ m_miniRanksAreEnabled, NEW f \in flight PROVE f.buf \in alloc.dirty
    BY DEF DirtyWhileSentByRank, DirtyWhileSent
  <2> QED
    BY NotEnabled DEF IInv, RankInv, Tracked, CountersAgree
<1> QED
  BY <1>1, Invariance, PTL

\* In such a ring MPI reads the bytes it was given: no handler and no copy writes
\* to a buffer between MPI_Isend and the end of the send.
THEOREM BytesOnTheWire == Spec => []WireIntact
<1>1. IInv => WireIntact
  <2> SUFFICES ASSUME IInv, ~ m_miniRanksAreEnabled, NEW f \in flight PROVE content[f.buf] = f.msg
    BY DEF WireIntact
  <2> QED
    BY NotEnabled DEF RankInv, Tracked
<1> QED
  BY <1>1, Invariance, PTL

\* In such a ring a message of the outbox keeps the bytes its handler wrote, while
\* other handlers allocate buffers and while the messages before it are copied.
THEOREM BytesInTheOutbox == Spec => []OutboxIntact
<1>1. IInv => OutboxIntact
  <2> SUFFICES ASSUME IInv, NEW i \in DOMAIN outbox, outbox[i].buf # Null
               PROVE  content[outbox[i].buf] = outbox[i].msg
    BY DEF OutboxIntact
  <2>1. CASE m_miniRanksAreEnabled
    <3>1. m_miniRanksAreEnabled \in BOOLEAN
      BY ModeAssumption DEF IInv, TypeOK
    <3>2. m_miniRanksAreEnabled = TRUE
      BY <2>1, <3>1
    <3> QED
      BY <3>2 DEF IInv, ModesOK
  <2>2. CASE ~ m_miniRanksAreEnabled
    BY <2>2, NotEnabled DEF RankInv, BuffersOK
  <2> QED
    BY <2>1, <2>2
<1> QED
  BY <1>1, Invariance, PTL
==============================================================================
