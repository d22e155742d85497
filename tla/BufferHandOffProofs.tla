------------------------- MODULE BufferHandOffProofs -------------------------
(***************************************************************************)
(* For every size of the ring, of the queue and of a tick: the producer of *)
(* a MessageQueue never writes over the bytes of a message with fewer than *)
(* SafeBacklog newer ones under way.  The argument counts allocations: the *)
(* age of a buffer is the number of buffers handed out since it was, and   *)
(* the buffer handed out next is the one of age m_chunks.  A message that  *)
(* is further behind may have lost its bytes, and then the ages of buffers *)
(* say nothing about it; so the invariant speaks of a message only as long *)
(* as the bound on its age is within the ring.                             *)
(***************************************************************************)
EXTENDS BufferHandOff, TLAPS

\* How many buffers have been handed out since h was, h included.
Age(h) == IF h < alloc.m_current
          THEN alloc.m_current - h
          ELSE alloc.m_current - h + m_chunks

\* The copies that the messages of this tick have taken.
Copies == IF phase = "prepare" THEN 0
          ELSE IF phase = "copy" THEN index - 1
          ELSE Len(drafts)

\* The age of the buffer of draft j.
DraftAge(j) == IF phase = "copy"
               THEN IF j < index THEN index - j ELSE Len(drafts) - j + index
               ELSE Len(drafts) - j + 1

\* A message with n newer ones in the queue is at most that old: in the outbox
\* each newer message took two buffers, in the inbox one.
AgeBound(n) == IF reallocates
               THEN 2 * n + 1 + Len(drafts) + Copies
               ELSE n + 1 + Len(drafts)

\* What the drafts are in each phase of the producer.
Drafting ==
  /\ ~ reallocates => Len(drafts) <= 1 /\ phase # "copy"
  /\ reallocates => Len(drafts) <= MaxDrafts
  /\ phase # "prepare" => drafts # << >>
  /\ phase = "copy" => index <= Len(drafts)
  /\ phase # "copy" => index = 1

\* Nothing marks a buffer of this allocator dirty.
Clean == alloc.dirty = {}

\* A message at most b allocations old, if the ring has as many buffers, has its
\* bytes.
Safe(e, b) == b <= m_chunks => Age(e.buf) <= b /\ intact(e)

\* The drafts are always intact, and their ages known exactly.
DraftsSafe == \A j \in DOMAIN drafts : Age(drafts[j].buf) = DraftAge(j) /\ intact(drafts[j])

\* What has been pushed is safe as long as its bound is within the ring.
PushedSafe ==
  /\ \A k \in DOMAIN queue : Safe(queue[k], AgeBound(Len(queue) - k))
  /\ \A k \in DOMAIN popped : Safe(popped[k], AgeBound(Len(queue)))

\* The inductive invariants: the state is well formed, and the messages are safe.
TypeInv == HandOffTypeOK /\ Clean /\ Drafting

IInv == TypeInv /\ DraftsSafe /\ PushedSafe

------------------------------------------------------------------------------
\* Without dirty buffers allocate() hands out the buffers in turn.
LEMMA InTurn ==
  ASSUME HandOffTypeOK, Clean
  PROVE  /\ chosen(alloc) = alloc.m_current
         /\ alloc.m_current \in Handle
         /\ allocate(alloc) \in Allocator
         /\ allocate(alloc).dirty = {}
         /\ allocate(alloc).m_current =
              IF alloc.m_current + 1 < m_chunks THEN alloc.m_current + 1 ELSE 0
<1> DEFINE cur == alloc.m_current
<1>0. alloc \in Allocator /\ cur \in Handle
  BY DEF HandOffTypeOK, Allocator
<1>1. m_chunks \in Nat \ {0} /\ Handle \ alloc.dirty = Handle /\ alloc.dirty # Handle
  BY <1>0, ChunksAssumption DEF Clean
<1>2. \A h \in Handle : (\A g \in Handle : Distance(cur, h) <= Distance(cur, g)) <=> h = cur
  BY <1>0, <1>1 DEF Handle, Distance
<1>3. chosen(alloc) = cur
  BY <1>0, <1>1, <1>2 DEF chosen
<1>4. After(cur, 1) = (IF cur + 1 < m_chunks THEN cur + 1 ELSE 0) /\ After(cur, 1) \in Handle
  BY <1>0, <1>1 DEF After, Handle
<1> QED
  BY <1>0, <1>3, <1>4 DEF allocate, Allocator, Clean

\* Handing out a buffer makes it the youngest and every other one older by one;
\* the buffer handed out was the oldest of the ring.
LEMMA Aging ==
  ASSUME HandOffTypeOK, Clean, alloc' = allocate(alloc), NEW h \in Handle
  PROVE  /\ Age(h) \in 1 .. m_chunks
         /\ h = chosen(alloc) => Age(h) = m_chunks /\ Age(h)' = 1
         /\ h # chosen(alloc) => Age(h)' = Age(h) + 1
BY InTurn, ChunksAssumption DEF Age, Handle

\* The start: an empty ring and nothing under way.
LEMMA InitIInv == HandOffInit => IInv
<1> SUFFICES ASSUME HandOffInit PROVE IInv
  OBVIOUS
<1> USE DEF HandOffInit
<1>1. m_chunks \in Nat \ {0} /\ 0 \in Handle
  BY ChunksAssumption DEF Handle
<1>2. HandOffTypeOK
  <2>1. alloc \in Allocator
    BY <1>1 DEF Allocator, newAllocator
  <2>2. << >> \in Seq(Entry) /\ Len(<< >>) = 0
    OBVIOUS
  <2>3. index \in 1 .. MaxDrafts
    BY HandOffAssumption
  <2> QED
    BY <2>1, <2>2, <2>3, HandOffAssumption DEF HandOffTypeOK
<1>3. Clean /\ Drafting
  BY HandOffAssumption DEF Clean, Drafting, newAllocator
<1>4. DraftsSafe /\ PushedSafe
  BY DEF DraftsSafe, PushedSafe
<1> QED
  BY <1>2, <1>3, <1>4 DEF IInv, TypeInv

------------------------------------------------------------------------------
\* The identity given to a new message.
LEMMA FreshIsMsg == ASSUME Fresh # {} PROVE fresh \in Msg
BY DEF Fresh, fresh

\* Filling a buffer keeps the state well formed.
LEMMA PrepareType ==
  ASSUME TypeInv, Prepare
  PROVE  TypeInv'
<1>0. HandOffTypeOK /\ Clean /\ Drafting
  BY DEF TypeInv
<1>1. alloc' \in Allocator /\ alloc'.dirty = {} /\ chosen(alloc) \in Handle
  BY <1>0, InTurn DEF Prepare
<1>2. content' \in [Handle -> Msg \cup {Null}]
  BY <1>0, <1>1, FreshIsMsg DEF Prepare, HandOffTypeOK
<1>3. /\ drafts \in Seq(Entry) /\ drafts' \in Seq(Entry)
      /\ Len(drafts') = Len(drafts) + 1 /\ Len(drafts) \in Nat
  <2>1. [msg |-> fresh, buf |-> chosen(alloc)] \in Entry
    BY <1>1, FreshIsMsg DEF Entry, Prepare
  <2> QED
    BY <1>0, <2>1 DEF Prepare, HandOffTypeOK
<1>4. HandOffTypeOK'
  BY <1>0, <1>1, <1>2, <1>3 DEF Prepare, HandOffTypeOK
<1>5. Drafting'
  BY <1>0, <1>3, HandOffAssumption DEF Prepare, Drafting, HandOffTypeOK
<1> QED
  BY <1>1, <1>4, <1>5 DEF TypeInv, Clean

\* The end of a tick starts the copies or the pushes.
LEMMA PreparedType ==
  ASSUME TypeInv, Prepared
  PROVE  TypeInv'
<1>0. HandOffTypeOK /\ Clean /\ Drafting
  BY DEF TypeInv
<1>1. HandOffTypeOK' /\ Clean'
  BY <1>0 DEF Prepared, HandOffTypeOK, Clean
<1>2. Len(drafts) >= 1
  BY <1>0 DEF Prepared, HandOffTypeOK
<1>3. Drafting'
  BY <1>0, <1>2 DEF Prepared, Drafting, HandOffTypeOK
<1> QED
  BY <1>1, <1>3 DEF TypeInv

\* A copy gives one draft another buffer of the ring.
LEMMA CopyType ==
  ASSUME TypeInv, CopyToNewBuffer
  PROVE  TypeInv'
<1>0. HandOffTypeOK /\ Clean /\ Drafting
  BY DEF TypeInv
<1>1. alloc' \in Allocator /\ alloc'.dirty = {} /\ chosen(alloc) \in Handle
  BY <1>0, InTurn DEF CopyToNewBuffer
<1>2. /\ reallocates /\ index \in DOMAIN drafts /\ index \in 1 .. Len(drafts)
      /\ Len(drafts) <= MaxDrafts /\ drafts \in Seq(Entry)
  BY <1>0 DEF CopyToNewBuffer, HandOffTypeOK, Drafting
<1>3. drafts[index] \in Entry /\ drafts[index].buf \in Handle
  <2>1. drafts[index] \in Entry
    BY <1>2
  <2> QED
    BY <2>1 DEF Entry
<1>4. content' \in [Handle -> Msg \cup {Null}]
  BY <1>0, <1>1, <1>3 DEF CopyToNewBuffer, HandOffTypeOK
<1>5. drafts' \in Seq(Entry) /\ Len(drafts') = Len(drafts)
  <2>1. [drafts[index] EXCEPT !.buf = chosen(alloc)] \in Entry
    BY <1>1, <1>3 DEF Entry
  <2>2. drafts' = [drafts EXCEPT ![index] = [drafts[index] EXCEPT !.buf = chosen(alloc)]]
    BY <1>2 DEF CopyToNewBuffer
  <2> QED
    BY <1>2, <2>1, <2>2
<1>6. index' \in 1 .. MaxDrafts /\ phase' \in {"prepare", "copy", "push"}
  BY <1>2, HandOffAssumption DEF CopyToNewBuffer
<1>7. HandOffTypeOK'
  BY <1>0, <1>1, <1>4, <1>5, <1>6 DEF CopyToNewBuffer, HandOffTypeOK
<1>8. Drafting'
  <2>1. drafts' # << >>
    BY <1>2, <1>5
  <2> QED
    BY <1>0, <1>2, <1>5, <2>1 DEF CopyToNewBuffer, Drafting
<1> QED
  BY <1>1, <1>7, <1>8 DEF TypeInv, Clean

\* A push moves the first draft to the end of the queue.
LEMMA PushType ==
  ASSUME TypeInv, Push
  PROVE  TypeInv'
<1>0. HandOffTypeOK /\ Clean /\ Drafting
  BY DEF TypeInv
<1>1. drafts \in Seq(Entry) /\ drafts # << >> /\ queue \in Seq(Entry)
  BY <1>0 DEF Push, HandOffTypeOK, Drafting
<1>2. /\ Head(drafts) \in Entry /\ Tail(drafts) \in Seq(Entry)
      /\ Len(drafts) \in Nat \ {0} /\ Len(Tail(drafts)) = Len(drafts) - 1
  BY <1>1
<1>3. queue' \in Seq(Entry) /\ Len(queue') = Len(queue) + 1 /\ Len(queue) \in Nat
  BY <1>1, <1>2 DEF Push
<1>4. HandOffTypeOK'
  BY <1>0, <1>2, <1>3, HandOffAssumption DEF Push, HandOffTypeOK
<1>5. Drafting'
  <2>1. phase' # "prepare" => drafts' # << >>
    BY <1>2 DEF Push
  <2> QED
    BY <1>0, <1>2, <2>1, HandOffAssumption DEF Push, Drafting
<1> QED
  BY <1>0, <1>4, <1>5 DEF TypeInv, Clean, Push

\* The consumer leaves the producer's state alone.
LEMMA ConsumerType ==
  ASSUME TypeInv, PopEntry \/ CopyOut
  PROVE  TypeInv'
<1>0. HandOffTypeOK /\ Clean /\ Drafting
  BY DEF TypeInv
<1>1. CASE PopEntry
  <2>1. queue \in Seq(Entry) /\ queue # << >>
    BY <1>0, <1>1 DEF PopEntry, HandOffTypeOK
  <2>2. /\ Head(queue) \in Entry /\ Tail(queue) \in Seq(Entry)
        /\ Len(queue) \in Nat /\ Len(Tail(queue)) = Len(queue) - 1
    BY <2>1
  <2>3. popped' \in Seq(Entry) /\ Len(popped') = 1
    BY <2>2, <1>1 DEF PopEntry
  <2> QED
    BY <1>0, <1>1, <2>2, <2>3, HandOffAssumption DEF PopEntry, TypeInv, HandOffTypeOK, Clean, Drafting
<1>2. CASE CopyOut
  BY <1>0, <1>2 DEF CopyOut, TypeInv, HandOffTypeOK, Clean, Drafting
<1> QED
  BY <1>1, <1>2

\* Every step preserves the first invariant, whatever the backlog.
LEMMA NextType == TypeInv /\ [HandOffNext]_handOffVars => TypeInv'
<1> SUFFICES ASSUME TypeInv, [HandOffNext]_handOffVars PROVE TypeInv'
  OBVIOUS
<1>1. CASE Prepare
  BY <1>1, PrepareType
<1>2. CASE Prepared
  BY <1>2, PreparedType
<1>3. CASE CopyToNewBuffer
  BY <1>3, CopyType
<1>4. CASE Push
  BY <1>4, PushType
<1>5. CASE PopEntry \/ CopyOut
  BY <1>5, ConsumerType
<1>6. CASE UNCHANGED handOffVars
  BY <1>6 DEF handOffVars, TypeInv, HandOffTypeOK, Clean, Drafting
<1> QED
  BY <1>1, <1>2, <1>3, <1>4, <1>5, <1>6 DEF HandOffNext, Producer

------------------------------------------------------------------------------
\* A buffer that is not the oldest keeps its bytes when the producer takes the
\* next buffer, and is one older afterwards.
LEMMA YoungIsKept ==
  ASSUME HandOffTypeOK, Clean, alloc' = allocate(alloc), NEW x,
         content' = [content EXCEPT ![chosen(alloc)] = x],
         NEW e \in Entry, Age(e.buf) # m_chunks
  PROVE  /\ content'[e.buf] = content[e.buf]
         /\ Age(e.buf)' = Age(e.buf) + 1
         /\ Age(e.buf) \in Nat
<1>1. e.buf \in Handle
  BY DEF Entry
<1>2. e.buf # chosen(alloc) /\ Age(e.buf)' = Age(e.buf) + 1 /\ Age(e.buf) \in Nat
  BY <1>1, Aging, ChunksAssumption
<1> QED
  BY <1>1, <1>2 DEF HandOffTypeOK

\* So a message that is safe for b allocations is safe for one more afterwards.
LEMMA StaysSafe ==
  ASSUME HandOffTypeOK, Clean, alloc' = allocate(alloc), NEW x,
         content' = [content EXCEPT ![chosen(alloc)] = x],
         NEW e \in Entry, NEW b \in Nat, Safe(e, b)
  PROVE  b + 1 <= m_chunks => Age(e.buf)' <= b + 1 /\ content'[e.buf] = e.msg
<1> SUFFICES ASSUME b + 1 <= m_chunks
             PROVE  Age(e.buf)' <= b + 1 /\ content'[e.buf] = e.msg
  OBVIOUS
<1>1. e.buf \in Handle /\ m_chunks \in Nat
  BY ChunksAssumption DEF Entry
<1>2. Age(e.buf) <= b /\ content[e.buf] = e.msg
  BY <1>1 DEF Safe, intact
<1>3. Age(e.buf) \in 1 .. m_chunks
  BY <1>1, Aging
<1>4. Age(e.buf) # m_chunks
  BY <1>1, <1>2, <1>3
<1>5. content'[e.buf] = content[e.buf] /\ Age(e.buf)' = Age(e.buf) + 1
  BY <1>4, YoungIsKept
<1> QED
  BY <1>2, <1>3, <1>5

\* Taking a buffer raises the bound on what has been pushed by one, and so keeps
\* it safe.
LEMMA PushedStaySafe ==
  ASSUME IInv, alloc' = allocate(alloc), NEW x,
         content' = [content EXCEPT ![chosen(alloc)] = x],
         UNCHANGED <<queue, popped>>,
         \A n \in Nat : AgeBound(n)' = AgeBound(n) + 1 /\ AgeBound(n) \in Nat
  PROVE  PushedSafe'
<1>0. HandOffTypeOK /\ Clean /\ PushedSafe
  BY DEF IInv, TypeInv
<1>1. /\ queue \in Seq(Entry) /\ Len(queue) \in Nat /\ DOMAIN queue = 1 .. Len(queue)
      /\ popped \in Seq(Entry)
  BY <1>0 DEF HandOffTypeOK
<1>2. ASSUME NEW e \in Entry, NEW n \in Nat, Safe(e, AgeBound(n))
      PROVE  AgeBound(n)' <= m_chunks => Age(e.buf)' <= AgeBound(n)' /\ content'[e.buf] = e.msg
  <2>1. AgeBound(n)' = AgeBound(n) + 1 /\ AgeBound(n) \in Nat
    OBVIOUS
  <2>2. PICK b \in Nat : b = AgeBound(n)
    BY <2>1
  <2>3. b + 1 <= m_chunks => Age(e.buf)' <= b + 1 /\ content'[e.buf] = e.msg
    BY <1>0, <1>2, <2>2, StaysSafe
  <2> QED
    BY <2>1, <2>2, <2>3
<1>3. ASSUME NEW k \in DOMAIN queue'
      PROVE  Safe(queue[k], AgeBound(Len(queue) - k))'
  <2>1. queue[k] \in Entry /\ Safe(queue[k], AgeBound(Len(queue) - k))
    BY <1>0, <1>1 DEF PushedSafe
  <2>2. PICK n \in Nat : n = Len(queue) - k /\ n = Len(queue') - k
    BY <1>1
  <2>3. AgeBound(Len(queue) - k) = AgeBound(n) /\ AgeBound(Len(queue) - k)' = AgeBound(n)'
    BY <2>2 DEF AgeBound
  <2>4. AgeBound(n)' <= m_chunks =>
          Age(queue[k].buf)' <= AgeBound(n)' /\ content'[queue[k].buf] = queue[k].msg
    BY <1>2, <2>1, <2>3
  <2> QED
    BY <2>3, <2>4 DEF Safe, intact, Age
<1>4. ASSUME NEW k \in DOMAIN popped'
      PROVE  Safe(popped[k], AgeBound(Len(queue)))'
  <2>1. popped[k] \in Entry /\ Safe(popped[k], AgeBound(Len(queue)))
    BY <1>0, <1>1 DEF PushedSafe
  <2>2. PICK n \in Nat : n = Len(queue) /\ n = Len(queue')
    BY <1>1
  <2>3. AgeBound(Len(queue)) = AgeBound(n) /\ AgeBound(Len(queue))' = AgeBound(n)'
    BY <2>2 DEF AgeBound
  <2>4. AgeBound(n)' <= m_chunks =>
          Age(popped[k].buf)' <= AgeBound(n)' /\ content'[popped[k].buf] = popped[k].msg
    BY <1>2, <2>1, <2>3
  <2> QED
    BY <2>3, <2>4 DEF Safe, intact, Age
<1> QED
  BY <1>3, <1>4 DEF PushedSafe

\* Filling a buffer: the new draft is the youngest, and the drafts of one tick fit
\* the ring.
LEMMA PrepareIInv ==
  ASSUME IInv, Prepare
  PROVE  IInv'
<1>0. TypeInv /\ HandOffTypeOK /\ Clean /\ Drafting /\ DraftsSafe
  BY DEF IInv, TypeInv
<1>1. TypeInv'
  BY <1>0, PrepareType
<1>2. /\ drafts \in Seq(Entry) /\ Len(drafts) \in Nat /\ DOMAIN drafts = 1 .. Len(drafts)
      /\ m_chunks \in Nat
  BY <1>0, ChunksAssumption DEF HandOffTypeOK
<1>3. Len(drafts) < m_chunks
  BY <1>0, <1>2, HandOffAssumption DEF Prepare, HandOffTypeOK
<1> DEFINE new == [msg |-> fresh, buf |-> chosen(alloc)]
<1>4. chosen(alloc) \in Handle /\ new \in Entry
  BY <1>0, InTurn, FreshIsMsg DEF Entry, Prepare
<1>5. /\ phase = "prepare" /\ phase' = "prepare" /\ UNCHANGED <<reallocates, queue, popped>>
      /\ alloc' = allocate(alloc)
      /\ content' = [content EXCEPT ![chosen(alloc)] = fresh]
      /\ drafts' = Append(drafts, new)
  BY DEF Prepare
<1> HIDE DEF new
<1>6. /\ Len(drafts') = Len(drafts) + 1
      /\ DOMAIN drafts' = 1 .. Len(drafts) + 1
      /\ \A j \in DOMAIN drafts : drafts'[j] = drafts[j]
      /\ drafts'[Len(drafts) + 1] = new
  BY <1>2, <1>4, <1>5
<1>7. \A n \in Nat : AgeBound(n)' = AgeBound(n) + 1 /\ AgeBound(n) \in Nat
  BY <1>0, <1>2, <1>5, <1>6 DEF AgeBound, Copies, HandOffTypeOK
<1>8. PushedSafe'
  BY <1>5, <1>7, PushedStaySafe
<1>9. ASSUME NEW j \in DOMAIN drafts'
      PROVE  (Age(drafts[j].buf) = DraftAge(j) /\ intact(drafts[j]))'
  <2>1. CASE j = Len(drafts) + 1
    <3>1. new.buf = chosen(alloc) /\ new.msg = fresh
      BY DEF new
    <3>2. \A h \in Handle : h = chosen(alloc) => Age(h)' = 1
      BY <1>0, <1>5, Aging
    <3>3. content'[new.buf] = fresh
      BY <1>0, <1>4, <1>5, <3>1 DEF HandOffTypeOK
    <3>4. DraftAge(j)' = 1
      BY <1>2, <1>5, <1>6, <2>1 DEF DraftAge
    <3>5. drafts'[j].buf = chosen(alloc) /\ drafts'[j].msg = fresh
      BY <1>6, <2>1, <3>1
    <3> QED
      BY <1>4, <3>1, <3>2, <3>3, <3>4, <3>5 DEF Age, intact
  <2>2. CASE j \in DOMAIN drafts
    <3>1. drafts[j] \in Entry /\ drafts'[j] = drafts[j]
      BY <1>2, <1>6, <2>2
    <3>2. Age(drafts[j].buf) = Len(drafts) - j + 1
      BY <1>0, <1>5, <2>2 DEF DraftsSafe, DraftAge
    <3>3. Age(drafts[j].buf) # m_chunks
      BY <1>2, <1>3, <2>2, <3>2
    <3>4. \A e \in Entry : Age(e.buf) # m_chunks =>
            content'[e.buf] = content[e.buf] /\ Age(e.buf)' = Age(e.buf) + 1
      BY <1>0, <1>5, YoungIsKept
    <3>5. DraftAge(j)' = Len(drafts) - j + 2
      BY <1>2, <1>5, <1>6, <2>2 DEF DraftAge
    <3>6. content[drafts[j].buf] = drafts[j].msg
      BY <1>0, <2>2 DEF DraftsSafe, intact
    <3> QED
      BY <1>2, <2>2, <3>1, <3>2, <3>3, <3>4, <3>5, <3>6 DEF Age, intact
  <2> QED
    BY <1>2, <1>6, <2>1, <2>2
<1>10. DraftsSafe'
  BY <1>9 DEF DraftsSafe
<1> QED
  BY <1>1, <1>8, <1>10 DEF IInv

\* The end of a tick changes no buffer and no age.
LEMMA PreparedIInv ==
  ASSUME IInv, Prepared
  PROVE  IInv'
<1>0. TypeInv /\ HandOffTypeOK /\ Drafting /\ DraftsSafe /\ PushedSafe
  BY DEF IInv, TypeInv
<1>1. TypeInv'
  BY <1>0, PreparedType
<1>2. /\ phase = "prepare" /\ phase' = (IF reallocates THEN "copy" ELSE "push")
      /\ UNCHANGED <<reallocates, alloc, content, drafts, index, queue, popped>>
  BY DEF Prepared
<1>3. index = 1 /\ (~ reallocates => Len(drafts) <= 1) /\ drafts # << >>
  BY <1>0, <1>2 DEF Drafting, Prepared
<1>4. /\ drafts \in Seq(Entry) /\ Len(drafts) \in Nat /\ DOMAIN drafts = 1 .. Len(drafts)
      /\ Len(drafts) # 0
  BY <1>0, <1>3 DEF HandOffTypeOK
<1>5. \A j \in DOMAIN drafts : DraftAge(j)' = DraftAge(j)
  BY <1>2, <1>3, <1>4 DEF DraftAge
<1>6. \A n : AgeBound(n)' = AgeBound(n)
  <2>1. CASE reallocates
    BY <1>2, <1>3, <2>1 DEF AgeBound, Copies
  <2>2. CASE ~ reallocates
    BY <1>2, <2>2 DEF AgeBound
  <2> QED
    BY <2>1, <2>2
<1>7. DraftsSafe'
  BY <1>0, <1>2, <1>5 DEF DraftsSafe, Age, intact
<1>8. PushedSafe'
  <2>1. \A k \in DOMAIN queue : Safe(queue[k], AgeBound(Len(queue) - k))'
    BY <1>0, <1>2, <1>6 DEF PushedSafe, Safe, Age, intact
  <2>2. \A k \in DOMAIN popped : Safe(popped[k], AgeBound(Len(queue)))'
    BY <1>0, <1>2, <1>6 DEF PushedSafe, Safe, Age, intact
  <2> QED
    BY <1>2, <2>1, <2>2 DEF PushedSafe
<1> QED
  BY <1>1, <1>7, <1>8 DEF IInv

\* A copy: the draft moves to the youngest buffer with its bytes.  The buffer it
\* leaves, or is copied onto when the ring has one buffer, is the only one of
\* this tick that may be the oldest.
LEMMA CopyIInv ==
  ASSUME IInv, CopyToNewBuffer
  PROVE  IInv'
<1>0. TypeInv /\ HandOffTypeOK /\ Clean /\ Drafting /\ DraftsSafe
  BY DEF IInv, TypeInv
<1>1. TypeInv'
  BY <1>0, CopyType
<1> DEFINE d == Len(drafts)
<1>2. /\ drafts \in Seq(Entry) /\ d \in Nat /\ DOMAIN drafts = 1 .. d
      /\ m_chunks \in Nat \ {0}
  BY <1>0, ChunksAssumption DEF HandOffTypeOK
<1>3. /\ phase = "copy" /\ alloc' = allocate(alloc)
      /\ content' = [content EXCEPT ![chosen(alloc)] = content[drafts[index].buf]]
      /\ drafts' = [drafts EXCEPT ![index].buf = chosen(alloc)]
      /\ index' = (IF index = d THEN 1 ELSE index + 1)
      /\ phase' = (IF index = d THEN "push" ELSE "copy")
      /\ UNCHANGED <<reallocates, queue, popped>>
  BY DEF CopyToNewBuffer
<1>4. reallocates /\ index \in 1 .. d
  BY <1>0, <1>2, <1>3 DEF Drafting, HandOffTypeOK
<1>5. d <= m_chunks
  BY <1>0, <1>2, <1>4, HandOffAssumption DEF Drafting
<1>6. chosen(alloc) \in Handle /\ drafts[index] \in Entry
  BY <1>0, <1>2, <1>4, InTurn
<1>7. /\ DOMAIN drafts' = DOMAIN drafts /\ Len(drafts') = d
      /\ \A j \in DOMAIN drafts : j # index => drafts'[j] = drafts[j]
      /\ drafts'[index].buf = chosen(alloc) /\ drafts'[index].msg = drafts[index].msg
  <2>1. drafts' = [drafts EXCEPT ![index] = [drafts[index] EXCEPT !.buf = chosen(alloc)]]
    BY <1>2, <1>3, <1>4
  <2>2. [drafts[index] EXCEPT !.buf = chosen(alloc)] \in Entry
    BY <1>6 DEF Entry
  <2>3. /\ [drafts[index] EXCEPT !.buf = chosen(alloc)].buf = chosen(alloc)
        /\ [drafts[index] EXCEPT !.buf = chosen(alloc)].msg = drafts[index].msg
    BY <1>6 DEF Entry
  <2>4. /\ DOMAIN drafts' = DOMAIN drafts /\ Len(drafts') = d
        /\ \A j \in DOMAIN drafts : j # index => drafts'[j] = drafts[j]
        /\ drafts'[index] = [drafts[index] EXCEPT !.buf = chosen(alloc)]
    BY <1>2, <1>4, <2>1, <2>2
  <2> QED
    BY <2>3, <2>4
<1>8. \A n \in Nat : AgeBound(n)' = AgeBound(n) + 1 /\ AgeBound(n) \in Nat
  BY <1>0, <1>2, <1>3, <1>4, <1>7, SMTT(30) DEF AgeBound, Copies, HandOffTypeOK
<1>9. PushedSafe'
  BY <1>3, <1>8, PushedStaySafe
<1>10. ASSUME NEW j \in DOMAIN drafts
       PROVE  (Age(drafts[j].buf) = DraftAge(j) /\ intact(drafts[j]))'
  <2>1. CASE j = index
    <3>1. \A h \in Handle : h = chosen(alloc) => Age(h)' = 1
      BY <1>0, <1>3, Aging
    <3>2. content'[chosen(alloc)] = drafts[index].msg
      BY <1>0, <1>2, <1>3, <1>4, <1>6 DEF HandOffTypeOK, DraftsSafe, intact
    <3>3. DraftAge(j)' = 1
      BY <1>2, <1>3, <1>4, <1>7, <2>1 DEF DraftAge
    <3> QED
      BY <1>6, <1>7, <2>1, <3>1, <3>2, <3>3 DEF Age, intact
  <2>2. CASE j # index
    <3>1. drafts[j] \in Entry /\ drafts'[j] = drafts[j]
      BY <1>2, <1>7, <2>2
    <3>2. Age(drafts[j].buf) = DraftAge(j) /\ content[drafts[j].buf] = drafts[j].msg
      BY <1>0 DEF DraftsSafe, intact
    <3>3. DraftAge(j) # m_chunks /\ DraftAge(j)' = DraftAge(j) + 1
      BY <1>2, <1>3, <1>4, <1>5, <1>7, <2>2, SMTT(30) DEF DraftAge
    <3>4. \A e \in Entry : Age(e.buf) # m_chunks =>
            content'[e.buf] = content[e.buf] /\ Age(e.buf)' = Age(e.buf) + 1
      BY <1>0, <1>3, YoungIsKept
    <3> QED
      BY <3>1, <3>2, <3>3, <3>4 DEF Age, intact
  <2> QED
    BY <2>1, <2>2
<1>11. DraftsSafe'
  BY <1>7, <1>10 DEF DraftsSafe
<1> QED
  BY <1>1, <1>9, <1>11 DEF IInv

\* A push: the first draft is the youngest message of the queue.
LEMMA PushIInv ==
  ASSUME IInv, Push
  PROVE  IInv'
<1>0. TypeInv /\ HandOffTypeOK /\ Drafting /\ DraftsSafe /\ PushedSafe
  BY DEF IInv, TypeInv
<1>1. TypeInv'
  BY <1>0, PushType
<1>2. drafts \in Seq(Entry) /\ drafts # << >> /\ queue \in Seq(Entry)
  BY <1>0 DEF Push, HandOffTypeOK, Drafting
<1>3. /\ Len(drafts) \in Nat \ {0} /\ Len(queue) \in Nat
      /\ DOMAIN drafts = 1 .. Len(drafts) /\ DOMAIN queue = 1 .. Len(queue)
  BY <1>2
<1>4. /\ phase = "push" /\ phase' = (IF Len(drafts) = 1 THEN "prepare" ELSE "push")
      /\ queue' = Append(queue, drafts[1]) /\ drafts' = Tail(drafts)
      /\ UNCHANGED <<reallocates, alloc, content, index, popped>>
  BY <1>2 DEF Push
<1>5. /\ Len(drafts') = Len(drafts) - 1
      /\ DOMAIN drafts' = 1 .. Len(drafts) - 1
      /\ \A j \in 1 .. Len(drafts) - 1 : drafts'[j] = drafts[j + 1]
  BY <1>2, <1>3, <1>4
<1>6. /\ Len(queue') = Len(queue) + 1 /\ DOMAIN queue' = 1 .. Len(queue) + 1
      /\ \A k \in 1 .. Len(queue) : queue'[k] = queue[k]
      /\ queue'[Len(queue) + 1] = drafts[1]
  BY <1>2, <1>3, <1>4
<1>7. /\ Copies = Len(drafts) /\ Copies' = Len(drafts) - 1
      /\ \A n \in Nat : AgeBound(n + 1)' = AgeBound(n)
  <2>1. Copies = Len(drafts) /\ Copies' = Len(drafts) - 1
    BY <1>3, <1>4, <1>5 DEF Copies
  <2>2. \A n \in Nat : AgeBound(n + 1)' = AgeBound(n)
    BY <1>0, <1>3, <1>4, <1>5, <2>1 DEF AgeBound, HandOffTypeOK
  <2> QED
    BY <2>1, <2>2
<1>8. ASSUME NEW j \in DOMAIN drafts'
      PROVE  (Age(drafts[j].buf) = DraftAge(j) /\ intact(drafts[j]))'
  <2>1. j + 1 \in DOMAIN drafts /\ drafts'[j] = drafts[j + 1]
    BY <1>3, <1>5
  <2>2. Age(drafts[j + 1].buf) = Len(drafts) - (j + 1) + 1 /\ intact(drafts[j + 1])
    BY <1>0, <1>4, <2>1 DEF DraftsSafe, DraftAge
  <2>3. DraftAge(j)' = Len(drafts) - j
    BY <1>3, <1>4, <1>5 DEF DraftAge
  <2> QED
    BY <1>3, <1>4, <1>5, <2>1, <2>2, <2>3 DEF Age, intact
<1>9. ASSUME NEW k \in DOMAIN queue' PROVE Safe(queue[k], AgeBound(Len(queue) - k))'
  <2>1. CASE k = Len(queue) + 1
    <3>1. Age(drafts[1].buf) = Len(drafts) /\ intact(drafts[1])
      <4>1. 1 \in DOMAIN drafts
        BY <1>3
      <4>2. Age(drafts[1].buf) = DraftAge(1) /\ intact(drafts[1])
        BY <1>0, <4>1 DEF DraftsSafe
      <4>3. DraftAge(1) = Len(drafts)
        BY <1>3, <1>4 DEF DraftAge
      <4> QED
        BY <4>2, <4>3
    <3>2. AgeBound(Len(queue) - k)' >= Len(drafts)
      BY <1>0, <1>3, <1>4, <1>5, <1>6, <2>1 DEF AgeBound, Copies, HandOffTypeOK
    <3> QED
      BY <1>3, <1>4, <1>6, <2>1, <3>1, <3>2 DEF Safe, Age, intact
  <2>2. CASE k \in DOMAIN queue
    <3>1. Safe(queue[k], AgeBound(Len(queue) - k))
      BY <1>0, <2>2 DEF PushedSafe
    <3>2. AgeBound(Len(queue) - k)' = AgeBound(Len(queue) - k)
      <4>1. PICK n \in Nat : n = Len(queue) - k /\ n + 1 = Len(queue') - k
        BY <1>3, <1>6, <2>2
      <4>2. AgeBound(Len(queue) - k)' = AgeBound(n + 1)' /\ AgeBound(Len(queue) - k) = AgeBound(n)
        BY <4>1 DEF AgeBound
      <4> QED
        BY <1>7, <4>2
    <3>3. queue'[k] = queue[k]
      BY <1>3, <1>6, <2>2
    <3> QED
      BY <1>4, <3>1, <3>2, <3>3 DEF Safe, Age, intact
  <2> QED
    BY <1>3, <1>6, <2>1, <2>2
<1>10. ASSUME NEW k \in DOMAIN popped' PROVE Safe(popped[k], AgeBound(Len(queue)))'
  <2>1. Safe(popped[k], AgeBound(Len(queue)))
    BY <1>0, <1>4 DEF PushedSafe
  <2>2. AgeBound(Len(queue))' = AgeBound(Len(queue))
    <3>1. PICK n \in Nat : n = Len(queue) /\ n + 1 = Len(queue')
      BY <1>3, <1>6
    <3>2. AgeBound(Len(queue))' = AgeBound(n + 1)' /\ AgeBound(Len(queue)) = AgeBound(n)
      BY <3>1 DEF AgeBound
    <3> QED
      BY <1>7, <3>2
  <2> QED
    BY <1>4, <2>1, <2>2 DEF Safe, Age, intact
<1>11. DraftsSafe'
  BY <1>8 DEF DraftsSafe
<1>12. PushedSafe'
  BY <1>9, <1>10 DEF PushedSafe
<1> QED
  BY <1>1, <1>11, <1>12 DEF IInv

\* pop(): the first message of the queue is the one the consumer holds.
LEMMA PopEntryIInv ==
  ASSUME IInv, PopEntry
  PROVE  IInv'
<1>0. TypeInv /\ HandOffTypeOK /\ DraftsSafe /\ PushedSafe
  BY DEF IInv, TypeInv
<1>1. TypeInv'
  BY <1>0, ConsumerType
<1>2. queue \in Seq(Entry) /\ queue # << >>
  BY <1>0 DEF PopEntry, HandOffTypeOK
<1>3. Len(queue) \in Nat \ {0} /\ DOMAIN queue = 1 .. Len(queue)
  BY <1>2
<1>4. /\ popped' = <<queue[1]>> /\ queue' = Tail(queue)
      /\ UNCHANGED <<reallocates, alloc, content, drafts, index, phase>>
  BY <1>2 DEF PopEntry
<1>5. /\ Len(queue') = Len(queue) - 1 /\ DOMAIN queue' = 1 .. Len(queue) - 1
      /\ \A k \in 1 .. Len(queue) - 1 : queue'[k] = queue[k + 1]
  BY <1>2, <1>3, <1>4
<1>6. DOMAIN popped' = {1} /\ popped'[1] = queue[1]
  BY <1>4
<1>7. ASSUME NEW k \in DOMAIN queue' PROVE Safe(queue[k], AgeBound(Len(queue) - k))'
  <2>1. k + 1 \in DOMAIN queue /\ queue'[k] = queue[k + 1]
    BY <1>3, <1>5
  <2>2. Safe(queue[k + 1], AgeBound(Len(queue) - (k + 1)))
    BY <1>0, <2>1 DEF PushedSafe
  <2>3. Len(queue') - k = Len(queue) - (k + 1)
    BY <1>3, <1>5
  <2>4. AgeBound(Len(queue) - k)' = AgeBound(Len(queue) - (k + 1))
    BY <1>4, <2>3 DEF AgeBound, Copies
  <2> QED
    BY <1>4, <2>1, <2>2, <2>4 DEF Safe, Age, intact
<1>8. ASSUME NEW k \in DOMAIN popped' PROVE Safe(popped[k], AgeBound(Len(queue)))'
  <2>1. Safe(queue[1], AgeBound(Len(queue) - 1))
    BY <1>0, <1>3 DEF PushedSafe
  <2>2. AgeBound(Len(queue))' = AgeBound(Len(queue) - 1)
    BY <1>4, <1>5 DEF AgeBound, Copies
  <2> QED
    BY <1>4, <1>6, <2>1, <2>2 DEF Safe, Age, intact
<1>9. DraftsSafe'
  BY <1>0, <1>4 DEF DraftsSafe, Age, DraftAge, intact
<1>10. PushedSafe'
  BY <1>7, <1>8 DEF PushedSafe
<1> QED
  BY <1>1, <1>9, <1>10 DEF IInv

\* The consumer has copied the bytes: one message less is under way.
LEMMA CopyOutIInv ==
  ASSUME IInv, CopyOut
  PROVE  IInv'
<1>0. TypeInv /\ DraftsSafe /\ PushedSafe
  BY DEF IInv
<1>1. TypeInv'
  BY <1>0, ConsumerType
<1>2. popped' = << >> /\ UNCHANGED <<reallocates, alloc, content, drafts, index, phase, queue>>
  BY DEF CopyOut
<1>3. DraftsSafe'
  BY <1>0, <1>2 DEF DraftsSafe, Age, DraftAge, intact
<1>4. PushedSafe'
  BY <1>0, <1>2 DEF PushedSafe, Safe, Age, AgeBound, Copies, intact
<1> QED
  BY <1>1, <1>3, <1>4 DEF IInv

------------------------------------------------------------------------------
\* Every step preserves the invariant, whatever the backlog.
LEMMA NextIInv == IInv /\ [HandOffNext]_handOffVars => IInv'
<1> SUFFICES ASSUME IInv, [HandOffNext]_handOffVars PROVE IInv'
  OBVIOUS
<1>1. CASE Prepare
  BY <1>1, PrepareIInv
<1>2. CASE Prepared
  BY <1>2, PreparedIInv
<1>3. CASE CopyToNewBuffer
  BY <1>3, CopyIInv
<1>4. CASE Push
  BY <1>4, PushIInv
<1>5. CASE PopEntry
  BY <1>5, PopEntryIInv
<1>6. CASE CopyOut
  BY <1>6, CopyOutIInv
<1>7. CASE UNCHANGED handOffVars
  <2> USE <1>7 DEF handOffVars, IInv
  <2>1. TypeInv'
    BY DEF TypeInv, HandOffTypeOK, Clean, Drafting
  <2>2. DraftsSafe'
    BY DEF DraftsSafe, Age, DraftAge, intact
  <2>3. PushedSafe'
    BY DEF PushedSafe, Safe, Age, AgeBound, Copies, intact
  <2> QED
    BY <2>1, <2>2, <2>3
<1> QED
  BY <1>1, <1>2, <1>3, <1>4, <1>5, <1>6, <1>7 DEF HandOffNext, Producer

\* Where a message is among those under way: in the consumer's hands, in the
\* queue or among the drafts.
LEMMA PendingPlaces ==
  ASSUME HandOffTypeOK, NEW k \in DOMAIN Pending
  PROVE  /\ Len(Pending) = Len(popped) + Len(queue) + Len(drafts)
         /\ Len(popped) \in Nat /\ Len(queue) \in Nat /\ Len(drafts) \in Nat
         /\ k \in 1 .. Len(Pending)
         /\ k <= Len(popped) => k \in DOMAIN popped /\ Pending[k] = popped[k]
         /\ k > Len(popped) /\ k <= Len(popped) + Len(queue) =>
              k - Len(popped) \in DOMAIN queue /\ Pending[k] = queue[k - Len(popped)]
         /\ k > Len(popped) + Len(queue) =>
              /\ k - Len(popped) - Len(queue) \in DOMAIN drafts
              /\ Pending[k] = drafts[k - Len(popped) - Len(queue)]
<1>1. popped \in Seq(Entry) /\ queue \in Seq(Entry) /\ drafts \in Seq(Entry)
  BY DEF HandOffTypeOK
<1>2. popped \o queue \in Seq(Entry) /\ Len(popped \o queue) = Len(popped) + Len(queue)
  BY <1>1
<1>3. Pending \in Seq(Entry) /\ Len(Pending) = Len(popped) + Len(queue) + Len(drafts)
  BY <1>1, <1>2 DEF Pending
<1>4. Len(popped) \in Nat /\ Len(queue) \in Nat /\ Len(drafts) \in Nat /\ k \in 1 .. Len(Pending)
  BY <1>1, <1>3
<1>5. CASE k <= Len(popped)
  BY <1>1, <1>2, <1>3, <1>4, <1>5 DEF Pending
<1>6. CASE k > Len(popped) /\ k <= Len(popped) + Len(queue)
  BY <1>1, <1>2, <1>3, <1>4, <1>6 DEF Pending
<1>7. CASE k > Len(popped) + Len(queue)
  BY <1>1, <1>2, <1>3, <1>4, <1>7 DEF Pending
<1> QED
  BY <1>3, <1>4, <1>5, <1>6, <1>7

\* A message with n newer ones in the queue, and fewer than SafeBacklog with the
\* drafts, is not older than the ring.
LEMMA WithinTheRing ==
  ASSUME TypeInv, NEW n \in Nat, n + Len(drafts) < SafeBacklog
  PROVE  AgeBound(n) <= m_chunks
<1>1. /\ Len(drafts) \in Nat /\ m_chunks \in Nat \ {0} /\ reallocates \in BOOLEAN
      /\ index \in Nat /\ phase \in {"prepare", "copy", "push"}
  BY ChunksAssumption, HandOffAssumption DEF TypeInv, HandOffTypeOK
<1>2. Copies \in Nat /\ Copies <= Len(drafts)
  BY <1>1, HandOffAssumption DEF TypeInv, HandOffTypeOK, Drafting, Copies
<1>3. CASE reallocates
  BY <1>1, <1>2, <1>3 DEF AgeBound, SafeBacklog
<1>4. CASE ~ reallocates
  BY <1>1, <1>4 DEF AgeBound, SafeBacklog
<1> QED
  BY <1>1, <1>3, <1>4

\* The invariant gives what is promised of the newest messages.
LEMMA InvNewest == IInv => NewestIntact
<1> SUFFICES ASSUME IInv, NEW k \in DOMAIN Pending, Len(Pending) - k < SafeBacklog
             PROVE  intact(Pending[k])
  BY DEF NewestIntact
<1>0. TypeInv /\ HandOffTypeOK /\ DraftsSafe /\ PushedSafe
  BY DEF IInv, TypeInv
<1>1. /\ Len(Pending) = Len(popped) + Len(queue) + Len(drafts)
      /\ Len(popped) \in Nat /\ Len(queue) \in Nat /\ Len(drafts) \in Nat
      /\ k \in 1 .. Len(Pending)
  BY <1>0, PendingPlaces
<1>2. SafeBacklog \in Nat
  BY <1>0, ChunksAssumption DEF HandOffTypeOK, SafeBacklog
<1>3. CASE k <= Len(popped)
  <2>1. k \in DOMAIN popped /\ Pending[k] = popped[k]
    BY <1>0, <1>3, PendingPlaces
  <2>2. Len(queue) + Len(drafts) < SafeBacklog
    BY <1>1, <1>2, <1>3
  <2>3. AgeBound(Len(queue)) <= m_chunks
    BY <1>0, <1>1, <2>2, WithinTheRing
  <2> QED
    BY <1>0, <2>1, <2>3 DEF PushedSafe, Safe
<1>4. CASE k > Len(popped) /\ k <= Len(popped) + Len(queue)
  <2>1. k - Len(popped) \in DOMAIN queue /\ Pending[k] = queue[k - Len(popped)]
    BY <1>0, <1>4, PendingPlaces
  <2>2. PICK n \in Nat : n = Len(queue) - (k - Len(popped))
    BY <1>1, <1>4
  <2>3. n + Len(drafts) < SafeBacklog
    BY <1>1, <1>2, <2>2
  <2>4. AgeBound(n) <= m_chunks
    BY <1>0, <2>3, WithinTheRing
  <2> QED
    BY <1>0, <2>1, <2>2, <2>4 DEF PushedSafe, Safe
<1>5. CASE k > Len(popped) + Len(queue)
  BY <1>0, <1>5, PendingPlaces DEF DraftsSafe
<1> QED
  BY <1>1, <1>3, <1>4, <1>5

\* Whatever the backlog, the messages point into the ring of the producer, the
\* queue holds at most QueueBins of them and the consumer one.
THEOREM TypeCorrect == HandOffSpec => []HandOffTypeOK
<1>1. HandOffInit => TypeInv
  BY InitIInv DEF IInv
<1>2. TypeInv => HandOffTypeOK
  BY DEF TypeInv
<1> QED
  BY <1>1, <1>2, NextType, PTL DEF HandOffSpec

\* Whatever the backlog, a message with fewer than SafeBacklog newer ones under
\* way has the bytes that the producer wrote.
THEOREM NewestAreSafe == HandOffSpec => []NewestIntact
BY InitIInv, NextIInv, InvNewest, PTL DEF HandOffSpec

\* So all of them have their bytes in every state in which the consumer is not
\* more than SafeBacklog messages behind; the code does not keep it from that.
THEOREM HandOverSafe ==
  HandOffSpec => [](Len(Pending) <= SafeBacklog => HandedOverIntact)
<1>1. IInv => (Len(Pending) <= SafeBacklog => HandedOverIntact)
  <2> SUFFICES ASSUME IInv, Len(Pending) <= SafeBacklog, NEW k \in DOMAIN Pending
               PROVE  intact(Pending[k])
    BY DEF HandedOverIntact
  <2>1. HandOffTypeOK /\ SafeBacklog \in Nat
    BY ChunksAssumption DEF IInv, TypeInv, HandOffTypeOK, SafeBacklog
  <2>2. k \in 1 .. Len(Pending) /\ Len(Pending) \in Nat
    BY <2>1, PendingPlaces
  <2>3. Len(Pending) - k < SafeBacklog
    BY <2>1, <2>2
  <2> QED
    BY <2>3, InvNewest DEF NewestIntact
<1> QED
  BY <1>1, InitIInv, NextIInv, PTL DEF HandOffSpec
==============================================================================
