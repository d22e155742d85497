-------------------------- MODULE MessageQueueProofs --------------------------
(***************************************************************************)
(* For every number of bins, every set of words and every number of        *)
(* pushes, the lock-free ring of communication/MessageQueue.cpp delivers   *)
(* what was pushed, in order and never as a draft, and implements the      *)
(* abstract bounded FIFO.                                                  *)
(***************************************************************************)
EXTENDS MessageQueue, TLAPS

\* increment() is the successor on the ring: it wraps from the last slot to 0.
LEMMA IncrementWraps ==
  ASSUME NEW i \in Slot
  PROVE  increment(i) = IF i = Bins THEN 0 ELSE i + 1
BY BinsAssumption DEF increment, m_size, Slot

\* The test of push() on the two indices is the test "Bins messages stored",
\* and the test of pop() is the test "no message stored".
LEMMA IndexTests ==
  ASSUME QueueTypeOK
  PROVE  /\ Stored \in 0 .. Bins
         /\ isFull <=> Stored = Bins
         /\ hasContent <=> Stored > 0
<1>1. increment(Tail0) = IF Tail0 = Bins THEN 0 ELSE Tail0 + 1
  BY IncrementWraps DEF QueueTypeOK, Tail0
<1> QED
  BY <1>1, BinsAssumption DEF QueueTypeOK, Head0, Tail0, Slot, m_size, Stored, isFull, hasContent

\* The slot at the tail, which push() fills, is outside the published window.
LEMMA TailOutsideWindow ==
  ASSUME QueueTypeOK, NEW k \in 0 .. Stored - 1
  PROVE  Position(k) \in Slot /\ Position(k) # Tail0
BY BinsAssumption DEF QueueTypeOK, Head0, Tail0, Slot, m_size, Stored, Position

\* A Message is a function on words that takes a value at each of them.
LEMMA MessageWords == Message \subseteq AnyWords
BY DEF Message, AnyWords

\* constructor() establishes the invariant.
LEMMA InitIInv == constructor => IInv
<1> SUFFICES ASSUME constructor PROVE IInv
  OBVIOUS
<1> USE BinsAssumption DEF constructor
<1>1. QueueTypeOK
  BY DEF QueueTypeOK, Slot, AnyWords
<1>2. Stored = 0
  BY DEF Stored, Head0, Tail0
<1>3. WindowHoldsBacklog
  BY <1>2 DEF WindowHoldsBacklog
<1>4. InsideRing
  BY DEF InsideRing
<1>5. DeliveredInOrder
  BY DEF DeliveredInOrder
<1> QED
  BY <1>1, <1>3, <1>4, <1>5 DEF IInv

------------------------------------------------------------------------------
\* push() finding room preserves the invariant: nothing shared is written.
LEMMA PushEnterIInv ==
  ASSUME IInv, NEW m \in Message, PushEnter(m)
  PROVE  IInv'
<1> USE DEF PushEnter, consumerVars
<1>1. QueueTypeOK'
  BY MessageWords DEF IInv, QueueTypeOK
<1>2. WindowHoldsBacklog'
  BY DEF IInv, WindowHoldsBacklog, Stored, Position, Head0, Tail0
<1>3. InsideRing'
  BY DEF IInv, InsideRing, isFull, hasContent, Head0, Tail0
<1>4. DeliveredInOrder'
  BY DEF IInv, DeliveredInOrder
<1> QED
  BY <1>1, <1>2, <1>3, <1>4 DEF IInv

\* Copying a word into the slot at the tail leaves the published slots alone.
LEMMA PushCopyIInv ==
  ASSUME IInv, NEW w \in Word, PushCopy(w)
  PROVE  IInv'
<1> USE DEF PushCopy, consumerVars
<1>0. QueueTypeOK /\ WindowHoldsBacklog /\ InsideRing /\ DeliveredInOrder
  BY DEF IInv
<1>a. Tail0 \in Slot /\ Head0 \in Slot /\ pushing[w] \in Value \cup {Garbage}
  BY <1>0 DEF QueueTypeOK, Tail0, Head0, AnyWords
<1>b. m_ring' = [m_ring EXCEPT ![Tail0] = [m_ring[Tail0] EXCEPT ![w] = pushing[w]]]
  OBVIOUS
<1>1. QueueTypeOK'
  BY <1>0, <1>a, <1>b DEF QueueTypeOK, AnyWords
<1>2. \A s \in Slot \ {Tail0} : m_ring'[s] = m_ring[s]
  BY <1>0, <1>a, <1>b DEF QueueTypeOK
<1>3. WindowHoldsBacklog'
  <2>1. Stored' = Stored /\ Head0' = Head0 /\ Tail0' = Tail0
    BY DEF Stored, Head0, Tail0
  <2>2. ASSUME NEW k \in 0 .. Stored - 1
        PROVE  m_ring'[Position(k)] = sent[Len(received) + k + 1]
    BY <1>0, <1>2, TailOutsideWindow DEF WindowHoldsBacklog
  <2> QED
    BY <1>0, <2>1, <2>2 DEF WindowHoldsBacklog, Position
<1>4. InsideRing'
  <2>1. \A x \in Word \ pushTodo' : m_ring'[Tail0][x] = pushing[x]
    BY <1>0, <1>a, <1>b DEF InsideRing, QueueTypeOK, AnyWords
  <2>2. ~ isFull' /\ pushing' \in Message
    BY <1>0 DEF InsideRing, isFull, Head0, Tail0
  <2>3. popPc = "copy" => hasContent /\ m_ring'[Head0] = m_ring[Head0]
    BY <1>0, <1>2, <1>a DEF InsideRing, hasContent
  <2> QED
    BY <1>0, <2>1, <2>2, <2>3 DEF InsideRing, hasContent, Head0, Tail0
<1>5. DeliveredInOrder'
  BY <1>0 DEF DeliveredInOrder
<1> QED
  BY <1>1, <1>3, <1>4, <1>5 DEF IInv

\* Two functions on the words that agree on every word are equal: a slot whose
\* words are all copied is the message that was being copied.
LEMMA SameWords ==
  ASSUME NEW f \in AnyWords, NEW g \in AnyWords, \A w \in Word : f[w] = g[w]
  PROVE  f = g
BY DEF AnyWords

\* Publishing the tail adds the completed slot to the window.
LEMMA PushPublishIInv ==
  ASSUME IInv, PushPublish
  PROVE  /\ IInv'
         /\ pushing \in Message
         /\ Len(sent) - Len(received) < Bins
<1> USE DEF PushPublish, consumerVars
<1>0. QueueTypeOK /\ WindowHoldsBacklog /\ InsideRing /\ DeliveredInOrder
  BY DEF IInv
<1>a. Tail0' = IF Tail0 = Bins THEN 0 ELSE Tail0 + 1
  BY <1>0, IncrementWraps DEF QueueTypeOK, Tail0
<1>b. Stored \in 0 .. Bins - 1 /\ ~ isFull /\ pushing \in Message
  BY <1>0, IndexTests, BinsAssumption DEF InsideRing
<1>c. Stored' = Stored + 1
  <2>1. Tail0' # Head0 /\ Head0' = Head0
    BY <1>b DEF isFull, Head0, Tail0
  <2> QED
    BY <1>0, <1>a, <1>b, <2>1, BinsAssumption DEF QueueTypeOK, Stored, Head0, Tail0, m_size, Slot
<1>d. sent \in Seq(Message) /\ Len(received) \in Nat /\ Len(sent) \in Nat
  BY <1>0 DEF QueueTypeOK
<1>e. Len(sent') = Len(sent) + 1 /\ sent'[Len(sent) + 1] = pushing
  BY <1>b, <1>d
<1>f. \A k \in 1 .. Len(sent) : sent'[k] = sent[k]
  BY <1>b, <1>d
<1>1. QueueTypeOK'
  BY <1>0, <1>a, <1>b, <1>d, BinsAssumption DEF QueueTypeOK, Tail0, Slot
<1>2. m_ring[Tail0] = pushing
  <2>1. m_ring[Tail0] \in AnyWords /\ pushing \in AnyWords
    BY <1>0 DEF QueueTypeOK, Tail0
  <2>2. \A w \in Word : m_ring[Tail0][w] = pushing[w]
    BY <1>0 DEF InsideRing
  <2> QED
    BY <2>1, <2>2, SameWords
<1>3. WindowHoldsBacklog'
  <2>1. Len(sent)' = Len(received)' + Stored'
    BY <1>0, <1>b, <1>c, <1>d, <1>e DEF WindowHoldsBacklog
  <2>2. Position(Stored) = Tail0
    BY <1>0, <1>b, BinsAssumption DEF QueueTypeOK, Position, Stored, Head0, Tail0, m_size, Slot
  <2>3. ASSUME NEW k \in 0 .. Stored' - 1
        PROVE  m_ring[Position(k)] = sent'[Len(received) + k + 1]
    <3>1. CASE k = Stored
      BY <3>1, <1>0, <1>2, <1>e, <2>2 DEF WindowHoldsBacklog
    <3>2. CASE k # Stored
      <4>1. k \in 0 .. Stored - 1
        BY <3>2, <1>b, <1>c
      <4>2. Len(received) + k + 1 \in 1 .. Len(sent)
        BY <4>1, <1>0, <1>b, <1>d DEF WindowHoldsBacklog
      <4> QED
        BY <4>1, <4>2, <1>0, <1>f DEF WindowHoldsBacklog
    <3> QED
      BY <3>1, <3>2
  <2>4. Head0' = Head0
    BY DEF Head0
  <2> QED
    BY <2>1, <2>3, <2>4 DEF WindowHoldsBacklog, Position
<1>4. InsideRing'
  <2>1. popPc = "copy" => hasContent'
    BY <1>0, <1>1, <1>b, <1>c, IndexTests
    DEF QueueTypeOK, Stored, hasContent, Head0, Tail0, Slot, m_size
  <2> QED
    BY <1>0, <2>1 DEF InsideRing, Head0
<1>5. DeliveredInOrder'
  <2>1. Len(received) <= Len(sent)
    BY <1>0 DEF DeliveredInOrder
  <2>2. ASSUME NEW k \in 1 .. Len(received)
        PROVE  received[k] = sent'[k]
    BY <2>1, <1>0, <1>d, <1>f DEF DeliveredInOrder
  <2> QED
    BY <2>1, <2>2, <1>d, <1>e DEF DeliveredInOrder
<1>6. Len(sent) - Len(received) < Bins
  BY <1>0, <1>b, <1>d, BinsAssumption DEF WindowHoldsBacklog
<1> QED
  BY <1>1, <1>3, <1>4, <1>5, <1>6, <1>b DEF IInv

------------------------------------------------------------------------------
\* pop() finding a message preserves the invariant: nothing shared is written.
LEMMA PopEnterIInv ==
  ASSUME IInv, PopEnter
  PROVE  IInv'
<1> USE DEF PopEnter, producerVars
<1>1. QueueTypeOK'
  BY DEF IInv, QueueTypeOK
<1>2. WindowHoldsBacklog'
  BY DEF IInv, WindowHoldsBacklog, Stored, Position, Head0, Tail0
<1>3. InsideRing'
  BY DEF IInv, InsideRing, isFull, hasContent, Head0, Tail0
<1>4. DeliveredInOrder'
  BY DEF IInv, DeliveredInOrder
<1> QED
  BY <1>1, <1>2, <1>3, <1>4 DEF IInv

\* Copying a word out of the slot at the head preserves the invariant.
LEMMA PopCopyIInv ==
  ASSUME IInv, NEW w \in Word, PopCopy(w)
  PROVE  IInv'
<1> USE DEF PopCopy, producerVars
<1>0. QueueTypeOK /\ WindowHoldsBacklog /\ InsideRing /\ DeliveredInOrder
  BY DEF IInv
<1>a. m_ring[Head0] \in AnyWords
  BY <1>0 DEF QueueTypeOK, Head0
<1>1. QueueTypeOK'
  BY <1>0, <1>a DEF QueueTypeOK, AnyWords
<1>2. WindowHoldsBacklog'
  BY <1>0 DEF WindowHoldsBacklog, Stored, Position, Head0, Tail0
<1>3. InsideRing'
  <2>1. \A x \in Word \ popTodo' : popping'[x] = m_ring[Head0][x]
    BY <1>0 DEF InsideRing, QueueTypeOK, AnyWords
  <2> QED
    BY <1>0, <2>1 DEF InsideRing, isFull, hasContent, Head0, Tail0
<1>4. DeliveredInOrder'
  BY <1>0 DEF DeliveredInOrder
<1> QED
  BY <1>1, <1>2, <1>3, <1>4 DEF IInv

\* Publishing the head removes the oldest slot from the window, and what is
\* handed out is the oldest message not yet received.
LEMMA PopPublishIInv ==
  ASSUME IInv, PopPublish
  PROVE  /\ IInv'
         /\ Len(received) < Len(sent)
         /\ popping = sent[Len(received) + 1]
<1> USE DEF PopPublish, producerVars
<1>0. QueueTypeOK /\ WindowHoldsBacklog /\ InsideRing /\ DeliveredInOrder
  BY DEF IInv
<1>a. Head0' = IF Head0 = Bins THEN 0 ELSE Head0 + 1
  BY <1>0, IncrementWraps DEF QueueTypeOK, Head0
<1>b. Stored \in 1 .. Bins
  BY <1>0, IndexTests, BinsAssumption DEF InsideRing
<1>c. Stored' = Stored - 1
  BY <1>0, <1>a, <1>b, BinsAssumption DEF QueueTypeOK, Stored, Head0, Tail0, m_size, Slot
<1>d. received \in Seq(AnyWords) /\ Len(received) \in Nat /\ Len(sent) \in Nat
  BY <1>0 DEF QueueTypeOK
<1>e. popping \in AnyWords /\ m_ring[Head0] \in AnyWords
  BY <1>0 DEF QueueTypeOK, Head0
<1>f. Len(received') = Len(received) + 1 /\ received'[Len(received) + 1] = popping
  BY <1>d, <1>e
<1>g. \A k \in 1 .. Len(received) : received'[k] = received[k]
  BY <1>d, <1>e
<1>1. QueueTypeOK'
  BY <1>0, <1>a, <1>d, <1>e, BinsAssumption DEF QueueTypeOK, Head0, Slot
<1>2. popping = sent[Len(received) + 1]
  <2>1. popping = m_ring[Head0]
    BY <1>0, <1>e, SameWords DEF InsideRing
  <2>2. Position(0) = Head0
    BY <1>0, BinsAssumption DEF QueueTypeOK, Position, Head0, m_size, Slot
  <2>3. m_ring[Position(0)] = sent[Len(received) + 0 + 1]
    BY <1>0, <1>b, BinsAssumption DEF WindowHoldsBacklog
  <2> QED
    BY <2>1, <2>2, <2>3, <1>d
<1>3. Len(received) < Len(sent)
  BY <1>0, <1>b, <1>d, BinsAssumption DEF WindowHoldsBacklog
<1>4. WindowHoldsBacklog'
  <2>1. Len(sent)' = Len(received)' + Stored'
    BY <1>0, <1>b, <1>c, <1>d, <1>f, BinsAssumption DEF WindowHoldsBacklog
  <2>2. ASSUME NEW k \in 0 .. Stored' - 1
        PROVE  m_ring[Position(k)'] = sent[Len(received') + k + 1]
    <3>1. k + 1 \in 0 .. Stored - 1
      BY <1>b, <1>c, BinsAssumption
    <3>2. Position(k)' = Position(k + 1)
      BY <1>0, <1>a, <1>b, <3>1, BinsAssumption
      DEF QueueTypeOK, Position, Head0, m_size, Slot
    <3>3. m_ring[Position(k + 1)] = sent[Len(received) + (k + 1) + 1]
      BY <1>0, <3>1 DEF WindowHoldsBacklog
    <3>4. Len(received) + (k + 1) + 1 = Len(received') + k + 1
      BY <1>d, <1>f
    <3> QED
      BY <3>2, <3>3, <3>4
  <2> QED
    BY <2>1, <2>2 DEF WindowHoldsBacklog, Position
<1>5. InsideRing'
  <2>1. pushPc = "copy" => ~ isFull'
    <3>1. Stored' # Bins
      BY <1>b, <1>c, BinsAssumption
    <3>2. Tail0' = Tail0 /\ Tail0 \in Slot
      BY <1>0 DEF QueueTypeOK, Tail0
    <3>3. increment(Tail0) = IF Tail0 = Bins THEN 0 ELSE Tail0 + 1
      BY <3>2, IncrementWraps
    <3>4. isFull' <=> increment(Tail0) = Head0'
      BY <3>2 DEF isFull
    <3> QED
      BY <3>1, <3>2, <3>3, <3>4, <1>1, BinsAssumption
      DEF QueueTypeOK, Stored, Head0, Tail0, Slot, m_size
  <2> QED
    BY <1>0, <2>1 DEF InsideRing, Tail0
<1>6. DeliveredInOrder'
  <2>1. ASSUME NEW k \in 1 .. Len(received')
        PROVE  received'[k] = sent[k]
    <3>1. CASE k = Len(received) + 1
      BY <3>1, <1>2, <1>f
    <3>2. CASE k # Len(received) + 1
      BY <3>2, <1>0, <1>d, <1>f, <1>g DEF DeliveredInOrder
    <3> QED
      BY <3>1, <3>2
  <2>2. Len(received') <= Len(sent)
    BY <1>3, <1>d, <1>f
  <2> QED
    BY <2>1, <2>2 DEF DeliveredInOrder
<1> QED
  BY <1>1, <1>2, <1>3, <1>4, <1>5, <1>6 DEF IInv

------------------------------------------------------------------------------
\* One step of either thread preserves the invariant.
LEMMA NextIInv == IInv /\ [QueueNext]_queueVars => IInv'
<1> SUFFICES ASSUME IInv, [QueueNext]_queueVars PROVE IInv'
  OBVIOUS
<1>1. CASE \E m \in Message : PushEnter(m)
  BY <1>1, PushEnterIInv
<1>2. CASE \E w \in Word : PushCopy(w)
  BY <1>2, PushCopyIInv
<1>3. CASE PushPublish
  BY <1>3, PushPublishIInv
<1>4. CASE PopEnter
  BY <1>4, PopEnterIInv
<1>5. CASE \E w \in Word : PopCopy(w)
  BY <1>5, PopCopyIInv
<1>6. CASE PopPublish
  BY <1>6, PopPublishIInv
<1>7. CASE UNCHANGED queueVars
  BY <1>7 DEF queueVars, producerVars, consumerVars, IInv, QueueTypeOK, WindowHoldsBacklog, InsideRing,
              DeliveredInOrder, Stored, Position, isFull, hasContent, Head0, Tail0
<1> QED
  BY <1>1, <1>2, <1>3, <1>4, <1>5, <1>6, <1>7 DEF QueueNext, Producer, Consumer

\* The inductive invariant holds in every reachable state of the ring.
THEOREM InductiveInvariant == QueueSpec => []IInv
<1> QED
  BY InitIInv, NextIInv, PTL DEF QueueSpec

\* Every state of push() and pop() is well typed: in particular the indices
\* stay inside the ring, so no copy is out of bounds.
THEOREM TypeCorrect == QueueSpec => []QueueTypeOK
<1>1. IInv => QueueTypeOK
  BY DEF IInv
<1> QED
  BY <1>1, InductiveInvariant, PTL

\* What pop() returns is what push() accepted, in order and never a draft.
THEOREM Delivery == QueueSpec => []DeliveredInOrder
<1>1. IInv => DeliveredInOrder
  BY DEF IInv
<1> QED
  BY <1>1, InductiveInvariant, PTL

\* push() and pop() never copy to and from the same slot at the same time.
THEOREM SlotsDisjoint == QueueSpec => []NoSlotRace
<1>1. IInv => NoSlotRace
  BY DEF IInv, InsideRing, NoSlotRace, hasContent
<1> QED
  BY <1>1, InductiveInvariant, PTL

\* The published window is the backlog: the indices describe the content.
THEOREM WindowIsBacklog == QueueSpec => []WindowHoldsBacklog
<1>1. IInv => WindowHoldsBacklog
  BY DEF IInv
<1> QED
  BY <1>1, InductiveInvariant, PTL

\* The ring implements the bounded FIFO of capacity Bins: publishing the tail
\* is its Push, publishing the head is its Pop, every other step is a stutter.
THEOREM Refinement == QueueSpec => ImplementsFIFO
<1>1. constructor => FIFO!Init
  BY DEF constructor, FIFO!Init
<1>2. IInv /\ [QueueNext]_queueVars => [FIFO!Next]_(FIFO!fifoVars)
  <2> SUFFICES ASSUME IInv, [QueueNext]_queueVars PROVE [FIFO!Next]_(FIFO!fifoVars)
    OBVIOUS
  <2>1. CASE PushPublish
    <3>1. FIFO!Push(pushing)
      BY <2>1, PushPublishIInv DEF PushPublish, FIFO!Push
    <3> QED
      BY <2>1, <3>1, PushPublishIInv DEF FIFO!Next
  <2>2. CASE PopPublish
    BY <2>2, PopPublishIInv DEF PopPublish, FIFO!Next, FIFO!Pop
  <2>3. CASE UNCHANGED <<sent, received>>
    BY <2>3 DEF FIFO!fifoVars
  <2> QED
    BY <2>1, <2>2, <2>3
    DEF QueueNext, Producer, Consumer, PushEnter, PushCopy, PopEnter, PopCopy, queueVars
<1> QED
  BY <1>1, <1>2, InductiveInvariant, PTL DEF QueueSpec, ImplementsFIFO, FIFO!Spec
==============================================================================
