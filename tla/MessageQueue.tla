----------------------------- MODULE MessageQueue -----------------------------
(***************************************************************************)
(* communication/MessageQueue.cpp, the lock-free ring shared by exactly    *)
(* two threads: one calls push(), the other one calls pop().               *)
(*                                                                         *)
(* CONFIG_USE_LOCKING is not defined by the build, so nothing protects the *)
(* ring but the order of the instructions.  Copying a Message in or out of *)
(* a slot is "not atomic" in the source: here it is one step per word, and *)
(* the other thread may run between any two of them.  The model keeps the  *)
(* program order of each thread, which the comments of push() and pop()    *)
(* demand ("Instructions must be executed in-order").                      *)
(***************************************************************************)
EXTENDS Naturals, Sequences

CONSTANTS Bins,       \* the argument of constructor(): usable slots
          Value,      \* what a word of a Message can hold
          Word,       \* the words a Message is copied by
          Garbage,    \* the content of a slot nobody has written
          MaxPushes   \* bound on the messages pushed in a behaviour

ASSUME BinsAssumption == Bins \in Nat \ {0}
ASSUME MaxPushesAssumption == MaxPushes \in Nat
ASSUME GarbageAssumption == Garbage \notin Value

VARIABLES
  m_ring,                   \* the slots, each a function from words
  m_headForPopOperations,   \* written by the consumer only
  m_tailForPushOperations,  \* written by the producer only
  pushing,                  \* the argument of the push() in progress, by word
  pushTodo,                 \* words push() has still to copy into the slot
  pushPc,                   \* "out" or "copy"
  popping,                  \* the words pop() has copied so far
  popTodo,                  \* words pop() has still to copy from the slot
  popPc,                    \* "out" or "copy"
  sent,                     \* history: accepted by push()
  received                  \* history: returned by pop()

producerVars == <<pushing, pushTodo, pushPc>>
consumerVars == <<popping, popTodo, popPc>>
queueVars == <<m_ring, m_headForPopOperations, m_tailForPushOperations,
               producerVars, consumerVars, sent, received>>

Head0 == m_headForPopOperations
Tail0 == m_tailForPushOperations

\* "For the non-blocking lockless algorithm, we need an extra slot."
m_size == Bins + 1
Slot == 0 .. Bins

\* A Message as its caller has it: every word belongs to the same value.
Message == { [w \in Word |-> v] : v \in Value }
AnyWords == [Word -> Value \cup {Garbage}]

\* Mutant: the index wraps at the bins, as if there were no extra slot.
increment_NoExtraSlot(index) == (index + 1) % Bins

increment(index) == (index + 1) % m_size

\* Mutant: the test forgets that the tail wraps.
isFull_NoWrap == Tail0 + 1 = Head0

isFull == increment(Tail0) = Head0
\* Mutant: the test forgets that the tail may be behind the head.
hasContent_NoWrap == Tail0 > Head0

hasContent == Head0 # Tail0

------------------------------------------------------------------------------
constructor ==
  /\ m_ring = [s \in Slot |-> [w \in Word |-> Garbage]]
  /\ m_headForPopOperations = 0
  /\ m_tailForPushOperations = 0
  /\ pushing = [w \in Word |-> Garbage]
  /\ pushTodo = {}
  /\ pushPc = "out"
  /\ popping = [w \in Word |-> Garbage]
  /\ popTodo = {}
  /\ popPc = "out"
  /\ sent = << >>
  /\ received = << >>

\* push() has found room.  (When it finds none it returns false and changes
\* nothing, so that outcome is a stuttering step.)
PushEnter(m) ==
  /\ pushPc = "out"
  /\ Len(sent) < MaxPushes
  /\ ~ isFull
  /\ pushing' = m
  /\ pushTodo' = Word
  /\ pushPc' = "copy"
  /\ UNCHANGED <<m_ring, m_headForPopOperations, m_tailForPushOperations,
                 consumerVars, sent, received>>

\* One word of m_ring[m_tailForPushOperations]=*message.
PushCopy(w) ==
  /\ pushPc = "copy"
  /\ w \in pushTodo
  /\ m_ring' = [m_ring EXCEPT ![Tail0] = [@ EXCEPT ![w] = pushing[w]]]
  /\ pushTodo' = pushTodo \ {w}
  /\ UNCHANGED <<m_headForPopOperations, m_tailForPushOperations, pushing,
                 pushPc, consumerVars, sent, received>>

\* Mutant: the tail is published before the copy is finished.
PushPublish_Early ==
  /\ pushPc = "copy"
  /\ m_tailForPushOperations' = increment(Tail0)
  /\ pushPc' = "out"
  /\ sent' = Append(sent, pushing)
  /\ UNCHANGED <<m_ring, m_headForPopOperations, pushing, pushTodo,
                 consumerVars, received>>

\* The slot is complete: publish the new tail and return true.
PushPublish ==
  /\ pushPc = "copy"
  /\ pushTodo = {}
  /\ m_tailForPushOperations' = increment(Tail0)
  /\ pushPc' = "out"
  /\ sent' = Append(sent, pushing)
  /\ UNCHANGED <<m_ring, m_headForPopOperations, pushing, pushTodo,
                 consumerVars, received>>

\* Mutant: pop() does not test for an empty queue.
PopEnter_Unchecked ==
  /\ popPc = "out"
  /\ popTodo' = Word
  /\ popPc' = "copy"
  /\ UNCHANGED <<m_ring, m_headForPopOperations, m_tailForPushOperations,
                 producerVars, popping, sent, received>>

\* pop() has found a message.  (An empty queue: false, nothing changes.)
PopEnter ==
  /\ popPc = "out"
  /\ hasContent
  /\ popTodo' = Word
  /\ popPc' = "copy"
  /\ UNCHANGED <<m_ring, m_headForPopOperations, m_tailForPushOperations,
                 producerVars, popping, sent, received>>

\* One word of *message=m_ring[m_headForPopOperations].
PopCopy(w) ==
  /\ popPc = "copy"
  /\ w \in popTodo
  /\ popping' = [popping EXCEPT ![w] = m_ring[Head0][w]]
  /\ popTodo' = popTodo \ {w}
  /\ UNCHANGED <<m_ring, m_headForPopOperations, m_tailForPushOperations,
                 producerVars, popPc, sent, received>>

\* The message is out: publish the new head and return true.
PopPublish ==
  /\ popPc = "copy"
  /\ popTodo = {}
  /\ m_headForPopOperations' = increment(Head0)
  /\ popPc' = "out"
  /\ received' = Append(received, popping)
  /\ UNCHANGED <<m_ring, m_tailForPushOperations, producerVars, popping,
                 popTodo, sent>>

Producer == (\E m \in Message : PushEnter(m)) \/ (\E w \in Word : PushCopy(w)) \/ PushPublish
Consumer == PopEnter \/ (\E w \in Word : PopCopy(w)) \/ PopPublish

QueueNext == Producer \/ Consumer

QueueSpec == constructor /\ [][QueueNext]_queueVars

\* A push() that was entered returns, and the consumer keeps calling pop():
\* both threads are loops that never block inside the queue.
QueueFairness ==
  /\ WF_queueVars((\E w \in Word : PushCopy(w)) \/ PushPublish)
  /\ WF_queueVars(Consumer)

------------------------------------------------------------------------------
(***************************************************************************)
(* The window of published, unread slots: Stored of them, the k-th at      *)
(* Position(k).                                                            *)
(***************************************************************************)
Stored == IF Head0 <= Tail0 THEN Tail0 - Head0 ELSE Tail0 + m_size - Head0

Position(k) == IF Head0 + k < m_size THEN Head0 + k ELSE Head0 + k - m_size

\* Both indices stay inside the ring, a message in transit is made of words of
\* the values pushed, and the histories hold whole messages or torn ones.
QueueTypeOK ==
  /\ m_ring \in [Slot -> AnyWords]
  /\ m_headForPopOperations \in Slot
  /\ m_tailForPushOperations \in Slot
  /\ pushing \in AnyWords
  /\ pushTodo \in SUBSET Word
  /\ pushPc \in {"out", "copy"}
  /\ popping \in AnyWords
  /\ popTodo \in SUBSET Word
  /\ popPc \in {"out", "copy"}
  /\ sent \in Seq(Message)
  /\ received \in Seq(AnyWords)

\* Every message pop() returned is, word for word, the message of the same
\* rank among those push() accepted: nothing is lost, duplicated, reordered or
\* read as a draft, whatever the interleaving of the two threads.
DeliveredInOrder ==
  /\ Len(received) <= Len(sent)
  /\ \A k \in 1 .. Len(received) : received[k] = sent[k]

\* While both threads are inside the ring they work on different slots, so the
\* unsynchronised copies of push() and pop() never race.
NoSlotRace == pushPc = "copy" /\ popPc = "copy" => Head0 # Tail0

\* The published and unread slots hold exactly the messages accepted and not
\* yet received: the two indices alone describe the content of the queue.
WindowHoldsBacklog ==
  /\ Len(sent) = Len(received) + Stored
  /\ \A k \in 0 .. Stored - 1 : m_ring[Position(k)] = sent[Len(received) + k + 1]

\* What the two threads know while they are inside the ring: the producer owns
\* the slot at the tail and the words it has copied are there; the consumer owns
\* the oldest published slot and the words it has copied are those of that slot.
InsideRing ==
  /\ pushPc = "copy" =>
       /\ ~ isFull
       /\ pushing \in Message
       /\ \A w \in Word \ pushTodo : m_ring[Tail0][w] = pushing[w]
  /\ popPc = "copy" =>
       /\ hasContent
       /\ \A w \in Word \ popTodo : popping[w] = m_ring[Head0][w]

\* The inductive invariant behind DeliveredInOrder and ImplementsFIFO.
IInv == QueueTypeOK /\ WindowHoldsBacklog /\ InsideRing /\ DeliveredInOrder

\* The ring implements the abstract bounded FIFO with Bins places.
FIFO == INSTANCE BoundedFIFO WITH Capacity <- Bins
ImplementsFIFO == FIFO!Spec

\* Every accepted message is eventually received.
AllDelivered ==
  \A k \in 1 .. MaxPushes : (Len(sent) >= k) ~> (Len(received) >= k)
==============================================================================
