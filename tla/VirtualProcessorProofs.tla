------------------------ MODULE VirtualProcessorProofs ------------------------
(***************************************************************************)
(* For any number of workers, groups and steps, any period and any size of *)
(* a message: VirtualCommunicator gives every worker the answer to its own *)
(* question, and VirtualProcessor neither forgets a worker that sleeps nor *)
(* runs one that was destroyed.                                            *)
(***************************************************************************)
EXTENDS VirtualProcessor, FiniteSetTheorems, SequenceTheorems, TLAPS

Questions == WorkerHandle \X Nat
Elements == Questions \X (1 .. Period)
Query == [group : Group, content : Seq(Questions)]
Phases == {"add", "inbox", "run", "end"}

Communicator ==
  [m_messageContent : [Group -> Seq(Questions)],
   m_workerCurrentIdentifiers : [Group -> Seq(WorkerHandle)],
   m_priorityQueue : SUBSET (Nat \X Group),
   m_pendingMessages : Nat,
   active : Nat,
   m_elementsForWorkers : [WorkerHandle -> Seq(Elements)],
   m_localPushedMessageStatus : BOOLEAN,
   m_globalPushedMessageStatus : BOOLEAN,
   m_outbox : Seq(Query)]

TypeOK ==
  /\ vc \in Communicator
  /\ m_aliveWorkers \subseteq WorkerHandle /\ m_activeWorkers \subseteq WorkerHandle
  /\ m_workersDone \subseteq WorkerHandle /\ m_waitingWorkers \subseteq WorkerHandle
  /\ m_activeWorkersToRestore \subseteq WorkerHandle
  /\ m_activeWorkerIterator \in WorkerHandle \cup {End} /\ m_initiatedIterator \in BOOLEAN
  /\ tasks \subseteq WorkerHandle /\ destroyed \subseteq WorkerHandle
  /\ left \in [WorkerHandle -> Nat]
  /\ asked \in [WorkerHandle -> Questions \cup {NoQuestion}]
  /\ replies \in Seq([group : Group, content : Seq(Elements)])
  /\ phase \in Phases
  /\ finalized \in BOOLEAN

\* Is w one of the workers of a group?
Queued(c, w) ==
  \E g \in Group : \E k \in DOMAIN c.m_workerCurrentIdentifiers[g] :
    c.m_workerCurrentIdentifiers[g][k] = w

\* The workers ws have asked the questions qs, one each.
Matches(qs, ws) == Len(qs) = Len(ws) /\ \A k \in DOMAIN ws : qs[k] = asked[ws[k]]

\* The real message with the questions qs, as the other rank answers it.
Answers(qs) ==
  [k \in 1 .. Len(qs) * Period |-> Answer(qs[(k - 1) \div Period + 1])[((k - 1) % Period) + 1]]

\* The message of the active group is under way, or its reply is.
UnderWay ==
  LET g == vc.active
  IN  \E qs \in Seq(Questions) :
        /\ Matches(qs, vc.m_workerCurrentIdentifiers[g])
        /\ \/ /\ vc.m_outbox = <<[group |-> g, content |-> qs]>> /\ replies = << >>
           \/ /\ vc.m_outbox = << >>
              /\ replies = <<[group |-> g, content |-> Answers(qs)]>>

\* At most one real message is pending, and then no worker runs.
OnePending ==
  \/ vc.m_pendingMessages = 0 /\ vc.m_outbox = << >> /\ replies = << >>
  \/ /\ vc.m_pendingMessages = 1 /\ vc.active \in Group /\ phase # "run"
     /\ vc.m_messageContent[vc.active] = << >>
     /\ Len(vc.m_workerCurrentIdentifiers[vc.active]) <= threshold
     /\ UnderWay

\* The other groups hold the questions of their workers, fewer than fill a
\* message.
GroupsMatch ==
  \A g \in Group :
    vc.m_pendingMessages = 0 \/ g # vc.active =>
      /\ Matches(vc.m_messageContent[g], vc.m_workerCurrentIdentifiers[g])
      /\ Len(vc.m_workerCurrentIdentifiers[g]) < threshold

\* The priority queue has the groups that hold something, under its length.
QueueIsExact ==
  \A p \in Nat, g \in Group :
    <<p, g>> \in vc.m_priorityQueue <=> p = Len(vc.m_messageContent[g]) /\ p # 0

\* A worker is in one place of one group.
OnePlace ==
  \A g, h \in Group : \A k \in DOMAIN vc.m_workerCurrentIdentifiers[g],
                         l \in DOMAIN vc.m_workerCurrentIdentifiers[h] :
    vc.m_workerCurrentIdentifiers[g][k] = vc.m_workerCurrentIdentifiers[h][l] => g = h /\ k = l

\* A worker in a group waits for an answer and does not run.
QueuedWait ==
  \A w \in WorkerHandle :
    Queued(vc, w) =>
      /\ w \in m_aliveWorkers /\ asked[w] # NoQuestion
      /\ vc.m_elementsForWorkers[w] = << >>
      /\ w \in m_activeWorkers => w \in m_waitingWorkers

\* What a worker has received is the answer it waits for, and a worker that is
\* about to be woken has received it.
Answered ==
  /\ \A w \in WorkerHandle :
       vc.m_elementsForWorkers[w] # << >> =>
         asked[w] # NoQuestion /\ vc.m_elementsForWorkers[w] = Answer(asked[w])
  /\ \A w \in m_activeWorkersToRestore : vc.m_elementsForWorkers[w] # << >>

\* How the sets of workers relate.
PoolOK ==
  /\ m_activeWorkers \subseteq m_aliveWorkers
  /\ m_waitingWorkers \subseteq m_activeWorkers /\ m_workersDone \subseteq m_activeWorkers
  /\ m_aliveWorkers \cap tasks = {} /\ destroyed \cap tasks = {}
  /\ destroyed \cap m_aliveWorkers \subseteq m_workersDone
  /\ m_activeWorkersToRestore \subseteq m_aliveWorkers \ m_workersDone
  /\ m_activeWorkersToRestore \cap m_activeWorkers \subseteq m_waitingWorkers
  /\ \A w \in m_workersDone : asked[w] = NoQuestion
  /\ \A w \in WorkerHandle \ destroyed : asked[w] # NoQuestion \/ left[w] > 0

\* Those that sleep, and those that will, are in a group or about to be woken.
SleepersKnown ==
  \A w \in m_waitingWorkers \cup (m_aliveWorkers \ m_activeWorkers) :
    w \in m_activeWorkersToRestore \/ Queued(vc, w)

\* The iterator is past the workers of this pass that wait or are done.
IteratorOK ==
  /\ m_activeWorkerIterator \in m_activeWorkers \cup {End}
  /\ \A w \in m_waitingWorkers \cup m_workersDone : w < m_activeWorkerIterator
  /\ ~ m_initiatedIterator => m_waitingWorkers = {} /\ m_workersDone = {}
  /\ phase = "run" => m_initiatedIterator

\* The inductive invariant.
CommunicatorInv == OnePending /\ GroupsMatch /\ QueueIsExact /\ OnePlace
WorkersInv == QueuedWait /\ Answered /\ PoolOK /\ SleepersKnown /\ IteratorOK
IInv == TypeOK /\ CommunicatorInv /\ WorkersInv

------------------------------------------------------------------------------
\* A set of naturals has a least element.
LEMMA LeastNumber ==
  ASSUME NEW S, S \subseteq Nat, S # {}
  PROVE  \E x \in S : \A y \in S : x <= y
<1> DEFINE Below == { 0 .. x - 1 : x \in S }
<1>1. Below \subseteq FiniteSubsetsOf(Nat)
  <2>1. ASSUME NEW x \in S PROVE 0 .. x - 1 \in FiniteSubsetsOf(Nat)
    <3>1. x \in Nat /\ IsFiniteSet(0 .. x - 1)
      BY FS_Interval
    <3> QED
      BY <3>1 DEF FiniteSubsetsOf
  <2> QED
    BY <2>1
<1>2. IsWellFoundedOn(StrictSubsetOrdering(Nat), FiniteSubsetsOf(Nat)) /\ Below # {}
  BY FS_StrictSubsetOrderingWellFounded
<1>3. PICK b \in Below : \A c \in Below : ~ (<<c, b>> \in StrictSubsetOrdering(Nat))
  <2> HIDE DEF Below
  <2> QED
    BY <1>1, <1>2, WFMin
<1>4. PICK x \in S : b = 0 .. x - 1
  BY <1>3
<1>5. ASSUME NEW y \in S, y < x PROVE FALSE
  <2>1. 0 .. y - 1 \in Below
    OBVIOUS
  <2>2. /\ 0 .. y - 1 \subseteq 0 .. x - 1
        /\ y \in 0 .. x - 1 /\ y \notin 0 .. y - 1
    BY <1>5
  <2>3. <<0 .. y - 1, 0 .. x - 1>> \in StrictSubsetOrdering(Nat)
    BY <2>2 DEF StrictSubsetOrdering
  <2> QED
    BY <1>3, <1>4, <2>1, <2>3
<1> QED
  BY <1>5

\* A finite set of naturals has a greatest element: what lies above an element
\* is a finite set, and smaller the greater the element is.
LEMMA GreatestNumber ==
  ASSUME NEW S, S \subseteq Nat, S # {}, IsFiniteSet(S)
  PROVE  \E x \in S : \A y \in S : y <= x
<1> DEFINE above(x) == { y \in S : y > x }
           Above == { above(x) : x \in S }
<1>1. Above \subseteq FiniteSubsetsOf(Nat)
  <2>1. ASSUME NEW x \in S PROVE above(x) \in FiniteSubsetsOf(Nat)
    <3>1. IsFiniteSet(above(x))
      BY FS_Subset
    <3> QED
      BY <3>1 DEF FiniteSubsetsOf
  <2> QED
    BY <2>1
<1>2. IsWellFoundedOn(StrictSubsetOrdering(Nat), FiniteSubsetsOf(Nat)) /\ Above # {}
  BY FS_StrictSubsetOrderingWellFounded
<1>3. PICK b \in Above : \A c \in Above : ~ (<<c, b>> \in StrictSubsetOrdering(Nat))
  <2> HIDE DEF Above
  <2> QED
    BY <1>1, <1>2, WFMin
<1>4. PICK x \in S : b = above(x)
  BY <1>3
<1>5. ASSUME NEW y \in S, y > x PROVE FALSE
  <2>1. above(y) \in Above
    OBVIOUS
  <2>2. above(y) \subseteq above(x) /\ y \in above(x) /\ y \notin above(y)
    <3>1. x \in Nat /\ y \in Nat
      BY <1>4
    <3>2. ASSUME NEW z \in above(y) PROVE z \in above(x)
      <4>1. z \in Nat /\ z \in S /\ z > y
        BY <3>2
      <4> QED
        BY <1>5, <3>1, <4>1
    <3>3. y \in above(x) /\ y \notin above(y)
      BY <1>5, <3>1
    <3> QED
      BY <3>2, <3>3
  <2>3. <<above(y), above(x)>> \in StrictSubsetOrdering(Nat)
    BY <2>2 DEF StrictSubsetOrdering
  <2> QED
    BY <1>3, <1>4, <2>1, <2>3
<1> QED
  BY <1>5

------------------------------------------------------------------------------
\* The size of a message in questions.
LEMMA Sizes ==
  /\ Period \in Nat /\ Period >= 1 /\ MessageUnits \in Nat /\ Period <= MessageUnits
  /\ threshold \in Nat /\ threshold >= 1 /\ threshold * Period <= MessageUnits
<1>1. Period \in Nat /\ Period >= 1 /\ MessageUnits \in Nat /\ Period <= MessageUnits
  BY CommunicatorAssumption
<1> DEFINE t == MessageUnits \div Period
           m == MessageUnits % Period
<1>2. t \in Int /\ m \in 0 .. Period - 1 /\ MessageUnits = Period * t + m
  BY <1>1
<1> HIDE DEF t, m
<1>3. ASSUME t <= 0 PROVE FALSE
  <2>1. Period * t <= 0
    BY <1>1, <1>2, <1>3
  <2> QED
    BY <1>1, <1>2, <2>1
<1>4. t * Period = Period * t
  BY <1>1, <1>2
<1>5. t \in Nat /\ t >= 1 /\ t * Period <= MessageUnits
  BY <1>1, <1>2, <1>3, <1>4
<1> QED
  BY <1>1, <1>5 DEF t, threshold

LEMMA Handles ==
  /\ WorkerHandle \subseteq Nat /\ Group \subseteq Nat
  /\ End \in Nat /\ End \notin WorkerHandle
  /\ \A w \in WorkerHandle : w < End
<1>1. WorkerHandle \subseteq Nat /\ WorkerHandle # {} /\ IsFiniteSet(WorkerHandle)
  BY CommunicatorAssumption, ProcessorAssumption
<1>2. Group \subseteq Nat
  BY CommunicatorAssumption DEF Group, getMessageUniqueId
<1>3. \E x \in WorkerHandle : \A y \in WorkerHandle : y <= x
  BY <1>1, GreatestNumber
<1>4. Max(WorkerHandle) \in WorkerHandle /\ \A y \in WorkerHandle : y <= Max(WorkerHandle)
  <2>1. \E x \in WorkerHandle : \A y \in WorkerHandle : x >= y
    BY <1>1, <1>3
  <2>2. Max(WorkerHandle) \in WorkerHandle /\ \A y \in WorkerHandle : Max(WorkerHandle) >= y
    BY <2>1 DEF Max
  <2> QED
    BY <1>1, <2>2
<1>5. PICK m \in Nat : m = Max(WorkerHandle)
  BY <1>1, <1>4
<1>6. End = m + 1 /\ \A w \in WorkerHandle : w < m + 1
  BY <1>1, <1>4, <1>5 DEF End
<1> QED
  BY <1>1, <1>2, <1>6

LEMMA Least ==
  ASSUME NEW S, S \subseteq WorkerHandle, S # {}
  PROVE  Min(S) \in S
<1>1. \E x \in S : \A y \in S : x <= y
  BY Handles, LeastNumber
<1> QED
  BY <1>1 DEF Min

\* begin() and ++ of the iterator.
LEMMA Iterators ==
  ASSUME NEW S, S \subseteq WorkerHandle
  PROVE  /\ begin(S) \in S \cup {End}
         /\ \A w \in WorkerHandle : next(S, w) \in S \cup {End} /\ w < next(S, w)
<1>1. begin(S) \in S \cup {End}
  BY Least DEF begin
<1>2. ASSUME NEW w \in WorkerHandle
      PROVE  next(S, w) \in S \cup {End} /\ w < next(S, w)
  <2> DEFINE T == { v \in S : v > w }
  <2>1. begin(T) \in T \cup {End}
    BY Least DEF begin
  <2> QED
    BY <2>1, Handles DEF next
<1> QED
  BY <1>1, <1>2

------------------------------------------------------------------------------
\* The place of element j of the share of worker k, and back.
LEMMA Places ==
  ASSUME NEW k \in Nat, NEW j \in 1 .. Period
  PROVE  /\ (k * Period + j - 1) \div Period = k
         /\ (k * Period + j - 1) % Period = j - 1
<1> DEFINE x == k * Period + j - 1
           q == x \div Period
           m == x % Period
<1>1. Period \in Nat /\ Period >= 1 /\ j \in Nat /\ j >= 1 /\ j <= Period
  BY Sizes
<1>2. k * Period \in Nat /\ k * Period = Period * k
  BY <1>1
<1>3. x \in Int /\ q \in Int /\ m \in 0 .. Period - 1 /\ x = Period * q + m
  BY <1>1, <1>2
<1> HIDE DEF q, m
<1>4. Period * (q - k) = j - 1 - m
  BY <1>1, <1>2, <1>3
<1>5. ASSUME q - k >= 1 PROVE FALSE
  <2>1. Period * (q - k) >= Period
    BY <1>1, <1>3, <1>5
  <2> QED
    BY <1>1, <1>3, <1>4, <2>1
<1>6. ASSUME q - k <= -1 PROVE FALSE
  <2>1. Period * (q - k) <= -Period
    BY <1>1, <1>3, <1>6
  <2> QED
    BY <1>1, <1>3, <1>4, <2>1
<1>7. q = k
  BY <1>1, <1>3, <1>5, <1>6
<1>8. m = j - 1
  BY <1>1, <1>3, <1>4, <1>7
<1> QED
  BY <1>7, <1>8 DEF q, m

\* A function on 1 .. n is a sequence of n elements.
LEMMA SeqOfFunction ==
  ASSUME NEW S, NEW n \in Nat, NEW f \in [1 .. n -> S]
  PROVE  f \in Seq(S) /\ Len(f) = n
<1>1. f \in Seq(S)
  BY SeqDef
<1>2. Len(f) \in Nat /\ DOMAIN f = 1 .. Len(f) /\ DOMAIN f = 1 .. n
  BY <1>1, LenProperties
<1> QED
  BY <1>1, <1>2

\* An answer has Period elements.
LEMMA OneAnswer ==
  ASSUME NEW q \in Questions
  PROVE  Answer(q) \in Seq(Elements) /\ Len(Answer(q)) = Period /\ Answer(q) # << >>
<1>1. Period \in Nat /\ Period >= 1
  BY Sizes
<1>2. Answer(q) \in [1 .. Period -> Elements]
  BY DEF Answer, Elements
<1>3. Answer(q) \in Seq(Elements) /\ Len(Answer(q)) = Period
  BY <1>1, <1>2, SeqOfFunction
<1> QED
  BY <1>1, <1>3

\* The share of the k-th worker in the reply is the answer to the k-th question.
LEMMA Shares ==
  ASSUME NEW qs \in Seq(Questions)
  PROVE  /\ Answers(qs) \in Seq(Elements)
         /\ \A k \in 1 .. Len(qs) :
              SubSeq(Answers(qs), (k - 1) * Period + 1, k * Period) = Answer(qs[k])
<1> DEFINE n == Len(qs)
           total == n * Period
           a == Answers(qs)
<1>1. Period \in Nat /\ Period >= 1 /\ n \in Nat /\ total \in Nat /\ \A k \in 1 .. n : qs[k] \in Questions
  BY Sizes, LenProperties, ElementOfSeq
<1>2. a = [x \in 1 .. total |-> Answer(qs[(x - 1) \div Period + 1])[((x - 1) % Period) + 1]]
  BY DEF Answers
<1>3. ASSUME NEW x \in 1 .. total PROVE a[x] \in Elements
  <2> DEFINE q == (x - 1) \div Period
             m == (x - 1) % Period
  <2>1. q \in Int /\ m \in 0 .. Period - 1 /\ x - 1 = Period * q + m
    BY <1>1
  <2>2. a[x] = Answer(qs[q + 1])[m + 1]
    BY <1>2
  <2> HIDE DEF q, m
  <2>3. q >= 0
    <3>1. ASSUME q <= -1 PROVE FALSE
      <4>1. Period * q <= -Period
        BY <1>1, <2>1, <3>1
      <4> QED
        BY <1>1, <2>1, <4>1
    <3> QED
      BY <2>1, <3>1
  <2>4. q + 1 <= n
    <3>1. ASSUME q >= n PROVE FALSE
      <4>1. Period * q >= n * Period
        BY <1>1, <2>1, <3>1
      <4> QED
        BY <1>1, <2>1, <4>1
    <3> QED
      BY <1>1, <2>1, <3>1
  <2>5. q + 1 \in 1 .. n /\ m + 1 \in 1 .. Period
    BY <1>1, <2>1, <2>3, <2>4
  <2>6. qs[q + 1] \in Questions
    BY <1>1, <2>5
  <2>7. Answer(qs[q + 1])[m + 1] = <<qs[q + 1], m + 1>>
    BY <2>5 DEF Answer
  <2> QED
    BY <2>2, <2>5, <2>6, <2>7 DEF Elements
<1>4. a \in [1 .. total -> Elements]
  BY <1>2, <1>3
<1>5. a \in Seq(Elements) /\ Len(a) = total
  <2> HIDE DEF a, total
  <2> QED
    BY <1>1, <1>4, SeqOfFunction
<1>6. ASSUME NEW k \in 1 .. n
      PROVE  SubSeq(a, (k - 1) * Period + 1, k * Period) = Answer(qs[k])
  <2> DEFINE b == (k - 1) * Period
             e == k * Period
             s == SubSeq(a, b + 1, e)
  <2>1. b \in Nat /\ e \in Nat /\ e = b + Period /\ e <= total
    <3>1. (k - 1) * Period \in Nat /\ k * Period = (k - 1) * Period + Period
      BY <1>1
    <3>2. k * Period <= n * Period
      BY <1>1
    <3> QED
      BY <1>1, <3>1, <3>2
  <2>2. qs[k] \in Questions
    BY <1>1
  <2>3. ASSUME NEW j \in 1 .. Period PROVE a[b + j] = <<qs[k], j>>
    <3>1. (b + j - 1) \div Period = k - 1 /\ (b + j - 1) % Period = j - 1
      <4>1. k - 1 \in Nat
        BY <1>1
      <4> QED
        BY <4>1, Places
    <3> DEFINE x == b + j
    <3>2. x \in 1 .. total
      BY <1>1, <2>1
    <3>3. a[x] = Answer(qs[(x - 1) \div Period + 1])[((x - 1) % Period) + 1]
      BY <1>2, <3>2
    <3>4. (x - 1) \div Period + 1 = k /\ ((x - 1) % Period) + 1 = j
      BY <1>1, <2>1, <3>1
    <3>5. a[x] = Answer(qs[k])[j]
      BY <3>3, <3>4
    <3> QED
      BY <3>5 DEF Answer
  <2> HIDE DEF a, b, e
  <2>4. s \in Seq(Elements) /\ Len(s) = Period /\ \A j \in 1 .. Period : s[j] = a[b + j]
    <3>1. b + 1 \in 1 .. Len(a) + 1 /\ e \in b .. Len(a)
      BY <1>1, <1>5, <2>1
    <3>2. /\ s \in Seq(Elements)
          /\ Len(s) = IF b + 1 <= e THEN e - (b + 1) + 1 ELSE 0
          /\ \A j \in 1 .. e - (b + 1) + 1 : s[j] = a[b + 1 + j - 1]
      BY <1>1, <1>5, <2>1, <3>1, SubSeqProperties
    <3>3. e - (b + 1) + 1 = Period /\ b + 1 <= e /\ \A j \in 1 .. Period : b + 1 + j - 1 = b + j
      BY <1>1, <2>1
    <3> QED
      BY <1>1, <3>2, <3>3
  <2>5. Answer(qs[k]) \in Seq(Elements) /\ Len(Answer(qs[k])) = Period
    BY <2>2, OneAnswer
  <2>6. \A j \in 1 .. Period : Answer(qs[k])[j] = <<qs[k], j>>
    BY DEF Answer
  <2>7. s = Answer(qs[k])
    <3> HIDE DEF s
    <3> QED
      BY <2>3, <2>4, <2>5, <2>6, SeqEqual
  <2> QED
    BY <2>7 DEF b, e
<1> QED
  BY <1>5, <1>6

------------------------------------------------------------------------------
\* The fields of a communicator.
LEMMA Fields ==
  ASSUME NEW c \in Communicator
  PROVE  /\ c.m_messageContent \in [Group -> Seq(Questions)]
         /\ c.m_workerCurrentIdentifiers \in [Group -> Seq(WorkerHandle)]
         /\ c.m_priorityQueue \in SUBSET (Nat \X Group)
         /\ c.m_pendingMessages \in Nat /\ c.active \in Nat
         /\ c.m_elementsForWorkers \in [WorkerHandle -> Seq(Elements)]
         /\ c.m_localPushedMessageStatus \in BOOLEAN /\ c.m_globalPushedMessageStatus \in BOOLEAN
         /\ c.m_outbox \in Seq(Query)
BY DEF Communicator

\* What flushMessage() changes.
LEMMA Flushed ==
  ASSUME NEW c \in Communicator, NEW g \in Group
  PROVE  LET f == flushMessage(c, g) IN
         /\ f \in Communicator
         /\ f.m_priorityQueue = c.m_priorityQueue \ {<<Len(c.m_messageContent[g]), g>>}
         /\ f.active = g
         /\ f.m_messageContent = [c.m_messageContent EXCEPT ![g] = << >>]
         /\ f.m_outbox = Append(c.m_outbox, [group |-> g, content |-> c.m_messageContent[g]])
         /\ f.m_pendingMessages = c.m_pendingMessages + 1
         /\ f.m_workerCurrentIdentifiers = c.m_workerCurrentIdentifiers
         /\ f.m_elementsForWorkers = c.m_elementsForWorkers
         /\ f.m_localPushedMessageStatus = c.m_localPushedMessageStatus
         /\ f.m_globalPushedMessageStatus = c.m_globalPushedMessageStatus
<1> DEFINE f == flushMessage(c, g)
           mc == [c.m_messageContent EXCEPT ![g] = << >>]
           pq == c.m_priorityQueue \ {<<Len(c.m_messageContent[g]), g>>}
           ob == Append(c.m_outbox, [group |-> g, content |-> c.m_messageContent[g]])
           pm == c.m_pendingMessages + 1
<1>1. f = [c EXCEPT !.m_priorityQueue = pq, !.active = g, !.m_messageContent = mc,
                    !.m_outbox = ob, !.m_pendingMessages = pm]
  BY DEF flushMessage, Communicator
<1>2. mc \in [Group -> Seq(Questions)]
  <2>1. << >> \in Seq(Questions) /\ c.m_messageContent \in [Group -> Seq(Questions)]
    BY Fields
  <2> QED
    BY <2>1
<1>3. pq \in SUBSET (Nat \X Group) /\ pm \in Nat /\ g \in Nat
  BY Fields, Handles
<1>4. ob \in Seq(Query)
  <2>1. [group |-> g, content |-> c.m_messageContent[g]] \in Query /\ c.m_outbox \in Seq(Query)
    BY Fields DEF Query
  <2> QED
    BY <2>1, AppendProperties
<1> HIDE DEF mc, pq, ob, pm
<1>5. f \in Communicator
  BY <1>1, <1>2, <1>3, <1>4 DEF Communicator
<1>6. /\ f.m_priorityQueue = pq /\ f.active = g /\ f.m_messageContent = mc
      /\ f.m_outbox = ob /\ f.m_pendingMessages = pm
      /\ f.m_workerCurrentIdentifiers = c.m_workerCurrentIdentifiers
      /\ f.m_elementsForWorkers = c.m_elementsForWorkers
      /\ f.m_localPushedMessageStatus = c.m_localPushedMessageStatus
      /\ f.m_globalPushedMessageStatus = c.m_globalPushedMessageStatus
  BY <1>1 DEF Communicator
<1> QED
  BY <1>5, <1>6 DEF mc, pq, ob, pm

\* e is c with worker w and its question q in group g.
HasQuestion(c, w, g, q, e) ==
  /\ e.m_priorityQueue = (c.m_priorityQueue \ {<<Len(c.m_messageContent[g]), g>>})
                           \cup {<<Len(c.m_messageContent[g]) + 1, g>>}
  /\ e.m_messageContent = [c.m_messageContent EXCEPT ![g] = Append(@, q)]
  /\ e.m_workerCurrentIdentifiers = [c.m_workerCurrentIdentifiers EXCEPT ![g] = Append(@, w)]
  /\ e.m_localPushedMessageStatus = TRUE /\ e.m_globalPushedMessageStatus = TRUE
  /\ e.active = c.active /\ e.m_outbox = c.m_outbox
  /\ e.m_pendingMessages = c.m_pendingMessages
  /\ e.m_elementsForWorkers = c.m_elementsForWorkers

\* What pushMessage() changes before its test for a flush.
LEMMA Enqueued ==
  ASSUME NEW c \in Communicator, NEW w \in WorkerHandle, NEW g \in Group, NEW q \in Questions
  PROVE  /\ enqueue(c, w, g, <<q>>) \in Communicator
         /\ HasQuestion(c, w, g, q, enqueue(c, w, g, <<q>>))
<1> DEFINE e == enqueue(c, w, g, <<q>>)
           n == Len(c.m_messageContent[g])
           mc == [c.m_messageContent EXCEPT ![g] = Append(@, q)]
           wc == [c.m_workerCurrentIdentifiers EXCEPT ![g] = Append(@, w)]
           pq == (c.m_priorityQueue \ {<<n, g>>}) \cup {<<n + 1, g>>}
           yes == TRUE
<1>0. /\ c.m_messageContent \in [Group -> Seq(Questions)] /\ c.m_messageContent[g] \in Seq(Questions)
      /\ c.m_workerCurrentIdentifiers \in [Group -> Seq(WorkerHandle)]
      /\ c.m_priorityQueue \in SUBSET (Nat \X Group)
  BY Fields
<1>1. Len(<<q>>) = 1 /\ c.m_messageContent[g] \o <<q>> = Append(c.m_messageContent[g], q)
  BY <1>0, AppendIsConcat
<1>2. e = [c EXCEPT !.m_globalPushedMessageStatus = yes, !.m_localPushedMessageStatus = yes,
                    !.m_priorityQueue = pq, !.m_messageContent = mc,
                    !.m_workerCurrentIdentifiers = wc]
  BY <1>1 DEF enqueue, Communicator
<1>3. mc \in [Group -> Seq(Questions)]
  <2>1. Append(c.m_messageContent[g], q) \in Seq(Questions)
    BY <1>0, AppendProperties
  <2> QED
    BY <1>0, <2>1
<1>4. wc \in [Group -> Seq(WorkerHandle)]
  <2>1. Append(c.m_workerCurrentIdentifiers[g], w) \in Seq(WorkerHandle)
    BY <1>0, AppendProperties
  <2> QED
    BY <1>0, <2>1
<1>5. pq \in SUBSET (Nat \X Group) /\ yes \in BOOLEAN
  <2>1. n \in Nat /\ n + 1 \in Nat
    BY <1>0, LenProperties
  <2> QED
    BY <1>0, <2>1
<1> HIDE DEF mc, wc, pq, yes
<1>6. e \in Communicator
  BY <1>2, <1>3, <1>4, <1>5 DEF Communicator
<1>7. /\ e.m_priorityQueue = pq /\ e.m_messageContent = mc /\ e.m_workerCurrentIdentifiers = wc
      /\ e.m_localPushedMessageStatus = yes /\ e.m_globalPushedMessageStatus = yes
      /\ e.active = c.active /\ e.m_outbox = c.m_outbox
      /\ e.m_pendingMessages = c.m_pendingMessages
      /\ e.m_elementsForWorkers = c.m_elementsForWorkers
  BY <1>2 DEF Communicator
<1> QED
  BY <1>6, <1>7 DEF HasQuestion, mc, wc, pq, yes

\* What the resets of the status, the pulling of an answer and the sending of a
\* real message change.
LEMMA StatusReset ==
  ASSUME NEW c \in Communicator, NEW f, f \in {resetLocalPushedMessageStatus(c), resetGlobalPushedMessageStatus(c)}
  PROVE  /\ f \in Communicator
         /\ f.m_messageContent = c.m_messageContent
         /\ f.m_workerCurrentIdentifiers = c.m_workerCurrentIdentifiers
         /\ f.m_priorityQueue = c.m_priorityQueue /\ f.m_pendingMessages = c.m_pendingMessages
         /\ f.active = c.active /\ f.m_elementsForWorkers = c.m_elementsForWorkers
         /\ f.m_outbox = c.m_outbox
         /\ f = resetLocalPushedMessageStatus(c) => f.m_localPushedMessageStatus = FALSE
<1> DEFINE no == FALSE
<1>1. no \in BOOLEAN
  OBVIOUS
<1>2. \/ f = [c EXCEPT !.m_localPushedMessageStatus = no]
      \/ f = [c EXCEPT !.m_globalPushedMessageStatus = no]
  BY DEF resetLocalPushedMessageStatus, resetGlobalPushedMessageStatus
<1>3. f = resetLocalPushedMessageStatus(c) => f = [c EXCEPT !.m_localPushedMessageStatus = no]
  BY DEF resetLocalPushedMessageStatus
<1> HIDE DEF no
<1>4. f \in Communicator
  BY <1>1, <1>2 DEF Communicator
<1>5. /\ f.m_messageContent = c.m_messageContent
      /\ f.m_workerCurrentIdentifiers = c.m_workerCurrentIdentifiers
      /\ f.m_priorityQueue = c.m_priorityQueue /\ f.m_pendingMessages = c.m_pendingMessages
      /\ f.active = c.active /\ f.m_elementsForWorkers = c.m_elementsForWorkers
      /\ f.m_outbox = c.m_outbox
  BY <1>2 DEF Communicator
<1>6. f = resetLocalPushedMessageStatus(c) => f.m_localPushedMessageStatus = no
  BY <1>3 DEF Communicator
<1> QED
  BY <1>4, <1>5, <1>6 DEF no

LEMMA Pulled ==
  ASSUME NEW c \in Communicator, NEW w \in WorkerHandle, NEW f, f = getMessageResponseElements(c, w)
  PROVE  /\ f \in Communicator
         /\ f.m_messageContent = c.m_messageContent
         /\ f.m_workerCurrentIdentifiers = c.m_workerCurrentIdentifiers
         /\ f.m_priorityQueue = c.m_priorityQueue /\ f.m_pendingMessages = c.m_pendingMessages
         /\ f.active = c.active /\ f.m_outbox = c.m_outbox
         /\ f.m_localPushedMessageStatus = c.m_localPushedMessageStatus
         /\ f.m_elementsForWorkers = [c.m_elementsForWorkers EXCEPT ![w] = << >>]
<1> DEFINE el == [c.m_elementsForWorkers EXCEPT ![w] = << >>]
<1>1. f = [c EXCEPT !.m_elementsForWorkers = el]
  BY DEF getMessageResponseElements, Communicator
<1>2. el \in [WorkerHandle -> Seq(Elements)]
  <2>1. << >> \in Seq(Elements) /\ c.m_elementsForWorkers \in [WorkerHandle -> Seq(Elements)]
    BY Fields
  <2> QED
    BY <2>1
<1> HIDE DEF el
<1>3. f \in Communicator
  BY <1>1, <1>2 DEF Communicator
<1>4. /\ f.m_messageContent = c.m_messageContent
      /\ f.m_workerCurrentIdentifiers = c.m_workerCurrentIdentifiers
      /\ f.m_priorityQueue = c.m_priorityQueue /\ f.m_pendingMessages = c.m_pendingMessages
      /\ f.active = c.active /\ f.m_outbox = c.m_outbox
      /\ f.m_localPushedMessageStatus = c.m_localPushedMessageStatus
      /\ f.m_elementsForWorkers = el
  BY <1>1 DEF Communicator
<1> QED
  BY <1>3, <1>4 DEF el

LEMMA Sent ==
  ASSUME NEW c \in Communicator, c.m_outbox # << >>,
         NEW f, f = [c EXCEPT !.m_outbox = Tail(@)]
  PROVE  /\ f \in Communicator
         /\ f.m_messageContent = c.m_messageContent
         /\ f.m_workerCurrentIdentifiers = c.m_workerCurrentIdentifiers
         /\ f.m_priorityQueue = c.m_priorityQueue /\ f.m_pendingMessages = c.m_pendingMessages
         /\ f.active = c.active /\ f.m_elementsForWorkers = c.m_elementsForWorkers
         /\ f.m_outbox = Tail(c.m_outbox)
<1> DEFINE t == Tail(c.m_outbox)
<1>1. t \in Seq(Query)
  BY Fields, HeadTailProperties
<1>2. f = [c EXCEPT !.m_outbox = t]
  BY DEF Communicator
<1> HIDE DEF t
<1>3. f \in Communicator
  BY <1>1, <1>2 DEF Communicator
<1>4. /\ f.m_messageContent = c.m_messageContent
      /\ f.m_workerCurrentIdentifiers = c.m_workerCurrentIdentifiers
      /\ f.m_priorityQueue = c.m_priorityQueue /\ f.m_pendingMessages = c.m_pendingMessages
      /\ f.active = c.active /\ f.m_elementsForWorkers = c.m_elementsForWorkers
      /\ f.m_outbox = t
  BY <1>2 DEF Communicator
<1> QED
  BY <1>3, <1>4 DEF t

\* The active group g waits for the answers to qs, its workers for nothing else.
Awaits(c, g, qs) ==
  LET ws == c.m_workerCurrentIdentifiers[g]
  IN  /\ c.m_pendingMessages = 1 /\ c.active = g /\ Len(qs) = Len(ws)
      /\ \A k, l \in DOMAIN ws : ws[k] = ws[l] => k = l
      /\ \A k \in DOMAIN ws : c.m_elementsForWorkers[ws[k]] = << >>

\* f is c with the answers to qs given to the workers of group g.
HasAnswers(c, g, qs, f) ==
  LET ws == c.m_workerCurrentIdentifiers[g]
  IN  /\ f.m_pendingMessages = 0
      /\ f.m_workerCurrentIdentifiers = [c.m_workerCurrentIdentifiers EXCEPT ![g] = << >>]
      /\ f.m_messageContent = c.m_messageContent /\ f.m_priorityQueue = c.m_priorityQueue
      /\ f.active = c.active /\ f.m_outbox = c.m_outbox
      /\ \A k \in DOMAIN ws : f.m_elementsForWorkers[ws[k]] = Answer(qs[k])
      /\ \A w \in WorkerHandle : (\A k \in DOMAIN ws : ws[k] # w) =>
           f.m_elementsForWorkers[w] = c.m_elementsForWorkers[w]

\* processInbox() with the reply to the active group: its workers get the
\* answers to their questions, and the group is empty.
LEMMA Received ==
  ASSUME NEW c \in Communicator, NEW g \in Group, NEW qs \in Seq(Questions), Awaits(c, g, qs),
         NEW reply, reply = [group |-> g, content |-> Answers(qs)]
  PROVE  /\ reactivated(c, reply) = c.m_workerCurrentIdentifiers[g]
         /\ processInbox(c, reply) \in Communicator
         /\ HasAnswers(c, g, qs, processInbox(c, reply))
<1> DEFINE f == processInbox(c, reply)
           ws == c.m_workerCurrentIdentifiers[g]
<1> USE DEF Awaits
<1>0. /\ ws \in Seq(WorkerHandle) /\ c.m_elementsForWorkers \in [WorkerHandle -> Seq(Elements)]
      /\ c.m_workerCurrentIdentifiers \in [Group -> Seq(WorkerHandle)]
      /\ DOMAIN ws = 1 .. Len(ws) /\ Len(ws) = Len(qs) /\ Len(ws) \in Nat
      /\ \A k \in DOMAIN ws : ws[k] \in WorkerHandle
  BY Fields, LenProperties, ElementOfSeq
<1>1. accepts(c, reply) /\ reply.group = g /\ reply.content = Answers(qs)
  BY DEF accepts
<1> DEFINE mine(w) == CHOOSE k \in 1 .. Len(ws) : ws[k] = w
           share(w) == SubSeq(Answers(qs), (mine(w) - 1) * Period + 1, mine(w) * Period)
           el == [w \in WorkerHandle |-> IF \E k \in DOMAIN ws : ws[k] = w
                                         THEN c.m_elementsForWorkers[w] \o share(w)
                                         ELSE c.m_elementsForWorkers[w]]
           ids == [c.m_workerCurrentIdentifiers EXCEPT ![g] = << >>]
           pm == c.m_pendingMessages - 1
<1>2. f = [c EXCEPT !.m_pendingMessages = pm, !.m_workerCurrentIdentifiers = ids,
                    !.m_elementsForWorkers = el]
  BY <1>1 DEF processInbox, Communicator
<1>3. ASSUME NEW k \in DOMAIN ws
      PROVE  el[ws[k]] = Answer(qs[k]) /\ Answer(qs[k]) \in Seq(Elements)
  <2>1. mine(ws[k]) = k
    BY <1>0
  <2>2. share(ws[k]) = Answer(qs[k])
    <3>1. k \in 1 .. Len(qs)
      BY <1>0
    <3>2. SubSeq(Answers(qs), (k - 1) * Period + 1, k * Period) = Answer(qs[k])
      BY <3>1, Shares
    <3> HIDE DEF mine
    <3> QED
      BY <2>1, <3>2
  <2>3. Answer(qs[k]) \in Seq(Elements)
    BY <1>0, ElementOfSeq, OneAnswer
  <2> HIDE DEF share
  <2>4. el[ws[k]] = << >> \o share(ws[k])
    BY <1>0
  <2> QED
    BY <2>2, <2>3, <2>4, ConcatEmptySeq
<1>4. \A w \in WorkerHandle : (\A k \in DOMAIN ws : ws[k] # w) => el[w] = c.m_elementsForWorkers[w]
  <2> HIDE DEF share
  <2> QED
    OBVIOUS
<1>5. el \in [WorkerHandle -> Seq(Elements)]
  <2>1. ASSUME NEW w \in WorkerHandle PROVE el[w] \in Seq(Elements)
    <3> HIDE DEF el
    <3>1. CASE \E k \in DOMAIN ws : ws[k] = w
      BY <1>3, <3>1
    <3>2. CASE \A k \in DOMAIN ws : ws[k] # w
      BY <1>0, <1>4, <3>2
    <3> QED
      BY <3>1, <3>2
  <2>2. el = [w \in WorkerHandle |-> el[w]]
    <3> HIDE DEF share
    <3> QED
      OBVIOUS
  <2> HIDE DEF el
  <2> QED
    BY <2>1, <2>2
<1>6. ids \in [Group -> Seq(WorkerHandle)]
  <2>1. << >> \in Seq(WorkerHandle)
    OBVIOUS
  <2> QED
    BY <1>0, <2>1
<1>7. pm \in Nat /\ pm = 0
  OBVIOUS
<1>8. reactivated(c, reply) = ws
  BY <1>1 DEF reactivated
<1> HIDE DEF el, ids, pm
<1>9. f \in Communicator
  BY <1>2, <1>5, <1>6, <1>7 DEF Communicator
<1>10. /\ f.m_pendingMessages = pm /\ f.m_workerCurrentIdentifiers = ids
       /\ f.m_elementsForWorkers = el
       /\ f.m_messageContent = c.m_messageContent /\ f.m_priorityQueue = c.m_priorityQueue
       /\ f.active = c.active /\ f.m_outbox = c.m_outbox
  BY <1>2 DEF Communicator
<1>11. f.m_pendingMessages = 0 /\ f.m_workerCurrentIdentifiers = [c.m_workerCurrentIdentifiers EXCEPT ![g] = << >>]
  BY <1>7, <1>10 DEF ids
<1>12. /\ \A k \in DOMAIN ws : f.m_elementsForWorkers[ws[k]] = Answer(qs[k])
       /\ \A w \in WorkerHandle : (\A k \in DOMAIN ws : ws[k] # w) =>
              f.m_elementsForWorkers[w] = c.m_elementsForWorkers[w]
  BY <1>3, <1>4, <1>10
<1> QED
  BY <1>8, <1>9, <1>10, <1>11, <1>12 DEF HasAnswers

------------------------------------------------------------------------------
LEMMA InitIInv == Init => IInv
<1> SUFFICES ASSUME Init PROVE IInv
  OBVIOUS
<1> USE DEF Init
<1>0. /\ WorkerHandle \subseteq Nat /\ threshold >= 1 /\ threshold \in Nat /\ End \notin WorkerHandle
      /\ Steps \in Nat /\ Steps > 0
  BY Handles, Sizes, ProcessorAssumption
<1>1. /\ vc.m_messageContent = [g \in Group |-> << >>]
      /\ vc.m_workerCurrentIdentifiers = [g \in Group |-> << >>]
      /\ vc.m_priorityQueue = {} /\ vc.m_pendingMessages = 0 /\ vc.active = 0
      /\ vc.m_elementsForWorkers = [w \in WorkerHandle |-> << >>]
      /\ vc.m_outbox = << >>
  BY DEF newCommunicator
<1>2. vc \in Communicator
  <2>1. << >> \in Seq(Questions) /\ << >> \in Seq(WorkerHandle) /\ << >> \in Seq(Elements) /\ << >> \in Seq(Query)
    OBVIOUS
  <2>2. /\ [g \in Group |-> << >>] \in [Group -> Seq(Questions)]
        /\ [g \in Group |-> << >>] \in [Group -> Seq(WorkerHandle)]
        /\ [w \in WorkerHandle |-> << >>] \in [WorkerHandle -> Seq(Elements)]
    BY <2>1
  <2>3. {} \in SUBSET (Nat \X Group) /\ 0 \in Nat
    OBVIOUS
  <2> QED
    BY <2>1, <2>2, <2>3 DEF newCommunicator, Communicator
<1>3. TypeOK
  <2>1. << >> \in Seq([group : Group, content : Seq(Elements)])
    OBVIOUS
  <2>2. left \in [WorkerHandle -> Nat] /\ asked \in [WorkerHandle -> Questions \cup {NoQuestion}]
    BY <1>0
  <2>3. m_initiatedIterator \in BOOLEAN /\ finalized \in BOOLEAN
    BY Zenon
  <2>4. phase \in Phases
    BY DEF Phases
  <2> QED
    BY <1>2, <2>1, <2>2, <2>3, <2>4 DEF TypeOK
<1>4. \A g \in Group : vc.m_workerCurrentIdentifiers[g] = << >> /\ vc.m_messageContent[g] = << >>
  BY <1>1
<1>5. Len(<< >>) = 0 /\ DOMAIN << >> = {}
  OBVIOUS
<1>6. CommunicatorInv
  <2>1. OnePending
    BY <1>1 DEF OnePending
  <2>2. GroupsMatch
    BY <1>0, <1>4, <1>5 DEF GroupsMatch, Matches
  <2>3. QueueIsExact
    BY <1>1, <1>4, <1>5 DEF QueueIsExact
  <2>4. OnePlace
    BY <1>4, <1>5 DEF OnePlace
  <2> QED
    BY <2>1, <2>2, <2>3, <2>4 DEF CommunicatorInv
<1>7. WorkersInv
  <2>1. \A w \in WorkerHandle : ~ Queued(vc, w)
    BY <1>4, <1>5 DEF Queued
  <2>2. \A w \in WorkerHandle : vc.m_elementsForWorkers[w] = << >>
    BY <1>1
  <2>3. QueuedWait /\ Answered
    BY <2>1, <2>2 DEF QueuedWait, Answered
  <2>4. PoolOK
    BY <1>0 DEF PoolOK
  <2>5. SleepersKnown /\ IteratorOK
    BY DEF SleepersKnown, IteratorOK
  <2> QED
    BY <2>3, <2>4, <2>5 DEF WorkersInv
<1> QED
  BY <1>3, <1>6, <1>7 DEF IInv

\* The communicator's part is about vc, the questions and the replies alone.
LEMMA SameCommunicator ==
  ASSUME CommunicatorInv, UNCHANGED <<vc, asked, replies>>,
         phase' = "run" => vc.m_pendingMessages = 0
  PROVE  CommunicatorInv'
<1>1. OnePending'
  <2>1. CASE vc.m_pendingMessages = 0
    BY <2>1 DEF CommunicatorInv, OnePending
  <2>2. CASE vc.m_pendingMessages # 0
    <3>1. OnePending /\ UnderWay
      BY <2>2 DEF CommunicatorInv, OnePending
    <3>2. UnderWay'
      BY <3>1, Zenon DEF UnderWay, Matches, Answers, Answer
    <3> QED
      BY <2>2, <3>1, <3>2 DEF OnePending
  <2> QED
    BY <2>1, <2>2
<1>2. GroupsMatch'
  BY DEF CommunicatorInv, GroupsMatch, Matches
<1>3. QueueIsExact' /\ OnePlace'
  BY DEF CommunicatorInv, QueueIsExact, OnePlace
<1> QED
  BY <1>1, <1>2, <1>3 DEF CommunicatorInv

\* mainLoop() adds a worker.
LEMMA AddWorkerIInv ==
  ASSUME IInv, AddWorker
  PROVE  IInv'
<1> DEFINE w == Min(tasks)
<1>0. TypeOK /\ CommunicatorInv /\ WorkersInv
  BY DEF IInv
<1>1. /\ phase' = "inbox"
      /\ UNCHANGED <<vc, m_workersDone, m_waitingWorkers, m_activeWorkersToRestore,
                     m_activeWorkerIterator, m_initiatedIterator, left, asked, destroyed,
                     replies, finalized>>
  BY DEF AddWorker, iteratorVars, workerVars
<1>2. \/ UNCHANGED <<tasks, m_aliveWorkers, m_activeWorkers>>
      \/ /\ w \in tasks /\ w \in WorkerHandle
         /\ tasks' = tasks \ {w} /\ m_aliveWorkers' = m_aliveWorkers \cup {w}
         /\ m_activeWorkers' = m_activeWorkers \cup {w}
  BY <1>0, Least DEF AddWorker, TypeOK
<1> HIDE DEF w
<1>3. CommunicatorInv'
  BY <1>0, <1>1, SameCommunicator
<1>4. TypeOK'
  BY <1>0, <1>1, <1>2 DEF TypeOK, Phases
<1>5. \A v \in WorkerHandle : Queued(vc, v)' <=> Queued(vc, v)
  BY <1>1 DEF Queued
<1>6. PoolOK'
  BY <1>0, <1>1, <1>2 DEF TypeOK, WorkersInv, PoolOK
<1>7. QueuedWait' /\ Answered'
  BY <1>0, <1>1, <1>2, <1>5 DEF WorkersInv, QueuedWait, Answered, PoolOK
<1>8. SleepersKnown'
  BY <1>0, <1>1, <1>2, <1>5 DEF TypeOK, WorkersInv, SleepersKnown
<1>9. IteratorOK'
  BY <1>0, <1>1, <1>2 DEF WorkersInv, IteratorOK
<1> QED
  BY <1>3, <1>4, <1>6, <1>7, <1>8, <1>9 DEF IInv, WorkersInv

\* run() starts, the inbox holding no reply.
LEMMA NoReplyIInv ==
  ASSUME IInv, NoReply
  PROVE  IInv'
<1>0. TypeOK /\ CommunicatorInv /\ WorkersInv
  BY DEF IInv
<1>1. UNCHANGED <<vc, m_aliveWorkers, m_activeWorkers, m_workersDone, m_waitingWorkers,
                  m_activeWorkersToRestore, tasks, left, asked, destroyed, replies, finalized>>
  BY DEF NoReply, poolVars, workerVars
<1>2. phase' \in Phases /\ (phase' = "run" => vc.m_pendingMessages = 0)
  BY <1>1 DEF NoReply, StartRun, isReady, Phases
<1>3. /\ m_activeWorkerIterator' = IF m_initiatedIterator THEN m_activeWorkerIterator ELSE begin(m_activeWorkers)
      /\ m_initiatedIterator' = TRUE
  BY DEF NoReply, StartRun
<1>4. CommunicatorInv'
  BY <1>0, <1>1, <1>2, SameCommunicator
<1>5. IteratorOK'
  <2>1. begin(m_activeWorkers) \in m_activeWorkers \cup {End}
    BY <1>0, Iterators DEF TypeOK
  <2> QED
    BY <1>0, <1>1, <1>3, <2>1 DEF WorkersInv, IteratorOK
<1>6. TypeOK'
  <2>1. m_initiatedIterator' \in BOOLEAN
    BY <1>3, Zenon
  <2>2. m_activeWorkerIterator' \in WorkerHandle \cup {End}
    BY <1>0, <1>1, <1>5 DEF IteratorOK, TypeOK
  <2> QED
    BY <1>0, <1>1, <1>2, <2>1, <2>2 DEF TypeOK
<1>7. QueuedWait' /\ Answered'
  BY <1>0, <1>1 DEF WorkersInv, QueuedWait, Answered, Queued
<1>8. PoolOK'
  BY <1>0, <1>1 DEF WorkersInv, PoolOK
<1>9. SleepersKnown'
  BY <1>0, <1>1 DEF WorkersInv, SleepersKnown, Queued
<1> QED
  BY <1>4, <1>5, <1>6, <1>7, <1>8, <1>9 DEF IInv, WorkersInv

\* The end of mainLoop(): a reset() finds no worker alive.
LEMMA EndOfMainLoopIInv ==
  ASSUME IInv, EndOfMainLoop
  PROVE  IInv'
<1>0. TypeOK /\ CommunicatorInv /\ WorkersInv
  BY DEF IInv
<1>1. /\ phase' = "add"
      /\ UNCHANGED <<vc, m_aliveWorkers, m_activeWorkers, m_workersDone, m_waitingWorkers,
                     m_activeWorkersToRestore, m_activeWorkerIterator, tasks, left, asked,
                     destroyed, replies>>
  BY DEF EndOfMainLoop, poolVars, workerVars
<1>2. finalized' \in BOOLEAN /\ m_initiatedIterator' \in BOOLEAN
  BY <1>0, Zenon DEF EndOfMainLoop, TypeOK
<1>3. ~ m_initiatedIterator' => ~ m_initiatedIterator \/ m_aliveWorkers = {}
  BY Zenon DEF EndOfMainLoop
<1>4. CommunicatorInv'
  BY <1>0, <1>1, SameCommunicator
<1>5. IteratorOK'
  BY <1>0, <1>1, <1>3 DEF WorkersInv, IteratorOK, PoolOK
<1>6. TypeOK'
  BY <1>0, <1>1, <1>2 DEF TypeOK, Phases
<1>7. QueuedWait' /\ Answered'
  BY <1>0, <1>1 DEF WorkersInv, QueuedWait, Answered, Queued
<1>8. PoolOK'
  BY <1>0, <1>1 DEF WorkersInv, PoolOK
<1>9. SleepersKnown'
  BY <1>0, <1>1 DEF WorkersInv, SleepersKnown, Queued
<1> QED
  BY <1>4, <1>5, <1>6, <1>7, <1>8, <1>9 DEF IInv, WorkersInv

\* Another rank answers the real message that is under way.
LEMMA ReplyIInv ==
  ASSUME IInv, Reply
  PROVE  IInv'
<1> DEFINE g == vc.active
           ws == vc.m_workerCurrentIdentifiers[g]
<1>0. TypeOK /\ CommunicatorInv /\ WorkersInv /\ vc \in Communicator /\ vc.m_outbox # << >>
  BY DEF IInv, TypeOK, Reply
<1>1. UNCHANGED <<m_aliveWorkers, m_activeWorkers, m_workersDone, m_waitingWorkers,
                  m_activeWorkersToRestore, m_activeWorkerIterator, m_initiatedIterator,
                  tasks, left, asked, destroyed, phase, finalized>>
  BY DEF Reply, poolVars, iteratorVars, workerVars
<1>2. /\ vc.m_pendingMessages = 1 /\ g \in Group /\ phase # "run"
      /\ vc.m_messageContent[g] = << >> /\ Len(ws) <= threshold /\ UnderWay
  BY <1>0 DEF CommunicatorInv, OnePending
<1>3. PICK qs \in Seq(Questions) :
        Matches(qs, ws) /\ vc.m_outbox = <<[group |-> g, content |-> qs]>> /\ replies = << >>
  BY <1>0, <1>2 DEF UnderWay
<1>4. Head(vc.m_outbox).group = g /\ Head(vc.m_outbox).content = qs /\ Tail(vc.m_outbox) = << >>
  BY <1>3
<1>5. vc' = [vc EXCEPT !.m_outbox = Tail(@)]
  BY DEF Reply
<1>6. /\ vc' \in Communicator
      /\ vc'.m_messageContent = vc.m_messageContent
      /\ vc'.m_workerCurrentIdentifiers = vc.m_workerCurrentIdentifiers
      /\ vc'.m_priorityQueue = vc.m_priorityQueue /\ vc'.m_pendingMessages = vc.m_pendingMessages
      /\ vc'.active = vc.active /\ vc'.m_elementsForWorkers = vc.m_elementsForWorkers
      /\ vc'.m_outbox = << >>
  BY <1>0, <1>4, <1>5, Sent
<1>7. replies' = <<[group |-> g, content |-> Answers(qs)]>>
  <2>1. replies' = Append(<< >>, [group |-> g, content |-> Answers(qs)])
    BY <1>3, <1>4 DEF Reply, Answers
  <2> QED
    BY <2>1
<1>8. TypeOK'
  <2>1. [group |-> g, content |-> Answers(qs)] \in [group : Group, content : Seq(Elements)]
    BY <1>2, Shares
  <2>2. replies' \in Seq([group : Group, content : Seq(Elements)])
    BY <1>7, <2>1
  <2> QED
    BY <1>0, <1>1, <1>6, <2>2 DEF TypeOK
<1>9. CommunicatorInv'
  <2>1. UnderWay'
    <3>1. Matches(qs, vc.m_workerCurrentIdentifiers[vc.active])'
      BY <1>1, <1>3, <1>6 DEF Matches
    <3>2. vc'.m_outbox = << >> /\ replies' = <<[group |-> vc'.active, content |-> Answers(qs)]>>
      BY <1>6, <1>7
    <3> QED
      BY <3>1, <3>2, Zenon DEF UnderWay, Answers, Answer
  <2>2. OnePending'
    BY <1>1, <1>2, <1>6, <2>1 DEF OnePending
  <2>3. GroupsMatch'
    BY <1>0, <1>1, <1>6 DEF CommunicatorInv, GroupsMatch, Matches
  <2>4. QueueIsExact' /\ OnePlace'
    BY <1>0, <1>6 DEF CommunicatorInv, QueueIsExact, OnePlace
  <2> QED
    BY <2>2, <2>3, <2>4 DEF CommunicatorInv
<1>10. WorkersInv'
  <2>1. \A w \in WorkerHandle : Queued(vc, w)' <=> Queued(vc, w)
    BY <1>6 DEF Queued
  <2>2. QueuedWait' /\ Answered'
    BY <1>0, <1>1, <1>6, <2>1 DEF WorkersInv, QueuedWait, Answered
  <2>3. PoolOK' /\ IteratorOK'
    BY <1>0, <1>1 DEF WorkersInv, PoolOK, IteratorOK
  <2>4. SleepersKnown'
    BY <1>0, <1>1, <2>1 DEF WorkersInv, SleepersKnown, TypeOK
  <2> QED
    BY <2>2, <2>3, <2>4 DEF WorkersInv
<1> QED
  BY <1>8, <1>9, <1>10 DEF IInv

\* run() receives the reply: the workers of the active group are about to be
\* woken, each with its answer.
LEMMA ReceiveReplyIInv ==
  ASSUME IInv, ReceiveReply
  PROVE  IInv'
<1> DEFINE g == vc.active
           ids == vc.m_workerCurrentIdentifiers
           ws == ids[g]
           reply == Head(replies)
<1>0. TypeOK /\ CommunicatorInv /\ WorkersInv /\ vc \in Communicator /\ replies # << >>
  BY DEF IInv, TypeOK, ReceiveReply
<1>1. UNCHANGED <<m_aliveWorkers, m_activeWorkers, m_workersDone, m_waitingWorkers,
                  tasks, left, asked, destroyed, finalized>>
  BY DEF ReceiveReply, workerVars
<1>2. vc.m_pendingMessages = 1 /\ g \in Group /\ vc.m_messageContent[g] = << >> /\ UnderWay
  BY <1>0 DEF CommunicatorInv, OnePending
<1>3. PICK qs \in Seq(Questions) :
        /\ Matches(qs, ws) /\ vc.m_outbox = << >>
        /\ replies = <<[group |-> g, content |-> Answers(qs)]>>
  BY <1>0, <1>2 DEF UnderWay
<1>4. reply = [group |-> g, content |-> Answers(qs)] /\ replies' = << >>
  BY <1>3 DEF ReceiveReply
<1>5. /\ ids \in [Group -> Seq(WorkerHandle)] /\ DOMAIN ws = 1 .. Len(ws) /\ Len(ws) = Len(qs)
      /\ \A k \in DOMAIN ws : ws[k] \in WorkerHandle /\ qs[k] = asked[ws[k]]
  <2>1. ids \in [Group -> Seq(WorkerHandle)]
    BY <1>0, Fields
  <2>2. ws \in Seq(WorkerHandle)
    BY <1>2, <2>1
  <2> QED
    BY <1>3, <2>1, <2>2, LenProperties, ElementOfSeq DEF Matches
<1>6. \A k \in DOMAIN ws : Queued(vc, ws[k])
  BY <1>2 DEF Queued
<1>7. \A k, l \in DOMAIN ws : ws[k] = ws[l] => k = l
  BY <1>0, <1>2 DEF CommunicatorInv, OnePlace
<1>8. \A k \in DOMAIN ws :
        /\ ws[k] \in m_aliveWorkers /\ asked[ws[k]] # NoQuestion
        /\ vc.m_elementsForWorkers[ws[k]] = << >>
        /\ ws[k] \in m_activeWorkers => ws[k] \in m_waitingWorkers
  BY <1>0, <1>5, <1>6 DEF WorkersInv, QueuedWait
<1>9. vc' = processInbox(vc, reply)
  BY DEF ReceiveReply
<1>10. /\ reactivated(vc, reply) = ws
       /\ vc' \in Communicator
       /\ vc'.m_pendingMessages = 0
       /\ vc'.m_workerCurrentIdentifiers = [ids EXCEPT ![g] = << >>]
       /\ vc'.m_messageContent = vc.m_messageContent /\ vc'.m_priorityQueue = vc.m_priorityQueue
       /\ vc'.active = vc.active /\ vc'.m_outbox = vc.m_outbox
       /\ \A k \in DOMAIN ws : vc'.m_elementsForWorkers[ws[k]] = Answer(qs[k])
       /\ \A w \in WorkerHandle : (\A k \in DOMAIN ws : ws[k] # w) =>
            vc'.m_elementsForWorkers[w] = vc.m_elementsForWorkers[w]
  <2>1. Awaits(vc, g, qs)
    BY <1>2, <1>5, <1>7, <1>8 DEF Awaits
  <2>2. /\ reactivated(vc, reply) = ws /\ vc' \in Communicator
        /\ HasAnswers(vc, g, qs, vc')
    BY <1>0, <1>2, <1>4, <1>9, <2>1, Received
  <2> HIDE DEF reply
  <2> QED
    BY <2>2 DEF HasAnswers
<1>11. m_activeWorkersToRestore' = m_activeWorkersToRestore \cup { ws[k] : k \in DOMAIN ws }
  BY <1>10 DEF ReceiveReply
<1>12. /\ vc'.m_workerCurrentIdentifiers[g] = << >>
       /\ \A h \in Group \ {g} : vc'.m_workerCurrentIdentifiers[h] = ids[h]
  BY <1>2, <1>5, <1>10
<1>13. ASSUME NEW w \in WorkerHandle
       PROVE  Queued(vc', w) <=> Queued(vc, w) /\ \A k \in DOMAIN ws : ws[k] # w
  <2>1. ASSUME Queued(vc', w) PROVE Queued(vc, w) /\ \A k \in DOMAIN ws : ws[k] # w
    <3>0. PICK h \in Group : \E l \in DOMAIN vc'.m_workerCurrentIdentifiers[h] :
                               vc'.m_workerCurrentIdentifiers[h][l] = w
      BY <2>1 DEF Queued
    <3>1. PICK l \in DOMAIN vc'.m_workerCurrentIdentifiers[h] :
            vc'.m_workerCurrentIdentifiers[h][l] = w
      BY <3>0
    <3>2. h # g /\ l \in DOMAIN ids[h] /\ ids[h][l] = w
      BY <1>12, <3>1
    <3>3. \A k \in DOMAIN ws : ws[k] # w
      BY <1>0, <1>2, <3>2 DEF CommunicatorInv, OnePlace
    <3> QED
      BY <3>2, <3>3 DEF Queued
  <2>2. ASSUME Queued(vc, w), \A k \in DOMAIN ws : ws[k] # w PROVE Queued(vc', w)
    <3>0. PICK h \in Group : \E l \in DOMAIN ids[h] : ids[h][l] = w
      BY <2>2 DEF Queued
    <3>1. PICK l \in DOMAIN ids[h] : ids[h][l] = w
      BY <3>0
    <3>2. h # g
      BY <2>2, <3>1
    <3> QED
      BY <1>12, <3>1, <3>2 DEF Queued
  <2> QED
    BY <2>1, <2>2
<1> HIDE DEF reply
<1>14. CommunicatorInv'
  <2>1. OnePending'
    BY <1>3, <1>4, <1>10 DEF OnePending
  <2>2. GroupsMatch'
    <3>1. ASSUME NEW h \in Group
          PROVE  /\ Matches(vc.m_messageContent[h], vc.m_workerCurrentIdentifiers[h])'
                 /\ Len(vc.m_workerCurrentIdentifiers[h])' < threshold
      <4>1. CASE h = g
        BY <1>2, <1>10, <1>12, <4>1, Sizes DEF Matches
      <4>2. CASE h # g
        BY <1>0, <1>1, <1>10, <1>12, <4>2 DEF CommunicatorInv, GroupsMatch, Matches
      <4> QED
        BY <4>1, <4>2
    <3> QED
      BY <3>1 DEF GroupsMatch
  <2>3. QueueIsExact'
    <3>1. QueueIsExact /\ vc'.m_messageContent = vc.m_messageContent /\ vc'.m_priorityQueue = vc.m_priorityQueue
      BY <1>0, <1>10 DEF CommunicatorInv
    <3> QED
      BY <3>1 DEF QueueIsExact
  <2>4. OnePlace'
    <3>1. \A h \in Group : \A k \in DOMAIN vc'.m_workerCurrentIdentifiers[h] :
            h # g /\ k \in DOMAIN ids[h] /\ vc'.m_workerCurrentIdentifiers[h][k] = ids[h][k]
      BY <1>12
    <3> QED
      BY <1>0, <3>1 DEF CommunicatorInv, OnePlace
  <2> QED
    BY <2>1, <2>2, <2>3, <2>4 DEF CommunicatorInv
<1>15. QueuedWait'
  BY <1>0, <1>1, <1>10, <1>13 DEF WorkersInv, QueuedWait
<1>16. Answered'
  <2>1. ASSUME NEW w \in WorkerHandle, vc'.m_elementsForWorkers[w] # << >>
        PROVE  asked[w] # NoQuestion /\ vc'.m_elementsForWorkers[w] = Answer(asked[w])
    <3>1. CASE \E k \in DOMAIN ws : ws[k] = w
      BY <1>5, <1>8, <1>10, <3>1
    <3>2. CASE \A k \in DOMAIN ws : ws[k] # w
      BY <1>0, <1>10, <2>1, <3>2 DEF WorkersInv, Answered
    <3> QED
      BY <3>1, <3>2
  <2>2. ASSUME NEW w \in m_activeWorkersToRestore'
        PROVE  vc'.m_elementsForWorkers[w] # << >>
    <3>1. CASE \E k \in DOMAIN ws : ws[k] = w
      <4>1. PICK k \in DOMAIN ws : ws[k] = w
        BY <3>1
      <4>2. qs[k] \in Questions
        BY <1>5, <4>1, ElementOfSeq
      <4> QED
        BY <1>10, <4>1, <4>2, OneAnswer
    <3>2. CASE \A k \in DOMAIN ws : ws[k] # w
      <4>1. w \in m_activeWorkersToRestore /\ w \in WorkerHandle
        BY <1>0, <1>11, <2>2, <3>2 DEF TypeOK
      <4> QED
        BY <1>0, <1>10, <3>2, <4>1 DEF WorkersInv, Answered
    <3> QED
      BY <3>1, <3>2
  <2> QED
    BY <1>1, <2>1, <2>2 DEF Answered, Answer
<1>17. PoolOK'
  <2>1. \A k \in DOMAIN ws : ws[k] \in m_aliveWorkers \ m_workersDone
    BY <1>0, <1>8 DEF WorkersInv, PoolOK
  <2> QED
    BY <1>0, <1>1, <1>8, <1>11, <2>1 DEF WorkersInv, PoolOK
<1>18. SleepersKnown'
  <2>1. ASSUME NEW w \in m_waitingWorkers \cup (m_aliveWorkers \ m_activeWorkers)
        PROVE  w \in m_activeWorkersToRestore' \/ Queued(vc', w)
    <3>1. w \in WorkerHandle /\ (w \in m_activeWorkersToRestore \/ Queued(vc, w))
      BY <1>0 DEF TypeOK, WorkersInv, SleepersKnown
    <3> QED
      BY <1>11, <1>13, <3>1
  <2> QED
    BY <1>1, <2>1 DEF SleepersKnown
<1>19. IteratorOK' /\ TypeOK'
  <2>1. begin(m_activeWorkers) \in m_activeWorkers \cup {End}
    BY <1>0, Iterators DEF TypeOK
  <2>2. /\ m_activeWorkerIterator' = IF m_initiatedIterator THEN m_activeWorkerIterator ELSE begin(m_activeWorkers)
        /\ m_initiatedIterator' = TRUE /\ phase' \in Phases
    BY DEF ReceiveReply, StartRun, Phases
  <2>3. IteratorOK'
    BY <1>0, <1>1, <2>1, <2>2 DEF WorkersInv, IteratorOK
  <2>4. m_initiatedIterator' \in BOOLEAN
    BY <2>2, Zenon
  <2>5. m_activeWorkerIterator' \in WorkerHandle \cup {End}
    BY <1>0, <1>1, <2>3 DEF IteratorOK, TypeOK
  <2>6. << >> \in Seq([group : Group, content : Seq(Elements)])
    OBVIOUS
  <2>7. m_activeWorkersToRestore' \subseteq WorkerHandle
    BY <1>0, <1>5, <1>11 DEF TypeOK
  <2> QED
    BY <1>0, <1>1, <1>4, <1>10, <2>2, <2>3, <2>4, <2>5, <2>6, <2>7 DEF TypeOK
<1> QED
  BY <1>14, <1>15, <1>16, <1>17, <1>18, <1>19 DEF IInv, WorkersInv

------------------------------------------------------------------------------
\* The groups of c hold the questions a of their workers, its priority queue is
\* exact, and a worker is in one place of one group.
Grouped(c, a) ==
  LET content == c.m_messageContent
      ids == c.m_workerCurrentIdentifiers
  IN  /\ \A g \in Group : /\ Len(content[g]) = Len(ids[g])
                          /\ \A k \in DOMAIN ids[g] : content[g][k] = a[ids[g][k]]
      /\ \A p \in Nat, g \in Group :
           <<p, g>> \in c.m_priorityQueue <=> p = Len(content[g]) /\ p # 0
      /\ \A g, h \in Group : \A k \in DOMAIN ids[g], l \in DOMAIN ids[h] :
           ids[g][k] = ids[h][l] => g = h /\ k = l

\* Nothing is pending, before and after.
LEMMA IdleGroups ==
  ASSUME TypeOK, CommunicatorInv, phase = "run"
  PROVE  /\ Grouped(vc, asked) /\ vc.m_pendingMessages = 0
         /\ vc.m_outbox = << >> /\ replies = << >>
         /\ \A g \in Group : Len(vc.m_workerCurrentIdentifiers[g]) < threshold
<1>1. vc.m_pendingMessages = 0 /\ vc.m_outbox = << >> /\ replies = << >>
  BY DEF CommunicatorInv, OnePending
<1>2. \A g \in Group : /\ Matches(vc.m_messageContent[g], vc.m_workerCurrentIdentifiers[g])
                       /\ Len(vc.m_workerCurrentIdentifiers[g]) < threshold
  BY <1>1 DEF CommunicatorInv, GroupsMatch
<1>3. QueueIsExact /\ OnePlace
  BY DEF CommunicatorInv
<1>4. Grouped(vc, asked)
  BY <1>2, <1>3 DEF Grouped, Matches, QueueIsExact, OnePlace
<1> QED
  BY <1>1, <1>2, <1>4

LEMMA StaysIdle ==
  ASSUME Grouped(vc', asked'), vc'.m_pendingMessages = 0, vc'.m_outbox = << >>, replies' = << >>,
         \A g \in Group : Len(vc'.m_workerCurrentIdentifiers[g]) < threshold
  PROVE  CommunicatorInv'
<1>1. OnePending'
  BY DEF OnePending
<1>2. GroupsMatch'
  BY DEF Grouped, GroupsMatch, Matches
<1>3. QueueIsExact' /\ OnePlace'
  BY DEF Grouped, QueueIsExact, OnePlace
<1> QED
  BY <1>1, <1>2, <1>3 DEF CommunicatorInv

\* A flush makes the group it flushes the only one that is under way.
LEMMA FlushInv ==
  ASSUME NEW c \in Communicator, NEW g \in Group, vc' = flushMessage(c, g), phase' # "run",
         Grouped(c, asked'), c.m_pendingMessages = 0, c.m_outbox = << >>, replies' = << >>,
         \A h \in Group \ {g} : Len(c.m_workerCurrentIdentifiers[h]) < threshold,
         Len(c.m_workerCurrentIdentifiers[g]) <= threshold
  PROVE  CommunicatorInv'
<1> DEFINE content == c.m_messageContent
           ids == c.m_workerCurrentIdentifiers
<1>1. /\ vc'.m_priorityQueue = c.m_priorityQueue \ {<<Len(content[g]), g>>}
      /\ vc'.active = g /\ vc'.m_messageContent = [content EXCEPT ![g] = << >>]
      /\ vc'.m_outbox = Append(c.m_outbox, [group |-> g, content |-> content[g]])
      /\ vc'.m_pendingMessages = 1 /\ vc'.m_workerCurrentIdentifiers = ids
  BY Flushed
<1>2. content \in [Group -> Seq(Questions)] /\ ids \in [Group -> Seq(WorkerHandle)]
  BY Fields
<1>3. vc'.m_messageContent[g] = << >> /\ \A h \in Group \ {g} : vc'.m_messageContent[h] = content[h]
  BY <1>1, <1>2
<1>4. OnePending'
  <2>1. vc'.m_outbox = <<[group |-> g, content |-> content[g]]>>
    BY <1>1
  <2>2. content[g] \in Seq(Questions)
    BY <1>2
  <2>3. /\ vc'.m_workerCurrentIdentifiers[vc'.active] = ids[g]
        /\ Len(content[g]) = Len(ids[g])
        /\ \A k \in DOMAIN ids[g] : content[g][k] = asked'[ids[g][k]]
    BY <1>1 DEF Grouped
  <2>4. UnderWay'
    <3>1. PICK qs \in Seq(Questions) : qs = content[g]
      BY <2>2
    <3>2. Matches(qs, vc.m_workerCurrentIdentifiers[vc.active])'
      BY <2>3, <3>1 DEF Matches
    <3>3. vc'.m_outbox = <<[group |-> vc'.active, content |-> qs]>> /\ replies' = << >>
      BY <1>1, <2>1, <3>1
    <3> QED
      BY <3>2, <3>3, Zenon DEF UnderWay
  <2> QED
    BY <1>1, <1>3, <2>4 DEF OnePending
<1>5. GroupsMatch'
  <2>1. ASSUME NEW h \in Group \ {g}
        PROVE  /\ Len(vc'.m_messageContent[h]) = Len(ids[h])
               /\ \A k \in DOMAIN ids[h] : vc'.m_messageContent[h][k] = asked'[ids[h][k]]
               /\ Len(ids[h]) < threshold
    BY <1>3 DEF Grouped
  <2> QED
    BY <1>1, <2>1 DEF GroupsMatch, Matches
<1>6. QueueIsExact'
  <2>1. ASSUME NEW p \in Nat, NEW h \in Group
        PROVE  <<p, h>> \in vc'.m_priorityQueue <=> p = Len(vc'.m_messageContent[h]) /\ p # 0
    <3>1. <<p, h>> \in c.m_priorityQueue <=> p = Len(content[h]) /\ p # 0
      BY DEF Grouped
    <3>2. CASE h = g
      <4>1. Len(vc'.m_messageContent[h]) = 0
        BY <1>3, <3>2
      <4> QED
        BY <1>1, <3>1, <3>2, <4>1
    <3>3. CASE h # g
      BY <1>1, <1>3, <3>1, <3>3
    <3> QED
      BY <3>2, <3>3
  <2> QED
    BY <2>1 DEF QueueIsExact
<1>7. OnePlace'
  BY <1>1 DEF Grouped, OnePlace
<1> QED
  BY <1>4, <1>5, <1>6, <1>7 DEF CommunicatorInv

\* forceFlush() flushes a group that holds something, if there is one: the
\* priority queue has a top.
LEMMA ForceFlushed ==
  ASSUME NEW c \in Communicator, NEW n \in Nat, \A a \in c.m_priorityQueue : a[1] <= n
  PROVE  forceFlush(c) = c \/ \E g \in Group : forceFlush(c) = flushMessage(c, g)
<1> DEFINE Q == c.m_priorityQueue
           before(a, b) == a[1] > b[1] \/ (a[1] = b[1] /\ a[2] <= b[2])
           top == CHOOSE a \in Q : \A b \in Q : before(a, b)
<1>0. Q \subseteq Nat \X Group /\ Group \subseteq Nat
  BY Fields, Handles
<1>1. forceFlush(c) = IF Q = {} THEN c ELSE flushMessage(c, top[2])
  BY DEF forceFlush
<1>2. ASSUME Q # {} PROVE \E a \in Q : \A b \in Q : before(a, b)
  <2> DEFINE D == { n - a[1] : a \in Q }
  <2>1. D \subseteq Nat /\ D # {}
    BY <1>0, <1>2
  <2>2. PICK d \in D : \A e \in D : d <= e
    <3> HIDE DEF D
    <3> QED
      BY <2>1, LeastNumber
  <2>3. PICK m \in Q : d = n - m[1]
    BY <2>2
  <2>4. m[1] \in Nat /\ \A b \in Q : b[1] \in Nat /\ b[2] \in Nat /\ b[1] <= m[1]
    <3>1. ASSUME NEW b \in Q PROVE b[1] \in Nat /\ b[2] \in Nat /\ m[1] \in Nat /\ b[1] <= m[1]
      <4>1. b[1] \in Nat /\ b[2] \in Nat /\ m[1] \in Nat
        BY <1>0, <2>3
      <4>2. n - m[1] <= n - b[1]
        BY <2>2, <2>3
      <4> QED
        BY <4>1, <4>2
    <3> QED
      BY <2>3, <3>1
  <2> DEFINE G == { b[2] : b \in { b \in Q : b[1] = m[1] } }
  <2>5. G \subseteq Nat /\ G # {}
    BY <2>3, <2>4
  <2>6. PICK g \in G : \A h \in G : g <= h
    <3> HIDE DEF G
    <3> QED
      BY <2>5, LeastNumber
  <2>7. PICK a \in Q : a[1] = m[1] /\ a[2] = g
    BY <2>6
  <2>8. ASSUME NEW b \in Q PROVE before(a, b)
    <3>1. CASE b[1] = m[1]
      <4>1. b[2] \in G
        BY <3>1
      <4> QED
        BY <2>6, <2>7, <3>1, <4>1
    <3>2. CASE b[1] # m[1]
      BY <2>4, <2>7, <3>2
    <3> QED
      BY <3>1, <3>2
  <2> QED
    BY <2>8
<1>3. ASSUME Q # {} PROVE top \in Q
  <2> HIDE DEF before
  <2> QED
    BY <1>2, <1>3
<1> HIDE DEF top
<1> QED
  BY <1>0, <1>1, <1>3

\* updateStates() and forceFlush() at the end of a pass.
LEMMA EndOfPassIInv ==
  ASSUME IInv, EndOfPass
  PROVE  IInv'
<1> DEFINE reset == resetGlobalPushedMessageStatus(vc)
<1>0. TypeOK /\ CommunicatorInv /\ WorkersInv /\ vc \in Communicator /\ phase = "run"
  BY DEF IInv, TypeOK, EndOfPass
<1>1. /\ m_aliveWorkers' = m_aliveWorkers \ m_workersDone
      /\ m_activeWorkers' = (m_activeWorkers \ (m_workersDone \cup m_waitingWorkers)) \cup m_activeWorkersToRestore
      /\ m_workersDone' = {} /\ m_waitingWorkers' = {} /\ m_activeWorkersToRestore' = {}
      /\ m_activeWorkerIterator' = begin(m_activeWorkers')
      /\ phase' = "end"
      /\ UNCHANGED <<m_initiatedIterator, tasks, left, asked, destroyed, replies, finalized>>
  BY DEF EndOfPass, stillActive, workerVars
<1>2. /\ Grouped(vc, asked) /\ vc.m_pendingMessages = 0
      /\ vc.m_outbox = << >> /\ replies = << >>
      /\ \A g \in Group : Len(vc.m_workerCurrentIdentifiers[g]) < threshold
  BY <1>0, IdleGroups
<1>3. /\ reset \in Communicator
      /\ reset.m_messageContent = vc.m_messageContent
      /\ reset.m_workerCurrentIdentifiers = vc.m_workerCurrentIdentifiers
      /\ reset.m_priorityQueue = vc.m_priorityQueue /\ reset.m_pendingMessages = vc.m_pendingMessages
      /\ reset.active = vc.active /\ reset.m_elementsForWorkers = vc.m_elementsForWorkers
      /\ reset.m_outbox = vc.m_outbox
  BY <1>0, StatusReset
<1>4. vc' = reset \/ vc' = forceFlush(reset)
  BY DEF EndOfPass
<1>5. Grouped(reset, asked')
  BY <1>1, <1>2, <1>3 DEF Grouped
<1> HIDE DEF reset
<1>6. vc' = reset \/ \E g \in Group : vc' = flushMessage(reset, g)
  <2>1. ASSUME NEW a \in reset.m_priorityQueue PROVE a[1] <= threshold
    <3>1. a \in Nat \X Group
      BY <1>3, Fields
    <3>2. a[1] \in Nat /\ a[2] \in Group /\ a = <<a[1], a[2]>>
      BY <3>1
    <3>3. a[1] = Len(vc.m_messageContent[a[2]]) /\ Len(vc.m_messageContent[a[2]]) = Len(vc.m_workerCurrentIdentifiers[a[2]])
      BY <1>2, <1>3, <3>2 DEF Grouped
    <3> QED
      BY <1>2, <3>2, <3>3, Sizes
  <2>2. threshold \in Nat
    BY Sizes
  <2> QED
    BY <1>3, <1>4, <2>1, <2>2, ForceFlushed
<1>7. CommunicatorInv'
  <2>1. CASE vc' = reset
    BY <1>1, <1>2, <1>3, <1>5, <2>1, StaysIdle
  <2>2. ASSUME NEW g \in Group, vc' = flushMessage(reset, g) PROVE CommunicatorInv'
    <3>1. Len(reset.m_workerCurrentIdentifiers[g]) \in Nat
      BY <1>3, Fields, LenProperties
    <3>2. Len(reset.m_workerCurrentIdentifiers[g]) <= threshold
      BY <1>2, <1>3, <3>1, Sizes
    <3> QED
      BY <1>1, <1>2, <1>3, <1>5, <2>2, <3>2, FlushInv
  <2> QED
    BY <1>6, <2>1, <2>2
<1>8. /\ vc' \in Communicator
      /\ vc'.m_workerCurrentIdentifiers = vc.m_workerCurrentIdentifiers
      /\ vc'.m_elementsForWorkers = vc.m_elementsForWorkers
  <2>1. ASSUME NEW g \in Group, vc' = flushMessage(reset, g)
        PROVE  /\ vc' \in Communicator
               /\ vc'.m_workerCurrentIdentifiers = vc.m_workerCurrentIdentifiers
               /\ vc'.m_elementsForWorkers = vc.m_elementsForWorkers
    <3>1. reset \in Communicator
      BY <1>3
    <3>2. /\ vc' \in Communicator
          /\ vc'.m_workerCurrentIdentifiers = reset.m_workerCurrentIdentifiers
          /\ vc'.m_elementsForWorkers = reset.m_elementsForWorkers
      BY <2>1, <3>1, Flushed
    <3> QED
      BY <1>3, <3>2
  <2> QED
    BY <1>3, <1>6, <2>1
<1>9. TypeOK'
  <2>1. m_activeWorkers' \subseteq WorkerHandle /\ m_aliveWorkers' \subseteq WorkerHandle
    BY <1>0, <1>1 DEF TypeOK
  <2>2. begin(m_activeWorkers') \in WorkerHandle \cup {End}
    BY <2>1, Iterators
  <2> QED
    BY <1>0, <1>1, <1>8, <2>1, <2>2 DEF TypeOK, Phases
<1>10. \A w \in WorkerHandle : Queued(vc', w) <=> Queued(vc, w)
  BY <1>8 DEF Queued
<1>11. PoolOK'
  <2>1. m_activeWorkersToRestore \subseteq m_aliveWorkers \ m_workersDone
    BY <1>0 DEF WorkersInv, PoolOK
  <2> QED
    BY <1>0, <1>1, <2>1 DEF WorkersInv, PoolOK
<1>12. QueuedWait'
  <2>1. ASSUME NEW w \in WorkerHandle, Queued(vc, w)
        PROVE  /\ w \in m_aliveWorkers' /\ asked[w] # NoQuestion
               /\ vc.m_elementsForWorkers[w] = << >> /\ w \notin m_activeWorkers'
    <3>1. /\ w \in m_aliveWorkers /\ asked[w] # NoQuestion
          /\ vc.m_elementsForWorkers[w] = << >>
          /\ w \in m_activeWorkers => w \in m_waitingWorkers
      BY <1>0, <2>1 DEF WorkersInv, QueuedWait
    <3>2. w \notin m_workersDone /\ w \notin m_activeWorkersToRestore
      BY <1>0, <3>1 DEF WorkersInv, PoolOK, Answered
    <3> QED
      BY <1>1, <3>1, <3>2
  <2> QED
    BY <1>1, <1>8, <1>10, <2>1 DEF QueuedWait
<1>13. Answered'
  BY <1>0, <1>1, <1>8 DEF WorkersInv, Answered, Answer
<1>14. SleepersKnown'
  BY <1>0, <1>1, <1>10 DEF TypeOK, WorkersInv, SleepersKnown
<1>15. IteratorOK'
  <2>1. begin(m_activeWorkers') \in m_activeWorkers' \cup {End}
    BY <1>9, Iterators DEF TypeOK
  <2> QED
    BY <1>1, <2>1 DEF IteratorOK
<1> QED
  BY <1>7, <1>9, <1>11, <1>12, <1>13, <1>14, <1>15 DEF IInv, WorkersInv

------------------------------------------------------------------------------
\* The worker that the iterator of run() is at runs, and is in no group.
LEMMA Runs ==
  ASSUME IInv, Work, NEW w, w = m_activeWorkerIterator
  PROVE  /\ w \in WorkerHandle /\ w \in m_activeWorkers /\ w \in m_aliveWorkers
         /\ w \notin m_waitingWorkers /\ w \notin m_workersDone
         /\ w \notin destroyed /\ w \notin tasks /\ w \notin m_activeWorkersToRestore
         /\ ~ Queued(vc, w)
         /\ asked[w] # NoQuestion \/ left[w] > 0
<1>0. TypeOK /\ WorkersInv /\ w # End
  BY DEF IInv, Work
<1>1. w \in WorkerHandle /\ w \in m_activeWorkers /\ w \in Nat
  BY <1>0, Handles DEF TypeOK, WorkersInv, IteratorOK
<1>2. w \notin m_waitingWorkers /\ w \notin m_workersDone
  BY <1>0, <1>1 DEF WorkersInv, IteratorOK
<1>3. /\ w \in m_aliveWorkers /\ w \notin destroyed /\ w \notin tasks
      /\ w \notin m_activeWorkersToRestore
  BY <1>0, <1>1, <1>2 DEF WorkersInv, PoolOK
<1>4. ~ Queued(vc, w)
  BY <1>0, <1>1, <1>2 DEF WorkersInv, QueuedWait
<1>5. asked[w] # NoQuestion \/ left[w] > 0
  BY <1>0, <1>1, <1>3 DEF WorkersInv, PoolOK
<1> QED
  BY <1>1, <1>2, <1>3, <1>4, <1>5

\* What Work changes whatever the worker does.
LEMMA WorkChanges ==
  ASSUME IInv, Work, NEW w, w = m_activeWorkerIterator
  PROVE  /\ m_activeWorkerIterator' \in m_activeWorkers \cup {End}
         /\ w < m_activeWorkerIterator' /\ m_initiatedIterator /\ phase' = "end"
         /\ UNCHANGED <<m_aliveWorkers, m_activeWorkers, m_activeWorkersToRestore,
                        m_initiatedIterator, tasks, replies, finalized>>
<1>1. w \in WorkerHandle /\ m_activeWorkers \subseteq WorkerHandle
  BY Runs DEF IInv, TypeOK
<1>2. m_activeWorkerIterator' = next(m_activeWorkers, w) /\ phase' = "end" /\ phase = "run"
  BY DEF Work
<1>3. next(m_activeWorkers, w) \in m_activeWorkers \cup {End} /\ w < next(m_activeWorkers, w)
  BY <1>1, Iterators
<1>4. m_initiatedIterator
  BY <1>2 DEF IInv, WorkersInv, IteratorOK
<1>5. UNCHANGED <<m_aliveWorkers, m_activeWorkers, m_activeWorkersToRestore,
                  m_initiatedIterator, tasks, replies, finalized>>
  BY DEF Work
<1> QED
  BY <1>2, <1>3, <1>4, <1>5

\* A worker that pulls its answer or thinks may be done with that.
LEMMA QuietWorkIInv ==
  ASSUME IInv, Work, NEW w, w = m_activeWorkerIterator, Pull(w) \/ Think(w)
  PROVE  IInv'
<1> DEFINE r == resetLocalPushedMessageStatus(vc)
<1>0. TypeOK /\ CommunicatorInv /\ WorkersInv /\ vc \in Communicator /\ phase = "run"
  BY DEF IInv, TypeOK, Work
<1>1. /\ w \in WorkerHandle /\ w \in m_activeWorkers /\ w \in m_aliveWorkers
      /\ w \notin m_waitingWorkers /\ w \notin m_workersDone
      /\ w \notin destroyed /\ w \notin tasks /\ w \notin m_activeWorkersToRestore
      /\ ~ Queued(vc, w)
      /\ asked[w] # NoQuestion \/ left[w] > 0
  BY Runs
<1>2. /\ m_activeWorkerIterator' \in m_activeWorkers \cup {End}
      /\ w < m_activeWorkerIterator' /\ m_initiatedIterator /\ phase' = "end"
      /\ UNCHANGED <<m_aliveWorkers, m_activeWorkers, m_activeWorkersToRestore,
                     m_initiatedIterator, tasks, replies, finalized>>
  BY WorkChanges
<1>3. /\ r \in Communicator
      /\ r.m_messageContent = vc.m_messageContent
      /\ r.m_workerCurrentIdentifiers = vc.m_workerCurrentIdentifiers
      /\ r.m_priorityQueue = vc.m_priorityQueue /\ r.m_pendingMessages = vc.m_pendingMessages
      /\ r.active = vc.active /\ r.m_elementsForWorkers = vc.m_elementsForWorkers
      /\ r.m_outbox = vc.m_outbox /\ r.m_localPushedMessageStatus = FALSE
  BY <1>0, StatusReset
<1>4. /\ left \in [WorkerHandle -> Nat] /\ asked \in [WorkerHandle -> Questions \cup {NoQuestion}]
      /\ vc.m_elementsForWorkers \in [WorkerHandle -> Seq(Elements)]
  BY <1>0, Fields DEF TypeOK
<1> DEFINE Quiet ==
      /\ vc' \in Communicator
      /\ vc'.m_messageContent = vc.m_messageContent
      /\ vc'.m_workerCurrentIdentifiers = vc.m_workerCurrentIdentifiers
      /\ vc'.m_priorityQueue = vc.m_priorityQueue /\ vc'.m_pendingMessages = vc.m_pendingMessages
      /\ vc'.m_outbox = vc.m_outbox /\ vc'.m_localPushedMessageStatus = FALSE
      /\ vc'.m_elementsForWorkers[w] = << >> /\ asked'[w] = NoQuestion
      /\ \A v \in WorkerHandle \ {w} :
           vc'.m_elementsForWorkers[v] = vc.m_elementsForWorkers[v] /\ asked'[v] = asked[v] /\ left'[v] = left[v]
      /\ left' \in [WorkerHandle -> Nat] /\ asked' \in [WorkerHandle -> Questions \cup {NoQuestion}]
<1>5. Quiet
  <2>1. CASE Pull(w)
    <3>1. /\ asked' = [asked EXCEPT ![w] = NoQuestion] /\ left' = left
          /\ vc' = getMessageResponseElements(r, w)
      BY <2>1 DEF Pull
    <3> HIDE DEF r
    <3>2. /\ vc' \in Communicator
          /\ vc'.m_messageContent = r.m_messageContent
          /\ vc'.m_workerCurrentIdentifiers = r.m_workerCurrentIdentifiers
          /\ vc'.m_priorityQueue = r.m_priorityQueue /\ vc'.m_pendingMessages = r.m_pendingMessages
          /\ vc'.active = r.active /\ vc'.m_outbox = r.m_outbox
          /\ vc'.m_localPushedMessageStatus = r.m_localPushedMessageStatus
          /\ vc'.m_elementsForWorkers = [r.m_elementsForWorkers EXCEPT ![w] = << >>]
      BY <1>1, <1>3, <3>1, Pulled
    <3>3. /\ vc'.m_elementsForWorkers[w] = << >>
          /\ \A v \in WorkerHandle \ {w} : vc'.m_elementsForWorkers[v] = vc.m_elementsForWorkers[v]
      BY <1>1, <1>3, <1>4, <3>2
    <3>4. /\ asked' \in [WorkerHandle -> Questions \cup {NoQuestion}] /\ asked'[w] = NoQuestion
          /\ \A v \in WorkerHandle \ {w} : asked'[v] = asked[v]
      BY <1>1, <1>4, <3>1
    <3> QED
      BY <1>3, <1>4, <3>1, <3>2, <3>3, <3>4
  <2>2. CASE Think(w)
    <3>1. /\ asked[w] = NoQuestion /\ asked' = asked
          /\ left' = [left EXCEPT ![w] = @ - 1] /\ vc' = r
      BY <2>2 DEF Think
    <3> HIDE DEF r
    <3>2. vc.m_elementsForWorkers[w] = << >>
      BY <1>0, <1>1, <3>1 DEF WorkersInv, Answered
    <3>3. left[w] \in Nat /\ left[w] > 0
      BY <1>1, <1>4, <3>1
    <3>4. left' \in [WorkerHandle -> Nat] /\ \A v \in WorkerHandle \ {w} : left'[v] = left[v]
      BY <1>1, <1>4, <3>1, <3>3
    <3> QED
      BY <1>3, <1>4, <3>1, <3>2, <3>4
  <2> QED
    BY <2>1, <2>2
<1> HIDE DEF r
<1> DEFINE isDone == left'[w] = 0 /\ asked'[w] = NoQuestion
<1>6. /\ m_waitingWorkers' = m_waitingWorkers
      /\ m_workersDone' = IF isDone THEN m_workersDone \cup {w} ELSE m_workersDone
      /\ destroyed' = IF isDone THEN destroyed \cup {w} ELSE destroyed
  BY <1>5 DEF Work
<1>7. ~ isDone => left'[w] > 0
  BY <1>1, <1>5
<1> HIDE DEF isDone
<1>8. \A v \in WorkerHandle : Queued(vc', v) <=> Queued(vc, v)
  BY <1>5 DEF Queued
<1>9. CommunicatorInv'
  <2>1. /\ Grouped(vc, asked) /\ vc.m_pendingMessages = 0
        /\ vc.m_outbox = << >> /\ replies = << >>
        /\ \A g \in Group : Len(vc.m_workerCurrentIdentifiers[g]) < threshold
    BY <1>0, IdleGroups
  <2>2. ASSUME NEW g \in Group, NEW k \in DOMAIN vc.m_workerCurrentIdentifiers[g]
        PROVE  asked'[vc.m_workerCurrentIdentifiers[g][k]] = asked[vc.m_workerCurrentIdentifiers[g][k]]
    <3>1. vc.m_workerCurrentIdentifiers[g] \in Seq(WorkerHandle)
      BY <1>0, Fields
    <3>2. vc.m_workerCurrentIdentifiers[g][k] \in WorkerHandle
      BY <3>1, ElementOfSeq, LenProperties
    <3>3. vc.m_workerCurrentIdentifiers[g][k] # w
      BY <1>1 DEF Queued
    <3> QED
      BY <1>5, <3>2, <3>3
  <2>3. Grouped(vc', asked')
    BY <1>5, <2>1, <2>2 DEF Grouped
  <2> QED
    BY <1>2, <1>5, <2>1, <2>3, StaysIdle
<1>10. TypeOK'
  BY <1>0, <1>1, <1>2, <1>5, <1>6 DEF TypeOK, Phases
<1>11. QueuedWait'
  BY <1>0, <1>1, <1>2, <1>5, <1>6, <1>8 DEF WorkersInv, QueuedWait
<1>12. Answered'
  <2>1. ASSUME NEW v \in WorkerHandle, vc'.m_elementsForWorkers[v] # << >>
        PROVE  asked'[v] # NoQuestion /\ vc'.m_elementsForWorkers[v] = Answer(asked'[v])
    <3>1. v # w
      BY <1>5, <2>1
    <3>2. vc'.m_elementsForWorkers[v] = vc.m_elementsForWorkers[v] /\ asked'[v] = asked[v]
      BY <1>5, <3>1
    <3> QED
      BY <1>0, <2>1, <3>2 DEF WorkersInv, Answered
  <2>2. ASSUME NEW v \in m_activeWorkersToRestore PROVE vc'.m_elementsForWorkers[v] # << >>
    <3>1. v \in WorkerHandle \ {w} /\ vc.m_elementsForWorkers[v] # << >>
      BY <1>0, <1>1 DEF WorkersInv, Answered, TypeOK
    <3> QED
      BY <1>5, <3>1
  <2> QED
    BY <1>2, <2>1, <2>2 DEF Answered, Answer
<1>13. PoolOK'
  BY <1>0, <1>1, <1>2, <1>5, <1>6, <1>7 DEF WorkersInv, PoolOK, TypeOK
<1>14. SleepersKnown'
  BY <1>0, <1>2, <1>6, <1>8 DEF WorkersInv, SleepersKnown, TypeOK
<1>15. IteratorOK'
  BY <1>0, <1>1, <1>2, <1>6, Handles DEF WorkersInv, IteratorOK, TypeOK
<1> QED
  BY <1>9, <1>10, <1>11, <1>12, <1>13, <1>14, <1>15 DEF IInv, WorkersInv

\* A question that is asked joins a group that is not full.
LEMMA AskedGroups ==
  ASSUME NEW c \in Communicator, NEW a \in [WorkerHandle -> Questions \cup {NoQuestion}],
         NEW w \in WorkerHandle, NEW g \in Group, NEW q \in Questions,
         Grouped(c, a), ~ Queued(c, w),
         \A h \in Group : Len(c.m_workerCurrentIdentifiers[h]) < threshold
  PROVE  LET e == enqueue(c, w, g, <<q>>) IN
         /\ Grouped(e, [a EXCEPT ![w] = q])
         /\ \A h \in Group \ {g} : Len(e.m_workerCurrentIdentifiers[h]) < threshold
         /\ Len(e.m_workerCurrentIdentifiers[g]) \in Nat
         /\ Len(e.m_workerCurrentIdentifiers[g]) <= threshold
         /\ \A v \in WorkerHandle : Queued(e, v) <=> v = w \/ Queued(c, v)
<1> DEFINE e == enqueue(c, w, g, <<q>>)
           b == [a EXCEPT ![w] = q]
           content == c.m_messageContent
           ids == c.m_workerCurrentIdentifiers
           n == Len(ids[g])
<1>1. /\ e.m_priorityQueue = (c.m_priorityQueue \ {<<Len(content[g]), g>>}) \cup {<<Len(content[g]) + 1, g>>}
      /\ e.m_messageContent = [content EXCEPT ![g] = Append(@, q)]
      /\ e.m_workerCurrentIdentifiers = [ids EXCEPT ![g] = Append(@, w)]
  <2>1. HasQuestion(c, w, g, q, e)
    BY Enqueued
  <2> HIDE DEF e
  <2> QED
    BY <2>1 DEF HasQuestion
<1> HIDE DEF e
<1>2. content \in [Group -> Seq(Questions)] /\ ids \in [Group -> Seq(WorkerHandle)]
  BY Fields
<1>3. /\ ids[g] \in Seq(WorkerHandle) /\ content[g] \in Seq(Questions)
      /\ n \in Nat /\ n = Len(content[g]) /\ n < threshold
      /\ DOMAIN ids[g] = 1 .. n
  <2>1. ids[g] \in Seq(WorkerHandle) /\ content[g] \in Seq(Questions)
    BY <1>2
  <2> QED
    BY <2>1, LenProperties DEF Grouped
<1>4. /\ e.m_messageContent[g] = Append(content[g], q)
      /\ e.m_workerCurrentIdentifiers[g] = Append(ids[g], w)
      /\ \A h \in Group \ {g} : e.m_messageContent[h] = content[h] /\ e.m_workerCurrentIdentifiers[h] = ids[h]
  BY <1>1, <1>2
<1>5. /\ Len(e.m_messageContent[g]) = n + 1 /\ Len(e.m_workerCurrentIdentifiers[g]) = n + 1
      /\ DOMAIN e.m_workerCurrentIdentifiers[g] = 1 .. n + 1
      /\ \A k \in 1 .. n : /\ e.m_messageContent[g][k] = content[g][k]
                           /\ e.m_workerCurrentIdentifiers[g][k] = ids[g][k]
      /\ e.m_messageContent[g][n + 1] = q /\ e.m_workerCurrentIdentifiers[g][n + 1] = w
  <2>1. /\ Append(content[g], q) \in Seq(Questions) /\ Len(Append(content[g], q)) = n + 1
        /\ \A k \in 1 .. n : Append(content[g], q)[k] = content[g][k]
        /\ Append(content[g], q)[n + 1] = q
    BY <1>3, AppendProperties
  <2>2. /\ Append(ids[g], w) \in Seq(WorkerHandle) /\ Len(Append(ids[g], w)) = n + 1
        /\ \A k \in 1 .. n : Append(ids[g], w)[k] = ids[g][k]
        /\ Append(ids[g], w)[n + 1] = w
    <3> DEFINE s == ids[g]
    <3>1. s \in Seq(WorkerHandle) /\ n = Len(s)
      BY <1>3
    <3> HIDE DEF s, n
    <3>2. /\ Append(s, w) \in Seq(WorkerHandle) /\ Len(Append(s, w)) = n + 1
          /\ \A k \in 1 .. n : Append(s, w)[k] = s[k]
          /\ Append(s, w)[n + 1] = w
      BY <3>1, AppendProperties
    <3> QED
      BY <3>2 DEF s
  <2>3. DOMAIN Append(ids[g], w) = 1 .. n + 1
    BY <2>2, LenProperties
  <2> QED
    BY <1>4, <2>1, <2>2, <2>3
<1>6. \A h \in Group : \A k \in DOMAIN ids[h] : ids[h][k] \in WorkerHandle /\ ids[h][k] # w
  <2>1. ASSUME NEW h \in Group, NEW k \in DOMAIN ids[h] PROVE ids[h][k] \in WorkerHandle /\ ids[h][k] # w
    <3>1. ids[h] \in Seq(WorkerHandle)
      BY <1>2
    <3>2. ids[h][k] \in WorkerHandle
      BY <3>1, ElementOfSeq, LenProperties
    <3> QED
      BY <3>2 DEF Queued
  <2> QED
    BY <2>1
<1>7. b[w] = q /\ \A v \in WorkerHandle \ {w} : b[v] = a[v]
  OBVIOUS
<1> HIDE DEF b
<1>8. ASSUME NEW h \in Group
      PROVE  /\ Len(e.m_messageContent[h]) = Len(e.m_workerCurrentIdentifiers[h])
             /\ \A k \in DOMAIN e.m_workerCurrentIdentifiers[h] :
                  e.m_messageContent[h][k] = b[e.m_workerCurrentIdentifiers[h][k]]
  <2>1. /\ Len(content[h]) = Len(ids[h])
        /\ \A k \in DOMAIN ids[h] : content[h][k] = b[ids[h][k]]
    BY <1>6, <1>7 DEF Grouped
  <2>2. CASE h = g
    <3>1. ASSUME NEW k \in 1 .. n + 1
          PROVE  e.m_messageContent[g][k] = b[e.m_workerCurrentIdentifiers[g][k]]
      <4>1. CASE k = n + 1
        BY <1>5, <1>7, <4>1
      <4>2. CASE k # n + 1
        <5>1. k \in 1 .. n
          BY <1>3, <4>2
        <5> QED
          BY <1>3, <1>5, <2>1, <2>2, <5>1
      <4> QED
        BY <4>1, <4>2
    <3> QED
      BY <1>5, <2>2, <3>1
  <2>3. CASE h # g
    BY <1>4, <2>1, <2>3
  <2> QED
    BY <2>2, <2>3
<1>9. ASSUME NEW p \in Nat, NEW h \in Group
      PROVE  <<p, h>> \in e.m_priorityQueue <=> p = Len(e.m_messageContent[h]) /\ p # 0
  <2>1. <<p, h>> \in c.m_priorityQueue <=> p = Len(content[h]) /\ p # 0
    BY DEF Grouped
  <2>2. <<p, h>> \in e.m_priorityQueue <=>
          \/ <<p, h>> \in c.m_priorityQueue /\ ~ (p = n /\ h = g)
          \/ p = n + 1 /\ h = g
    BY <1>1, <1>3
  <2>3. CASE h = g
    BY <1>3, <1>5, <2>1, <2>2, <2>3
  <2>4. CASE h # g
    BY <1>4, <2>1, <2>2, <2>4
  <2> QED
    BY <2>3, <2>4
\* The places of e are those of c and the new one.
<1>10. ASSUME NEW h \in Group, NEW k \in DOMAIN e.m_workerCurrentIdentifiers[h]
       PROVE  \/ h = g /\ k = n + 1 /\ e.m_workerCurrentIdentifiers[h][k] = w
              \/ k \in DOMAIN ids[h] /\ e.m_workerCurrentIdentifiers[h][k] = ids[h][k]
  <2>1. CASE h = g
    <3>1. k \in 1 .. n + 1
      BY <1>5, <1>10, <2>1
    <3>2. k = n + 1 \/ k \in 1 .. n
      BY <1>3, <3>1
    <3> QED
      BY <1>3, <1>5, <2>1, <3>2
  <2>2. CASE h # g
    BY <1>4, <1>10, <2>2
  <2> QED
    BY <2>1, <2>2
<1>11. ASSUME NEW h \in Group, NEW i \in Group, NEW k \in DOMAIN e.m_workerCurrentIdentifiers[h],
              NEW l \in DOMAIN e.m_workerCurrentIdentifiers[i],
              e.m_workerCurrentIdentifiers[h][k] = e.m_workerCurrentIdentifiers[i][l]
       PROVE  h = i /\ k = l
  BY <1>6, <1>10, <1>11 DEF Grouped
<1>12. Grouped(e, b)
  BY <1>8, <1>9, <1>11 DEF Grouped
<1>13. ASSUME NEW v \in WorkerHandle PROVE Queued(e, v) <=> v = w \/ Queued(c, v)
  <2>1. ASSUME Queued(e, v) PROVE v = w \/ Queued(c, v)
    BY <1>10, <2>1 DEF Queued
  <2>2. Queued(e, w)
    <3>1. n + 1 \in DOMAIN e.m_workerCurrentIdentifiers[g]
      BY <1>3, <1>5
    <3> QED
      BY <1>5, <3>1 DEF Queued
  <2>3. ASSUME Queued(c, v) PROVE Queued(e, v)
    <3>1. PICK h \in Group : \E k \in DOMAIN ids[h] : ids[h][k] = v
      BY <2>3 DEF Queued
    <3>2. PICK k \in DOMAIN ids[h] : ids[h][k] = v
      BY <3>1
    <3>3. k \in DOMAIN e.m_workerCurrentIdentifiers[h] /\ e.m_workerCurrentIdentifiers[h][k] = v
      <4>1. CASE h = g
        <5>1. k \in 1 .. n /\ k \in 1 .. n + 1
          BY <1>3, <3>2, <4>1
        <5> QED
          BY <1>5, <3>2, <4>1, <5>1
      <4>2. CASE h # g
        BY <1>4, <3>2, <4>2
      <4> QED
        BY <4>1, <4>2
    <3> QED
      BY <3>3 DEF Queued
  <2> QED
    BY <2>1, <2>2, <2>3
<1>14. Len(e.m_workerCurrentIdentifiers[g]) \in Nat /\ Len(e.m_workerCurrentIdentifiers[g]) <= threshold
  BY <1>3, <1>5, Sizes
<1>15. \A h \in Group \ {g} : Len(e.m_workerCurrentIdentifiers[h]) < threshold
  BY <1>4
<1> QED
  BY <1>12, <1>13, <1>14, <1>15 DEF b, e

\* A worker that asks a question sleeps until its answer comes.
LEMMA AskIInv ==
  ASSUME IInv, Work, NEW w, w = m_activeWorkerIterator, NEW g \in Group, Ask(w, g)
  PROVE  IInv'
<1> DEFINE r == resetLocalPushedMessageStatus(vc)
           q == Question(w)
           e == enqueue(r, w, g, <<q>>)
<1>0. TypeOK /\ CommunicatorInv /\ WorkersInv /\ vc \in Communicator /\ phase = "run"
  BY DEF IInv, TypeOK, Work
<1>1. /\ w \in WorkerHandle /\ w \in m_activeWorkers /\ w \in m_aliveWorkers
      /\ w \notin m_waitingWorkers /\ w \notin m_workersDone
      /\ w \notin destroyed /\ w \notin tasks /\ w \notin m_activeWorkersToRestore
      /\ ~ Queued(vc, w)
      /\ asked[w] # NoQuestion \/ left[w] > 0
  BY Runs
<1>2. /\ m_activeWorkerIterator' \in m_activeWorkers \cup {End}
      /\ w < m_activeWorkerIterator' /\ m_initiatedIterator /\ phase' = "end"
      /\ UNCHANGED <<m_aliveWorkers, m_activeWorkers, m_activeWorkersToRestore,
                     m_initiatedIterator, tasks, replies, finalized>>
  BY WorkChanges
<1>3. /\ r \in Communicator
      /\ r.m_messageContent = vc.m_messageContent
      /\ r.m_workerCurrentIdentifiers = vc.m_workerCurrentIdentifiers
      /\ r.m_priorityQueue = vc.m_priorityQueue /\ r.m_pendingMessages = vc.m_pendingMessages
      /\ r.active = vc.active /\ r.m_elementsForWorkers = vc.m_elementsForWorkers
      /\ r.m_outbox = vc.m_outbox /\ r.m_localPushedMessageStatus = FALSE
  BY <1>0, StatusReset
<1>4. /\ left \in [WorkerHandle -> Nat] /\ asked \in [WorkerHandle -> Questions \cup {NoQuestion}]
  BY <1>0 DEF TypeOK
<1>5. /\ asked[w] = NoQuestion /\ left' = [left EXCEPT ![w] = @ - 1]
      /\ asked' = [asked EXCEPT ![w] = q]
      /\ vc' = pushMessage(r, w, g, <<q>>)
  BY DEF Ask
<1>6. q \in Questions /\ q # NoQuestion
  BY <1>1, <1>4 DEF Question, Questions, NoQuestion
<1>7. vc' = IF Len(e.m_workerCurrentIdentifiers[g]) >= threshold THEN flushMessage(e, g) ELSE e
  BY <1>5 DEF pushMessage
<1> HIDE DEF r, q
<1>8. e \in Communicator /\ HasQuestion(r, w, g, q, e)
  BY <1>1, <1>3, <1>6, Enqueued
<1>9. /\ Grouped(vc, asked) /\ vc.m_pendingMessages = 0
      /\ vc.m_outbox = << >> /\ replies = << >>
      /\ \A h \in Group : Len(vc.m_workerCurrentIdentifiers[h]) < threshold
  BY <1>0, IdleGroups
<1>10. /\ Grouped(e, asked')
       /\ \A h \in Group \ {g} : Len(e.m_workerCurrentIdentifiers[h]) < threshold
       /\ Len(e.m_workerCurrentIdentifiers[g]) \in Nat
       /\ Len(e.m_workerCurrentIdentifiers[g]) <= threshold
       /\ \A v \in WorkerHandle : Queued(e, v) <=> v = w \/ Queued(r, v)
  <2>1. Grouped(r, asked) /\ ~ Queued(r, w)
    BY <1>1, <1>3, <1>9 DEF Grouped, Queued
  <2>2. \A h \in Group : Len(r.m_workerCurrentIdentifiers[h]) < threshold
    BY <1>3, <1>9
  <2> QED
    BY <1>1, <1>3, <1>4, <1>5, <1>6, <2>1, <2>2, AskedGroups
<1> HIDE DEF e
<1>11. /\ e.m_pendingMessages = 0 /\ e.m_outbox = << >> /\ e.m_localPushedMessageStatus = TRUE
       /\ e.m_elementsForWorkers = vc.m_elementsForWorkers
  BY <1>3, <1>8, <1>9 DEF HasQuestion
<1>12. CommunicatorInv'
  <2>1. CASE Len(e.m_workerCurrentIdentifiers[g]) >= threshold
    BY <1>2, <1>7, <1>8, <1>9, <1>10, <1>11, <2>1, FlushInv
  <2>2. CASE ~ (Len(e.m_workerCurrentIdentifiers[g]) >= threshold)
    <3>1. \A h \in Group : Len(e.m_workerCurrentIdentifiers[h]) < threshold
      BY <1>10, <2>2, Sizes
    <3> QED
      BY <1>2, <1>7, <1>9, <1>10, <1>11, <2>2, <3>1, StaysIdle
  <2> QED
    BY <2>1, <2>2
<1>13. /\ vc' \in Communicator /\ vc'.m_localPushedMessageStatus = TRUE
       /\ vc'.m_workerCurrentIdentifiers = e.m_workerCurrentIdentifiers
       /\ vc'.m_elementsForWorkers = vc.m_elementsForWorkers
  <2>1. CASE vc' = e
    BY <1>8, <1>11, <2>1
  <2>2. CASE vc' = flushMessage(e, g)
    BY <1>8, <1>11, <2>2, Flushed
  <2> QED
    BY <1>7, <2>1, <2>2
<1>14. \A v \in WorkerHandle : Queued(vc', v) <=> v = w \/ Queued(vc, v)
  BY <1>3, <1>10, <1>13 DEF Queued
<1>15. /\ left' \in [WorkerHandle -> Nat] /\ asked' \in [WorkerHandle -> Questions \cup {NoQuestion}]
       /\ asked'[w] # NoQuestion
       /\ \A v \in WorkerHandle \ {w} : asked'[v] = asked[v] /\ left'[v] = left[v]
  <2>1. left[w] \in Nat /\ left[w] > 0
    BY <1>1, <1>4, <1>5
  <2> QED
    BY <1>1, <1>4, <1>5, <1>6, <2>1
<1>16. m_waitingWorkers' = m_waitingWorkers \cup {w} /\ UNCHANGED <<m_workersDone, destroyed>>
  BY <1>13, <1>15 DEF Work
<1>17. TypeOK'
  BY <1>0, <1>1, <1>2, <1>13, <1>15, <1>16 DEF TypeOK, Phases
<1>18. vc.m_elementsForWorkers[w] = << >>
  BY <1>0, <1>1, <1>5 DEF WorkersInv, Answered
<1>19. QueuedWait'
  <2>1. ASSUME NEW v \in WorkerHandle, v = w \/ Queued(vc, v)
        PROVE  /\ v \in m_aliveWorkers /\ asked'[v] # NoQuestion
               /\ vc.m_elementsForWorkers[v] = << >>
               /\ v \in m_activeWorkers => v \in m_waitingWorkers'
    <3>1. CASE v = w
      BY <1>1, <1>15, <1>16, <1>18, <3>1
    <3>2. CASE v # w
      BY <1>0, <1>15, <1>16, <2>1, <3>2 DEF WorkersInv, QueuedWait
    <3> QED
      BY <3>1, <3>2
  <2> QED
    BY <1>2, <1>13, <1>14, <2>1 DEF QueuedWait
<1>20. Answered'
  <2>1. ASSUME NEW v \in WorkerHandle, vc.m_elementsForWorkers[v] # << >>
        PROVE  asked'[v] # NoQuestion /\ vc.m_elementsForWorkers[v] = Answer(asked'[v])
    <3>1. v # w
      BY <1>18, <2>1
    <3>2. asked'[v] = asked[v]
      BY <1>15, <3>1
    <3> QED
      BY <1>0, <2>1, <3>2 DEF WorkersInv, Answered
  <2>2. \A v \in m_activeWorkersToRestore : vc.m_elementsForWorkers[v] # << >>
    BY <1>0 DEF WorkersInv, Answered
  <2> QED
    BY <1>2, <1>13, <2>1, <2>2 DEF Answered, Answer
<1>21. PoolOK'
  BY <1>0, <1>1, <1>2, <1>15, <1>16 DEF WorkersInv, PoolOK, TypeOK
<1>22. SleepersKnown'
  BY <1>0, <1>1, <1>2, <1>14, <1>16 DEF WorkersInv, SleepersKnown, TypeOK
<1>23. IteratorOK'
  BY <1>0, <1>1, <1>2, <1>16, Handles DEF WorkersInv, IteratorOK, TypeOK
<1> QED
  BY <1>12, <1>17, <1>19, <1>20, <1>21, <1>22, <1>23 DEF IInv, WorkersInv

LEMMA NextIInv == IInv /\ [Next]_vars => IInv'
<1> SUFFICES ASSUME IInv, [Next]_vars PROVE IInv'
  OBVIOUS
<1>1. CASE AddWorker
  BY <1>1, AddWorkerIInv
<1>2. CASE ReceiveReply
  BY <1>2, ReceiveReplyIInv
<1>3. CASE NoReply
  BY <1>3, NoReplyIInv
<1>4. CASE Work
  <2>1. PICK w : w = m_activeWorkerIterator
    OBVIOUS
  <2>2. \/ Pull(w) \/ Think(w)
        \/ \E g \in Group : Ask(w, g)
    BY <1>4, <2>1 DEF Work
  <2>3. CASE Pull(w) \/ Think(w)
    BY <1>4, <2>1, <2>3, QuietWorkIInv
  <2>4. CASE \E g \in Group : Ask(w, g)
    BY <1>4, <2>1, <2>4, AskIInv
  <2> QED
    BY <2>2, <2>3, <2>4
<1>5. CASE EndOfPass
  BY <1>5, EndOfPassIInv
<1>6. CASE EndOfMainLoop
  BY <1>6, EndOfMainLoopIInv
<1>7. CASE Reply
  BY <1>7, ReplyIInv
<1>8. CASE UNCHANGED vars
  <2>1. UNCHANGED <<vc, m_aliveWorkers, m_activeWorkers, m_workersDone, m_waitingWorkers,
                    m_activeWorkersToRestore, m_activeWorkerIterator, m_initiatedIterator,
                    tasks, left, asked, destroyed, replies, phase, finalized>>
    BY <1>8 DEF vars, poolVars, iteratorVars, workerVars
  <2>2. CommunicatorInv'
    BY <2>1, SameCommunicator DEF IInv, CommunicatorInv, OnePending
  <2>3. TypeOK'
    BY <2>1 DEF IInv, TypeOK
  <2>4. WorkersInv'
    BY <2>1 DEF IInv, WorkersInv, QueuedWait, Answered, PoolOK, SleepersKnown, IteratorOK, Queued, Answer
  <2> QED
    BY <2>2, <2>3, <2>4 DEF IInv
<1> QED
  BY <1>1, <1>2, <1>3, <1>4, <1>5, <1>6, <1>7, <1>8 DEF Next, MainLoop

LEMMA Invariance == Spec => []IInv
  BY InitIInv, NextIInv, PTL DEF Spec

------------------------------------------------------------------------------
\* The communicator and the sets, the iterator and the workers of the processor
\* keep their types: no question, answer or group is foreign to its place.
THEOREM TypeCorrect == Spec => []TypeOK
<1>1. IInv => TypeOK
  BY DEF IInv
<1> QED
  BY <1>1, Invariance, PTL

\* Whatever groups fill up, are flushed or wait, processInbox() gives every
\* worker the reply to the question that worker pushed.
THEOREM OwnAnswers == Spec => []OwnAnswer
<1>1. IInv => OwnAnswer
  BY DEF IInv, WorkersInv, Answered, OwnAnswer, isMessageProcessed
<1> QED
  BY <1>1, Invariance, PTL

\* A worker that updateStates() put to sleep is in a group of the communicator
\* or among the workers that the next updateStates() wakes.
THEOREM SleepersAreKnown == Spec => []SleepersWillWake
<1>1. IInv => SleepersWillWake
  BY DEF IInv, WorkersInv, SleepersKnown, Queued, SleepersWillWake
<1> QED
  BY <1>1, Invariance, PTL

\* pushMessage() flushes a group before the reply to it can outgrow a message.
THEOREM RepliesFit == Spec => []ReplyFits
<1>1. IInv => ReplyFits
  <2> SUFFICES ASSUME IInv, NEW g \in Group
               PROVE  Len(vc.m_workerCurrentIdentifiers[g]) * Period <= MessageUnits
    BY DEF ReplyFits
  <2> DEFINE n == Len(vc.m_workerCurrentIdentifiers[g])
  <2>1. n \in Nat /\ n <= threshold
    <3>1. vc \in Communicator /\ CommunicatorInv
      BY DEF IInv, TypeOK
    <3>2. n \in Nat
      BY <3>1, Fields, LenProperties
    <3>3. n <= threshold
      BY <3>1, <3>2, Sizes DEF CommunicatorInv, OnePending, GroupsMatch
    <3> QED
      BY <3>2, <3>3
  <2> HIDE DEF n
  <2>2. n * Period <= threshold * Period
    BY <2>1, Sizes
  <2>3. n * Period <= MessageUnits
    BY <2>1, <2>2, Sizes
  <2> QED
    BY <2>3 DEF n
<1> QED
  BY <1>1, Invariance, PTL

\* run() never calls work() of a worker that mainLoop() gave to destroyWorker().
THEOREM NoDestroyedWorkerIsRun == Spec => []NoDestroyedWorkerRuns
<1>1. IInv => NoDestroyedWorkerRuns
  <2> SUFFICES ASSUME IInv, phase = "run", m_activeWorkerIterator # End
               PROVE  m_activeWorkerIterator \in m_aliveWorkers \ destroyed
    BY DEF NoDestroyedWorkerRuns
  <2>1. m_activeWorkerIterator \in m_activeWorkers /\ m_activeWorkerIterator \in Nat
    BY Handles DEF IInv, TypeOK, WorkersInv, IteratorOK
  <2>2. m_activeWorkerIterator \notin m_workersDone
    BY <2>1 DEF IInv, WorkersInv, IteratorOK
  <2> QED
    BY <2>1, <2>2 DEF IInv, WorkersInv, PoolOK
<1> QED
  BY <1>1, Invariance, PTL

==============================================================================
