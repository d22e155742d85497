------------------------- MODULE VirtualCommunicator -------------------------
(***************************************************************************)
(* communication/VirtualCommunicator.cpp: small messages of many workers   *)
(* are multiplexed into one real message per group, a group being a tag    *)
(* and a destination; the reply is split between the workers again.        *)
(*                                                                         *)
(* A communicator is a record, an operation maps one record to the next.   *)
(* A group is the number getMessageUniqueId() makes of tag and             *)
(* destination, so that groups are ordered as in the sets of               *)
(* m_priorityQueue.  The tables of periods and reply tags are constant.    *)
(***************************************************************************)
EXTENDS Naturals, Sequences, FiniteSets

CONSTANTS
  Tag, Destination,  \* initial parts of Nat
  WorkerHandle,      \* a subset of Nat, the order is that of std::set
  Period,            \* getElementsPerQuery, the same for every tag
  MessageUnits,      \* MAXIMUM_MESSAGE_SIZE_IN_BYTES / sizeof(MessageUnit)
  MAX_NUMBER_OF_MPI_PROCESSES

ASSUME CommunicatorAssumption ==
  /\ Tag \subseteq Nat /\ WorkerHandle \subseteq Nat
  /\ MAX_NUMBER_OF_MPI_PROCESSES \in Nat
  /\ Destination \subseteq 0 .. MAX_NUMBER_OF_MPI_PROCESSES - 1
  /\ Period \in Nat \ {0} /\ MessageUnits \in Nat /\ Period <= MessageUnits

getMessageUniqueId(destination, tag) == tag * MAX_NUMBER_OF_MPI_PROCESSES + destination

Group == { getMessageUniqueId(d, t) : d \in Destination, t \in Tag }

threshold == MessageUnits \div Period

newCommunicator ==
  [m_messageContent |-> [g \in Group |-> << >>],
   m_workerCurrentIdentifiers |-> [g \in Group |-> << >>],
   m_priorityQueue |-> {},                   \* pairs of a priority and a group
   m_pendingMessages |-> 0,
   active |-> 0,                             \* m_activeTag and m_activeDestination
   m_elementsForWorkers |-> [w \in WorkerHandle |-> << >>],
   m_localPushedMessageStatus |-> FALSE,
   m_globalPushedMessageStatus |-> FALSE,
   m_outbox |-> << >>]                       \* the real messages it has sent

------------------------------------------------------------------------------
flushMessage(vc, group) ==
  LET content == vc.m_messageContent[group]
  IN  [vc EXCEPT !.m_priorityQueue = @ \ {<<Len(content), group>>},
                 !.active = group,
                 !.m_messageContent[group] = << >>,
                 !.m_outbox = Append(@, [group |-> group, content |-> content]),
                 !.m_pendingMessages = @ + 1]

\* Mutant: the old priority is not deleted.
enqueue_KeepsPriority(vc, workerId, group, elements) ==
  LET newPriority == Len(vc.m_messageContent[group]) + Len(elements)
  IN  [vc EXCEPT !.m_globalPushedMessageStatus = TRUE,
                 !.m_localPushedMessageStatus = TRUE,
                 !.m_priorityQueue = @ \cup {<<newPriority, group>>},
                 !.m_messageContent[group] = @ \o elements,
                 !.m_workerCurrentIdentifiers[group] = Append(@, workerId)]

\* pushMessage() up to the test for a flush.
enqueue(vc, workerId, group, elements) ==
  LET oldPriority == Len(vc.m_messageContent[group])
      newPriority == oldPriority + Len(elements)
  IN  [vc EXCEPT !.m_globalPushedMessageStatus = TRUE,
                 !.m_localPushedMessageStatus = TRUE,
                 !.m_priorityQueue = (@ \ {<<oldPriority, group>>}) \cup {<<newPriority, group>>},
                 !.m_messageContent[group] = @ \o elements,
                 !.m_workerCurrentIdentifiers[group] = Append(@, workerId)]

\* Mutant: a full group is not flushed.
pushMessage_NoFlush(vc, workerId, group, elements) == enqueue(vc, workerId, group, elements)

pushMessage(vc, workerId, group, elements) ==
  LET pushed == enqueue(vc, workerId, group, elements)
      currentSize == Len(pushed.m_workerCurrentIdentifiers[group])
  IN  IF currentSize >= threshold THEN flushMessage(pushed, group) ELSE pushed

\* The group of the highest priority, the first one of them.
forceFlush(vc) ==
  LET before(a, b) == a[1] > b[1] \/ (a[1] = b[1] /\ a[2] <= b[2])
      top == CHOOSE a \in vc.m_priorityQueue : \A b \in vc.m_priorityQueue : before(a, b)
  IN  IF vc.m_priorityQueue = {} THEN vc ELSE flushMessage(vc, top[2])

\* processInbox() listens to a reply to the active group only.
accepts(vc, reply) == vc.m_pendingMessages > 0 /\ vc.active = reply.group

\* The workers that processInbox() appends to the list it is given.
reactivated(vc, reply) == IF accepts(vc, reply) THEN vc.m_workerCurrentIdentifiers[reply.group] ELSE << >>

\* Mutant: the share of a worker starts at its place, not at place times Period.
processInbox_WrongOffset(vc, reply) ==
  LET workers == vc.m_workerCurrentIdentifiers[reply.group]
      mine(w) == CHOOSE k \in 1 .. Len(workers) : workers[k] = w
      share(w) == SubSeq(reply.content, mine(w), mine(w) + Period - 1)
  IN  IF ~ accepts(vc, reply) THEN vc
      ELSE [vc EXCEPT !.m_pendingMessages = @ - 1,
                      !.m_workerCurrentIdentifiers[reply.group] = << >>,
                      !.m_elementsForWorkers =
                         [w \in WorkerHandle |-> IF \E k \in DOMAIN workers : workers[k] = w
                                                 THEN @[w] \o share(w) ELSE @[w]]]

processInbox(vc, reply) ==
  LET workers == vc.m_workerCurrentIdentifiers[reply.group]
      mine(w) == CHOOSE k \in 1 .. Len(workers) : workers[k] = w
      share(w) == SubSeq(reply.content, (mine(w) - 1) * Period + 1, mine(w) * Period)
  IN  IF ~ accepts(vc, reply) THEN vc
      ELSE [vc EXCEPT !.m_pendingMessages = @ - 1,
                      !.m_workerCurrentIdentifiers[reply.group] = << >>,
                      !.m_elementsForWorkers =
                         [w \in WorkerHandle |-> IF \E k \in DOMAIN workers : workers[k] = w
                                                 THEN @[w] \o share(w) ELSE @[w]]]

isReady(vc) == vc.m_pendingMessages = 0
isMessageProcessed(vc, workerId) == vc.m_elementsForWorkers[workerId] # << >>
getMessageResponseElements(vc, workerId) == [vc EXCEPT !.m_elementsForWorkers[workerId] = << >>]
resetLocalPushedMessageStatus(vc) == [vc EXCEPT !.m_localPushedMessageStatus = FALSE]
resetGlobalPushedMessageStatus(vc) == [vc EXCEPT !.m_globalPushedMessageStatus = FALSE]
==============================================================================
