--------------------------- MODULE VirtualProcessor ---------------------------
(***************************************************************************)
(* scheduling/VirtualProcessor.cpp and scheduling/TaskCreator.cpp on one   *)
(* rank, with the communicator of module VirtualCommunicator: a pool of    *)
(* workers that are run in turn, sleep while they wait for a reply and are *)
(* destroyed when they are done.  One call of mainLoop() per tick of the   *)
(* ComputeCore.                                                            *)
(*                                                                         *)
(* The workers are application code.  Here each one does Steps things,     *)
(* thinking or asking a question (one element), pulls each reply when it   *)
(* is woken and is done when nothing is left.                              *)
(***************************************************************************)
EXTENDS VirtualCommunicator, FiniteSetsExt

CONSTANTS
  Steps,                  \* bound: things a worker does
  m_maximumAliveWorkers

ASSUME ProcessorAssumption ==
  /\ Steps \in Nat \ {0} /\ m_maximumAliveWorkers \in Nat \ {0}
  /\ IsFiniteSet(WorkerHandle) /\ WorkerHandle # {}

VARIABLES
  vc,                         \* m_virtualCommunicator
  m_aliveWorkers, m_activeWorkers,
  m_workersDone, m_waitingWorkers, m_activeWorkersToRestore,
  m_activeWorkerIterator,     \* a worker, or End
  m_initiatedIterator,
  tasks,                      \* tasks that have no worker yet
  left,                       \* the things a worker has still to do
  asked,                      \* the question a worker waits for, or NoQuestion
  destroyed,                  \* workers given to destroyWorker()
  replies,                    \* sent by the other ranks, not yet received
  phase,                      \* where mainLoop() is
  finalized                   \* has finalizeMethod() been called?

poolVars == <<m_aliveWorkers, m_activeWorkers, m_workersDone, m_waitingWorkers,
              m_activeWorkersToRestore>>
iteratorVars == <<m_activeWorkerIterator, m_initiatedIterator>>
workerVars == <<left, asked, destroyed>>
vars == <<vc, poolVars, iteratorVars, tasks, workerVars, replies, phase, finalized>>

End == Max(WorkerHandle) + 1
NoQuestion == << >>

\* The only element of a question, and the reply of the other rank to it.
Question(w) == <<w, left[w]>>
Answer(q) == [j \in 1 .. Period |-> <<q, j>>]

begin(S) == IF S = {} THEN End ELSE Min(S)
next(S, w) == begin({ v \in S : v > w })

Init ==
  /\ vc = newCommunicator
  /\ m_aliveWorkers = {} /\ m_activeWorkers = {}
  /\ m_workersDone = {} /\ m_waitingWorkers = {} /\ m_activeWorkersToRestore = {}
  /\ m_activeWorkerIterator = End /\ m_initiatedIterator = FALSE
  /\ tasks = WorkerHandle
  /\ left = [w \in WorkerHandle |-> Steps]
  /\ asked = [w \in WorkerHandle |-> NoQuestion]
  /\ destroyed = {}
  /\ replies = << >>
  /\ phase = "add"
  /\ finalized = FALSE

------------------------------------------------------------------------------
\* mainLoop() up to run(): one new worker, if there is a task and room for it.
AddWorker ==
  LET w == Min(tasks)
      can == tasks # {} /\ Cardinality(m_aliveWorkers) < m_maximumAliveWorkers
  IN  /\ phase = "add"
      /\ phase' = "inbox"
      /\ tasks' = IF can THEN tasks \ {w} ELSE tasks
      /\ m_aliveWorkers' = IF can THEN m_aliveWorkers \cup {w} ELSE m_aliveWorkers
      /\ m_activeWorkers' = IF can THEN m_activeWorkers \cup {w} ELSE m_activeWorkers
      /\ UNCHANGED <<vc, m_workersDone, m_waitingWorkers, m_activeWorkersToRestore,
                     iteratorVars, workerVars, replies, finalized>>

\* The start of run(): the iterator on the first call, and what follows once the
\* inbox is processed.
StartRun ==
  /\ m_activeWorkerIterator' = IF m_initiatedIterator THEN m_activeWorkerIterator ELSE begin(m_activeWorkers)
  /\ m_initiatedIterator' = TRUE
  /\ phase' = IF isReady(vc') THEN "run" ELSE "end"

\* The inbox holds a reply.
ReceiveReply ==
  /\ phase = "inbox"
  /\ replies # << >>
  /\ vc' = processInbox(vc, Head(replies))
  /\ m_activeWorkersToRestore' = m_activeWorkersToRestore \cup
       { reactivated(vc, Head(replies))[k] : k \in DOMAIN reactivated(vc, Head(replies)) }
  /\ replies' = Tail(replies)
  /\ StartRun
  /\ UNCHANGED <<m_aliveWorkers, m_activeWorkers, m_workersDone, m_waitingWorkers,
                 tasks, workerVars, finalized>>

\* The inbox is empty, or holds a message that is no reply.
NoReply ==
  /\ phase = "inbox"
  /\ vc' = vc
  /\ StartRun
  /\ UNCHANGED <<poolVars, tasks, workerVars, replies, finalized>>

\* What one call of work() may do.
Pull(w) ==
  /\ asked[w] # NoQuestion
  /\ isMessageProcessed(vc, w)
  /\ asked' = [asked EXCEPT ![w] = NoQuestion]
  /\ vc' = getMessageResponseElements(resetLocalPushedMessageStatus(vc), w)
  /\ UNCHANGED left

Think(w) ==
  /\ asked[w] = NoQuestion
  /\ left' = [left EXCEPT ![w] = @ - 1]
  /\ vc' = resetLocalPushedMessageStatus(vc)
  /\ UNCHANGED asked

Ask(w, group) ==
  /\ asked[w] = NoQuestion
  /\ left' = [left EXCEPT ![w] = @ - 1]
  /\ asked' = [asked EXCEPT ![w] = Question(w)]
  /\ vc' = pushMessage(resetLocalPushedMessageStatus(vc), w, group, <<Question(w)>>)

\* run() with a worker to run, and what mainLoop() does with a worker that is
\* done: processWorkerResult() and destroyWorker().
Work ==
  LET w == m_activeWorkerIterator
      pushed == vc'.m_localPushedMessageStatus
      isDone == left'[w] = 0 /\ asked'[w] = NoQuestion
  IN  /\ phase = "run"
      /\ w # End
      /\ Pull(w) \/ Think(w) \/ \E group \in Group : Ask(w, group)
      /\ m_waitingWorkers' = IF pushed THEN m_waitingWorkers \cup {w} ELSE m_waitingWorkers
      /\ m_workersDone' = IF ~ pushed /\ isDone THEN m_workersDone \cup {w} ELSE m_workersDone
      /\ destroyed' = IF isDone THEN destroyed \cup {w} ELSE destroyed
      /\ m_activeWorkerIterator' = next(m_activeWorkers, w)
      /\ phase' = "end"
      /\ UNCHANGED <<m_aliveWorkers, m_activeWorkers, m_activeWorkersToRestore,
                     m_initiatedIterator, tasks, replies, finalized>>

\* Mutant: workers are woken up before the waiting ones are put to sleep.
stillActive_WakeFirst == (m_activeWorkers \cup m_activeWorkersToRestore) \ (m_workersDone \cup m_waitingWorkers)

\* The three loops of updateStates() over m_activeWorkers, in their order.
stillActive == (m_activeWorkers \ (m_workersDone \cup m_waitingWorkers)) \cup m_activeWorkersToRestore

\* Mutant: completed jobs stay in the sets.
EndOfPass_KeepsDone ==
  LET reset == resetGlobalPushedMessageStatus(vc)
  IN  /\ phase = "run"
      /\ m_activeWorkerIterator = End
      /\ m_activeWorkers' = (m_activeWorkers \ m_waitingWorkers) \cup m_activeWorkersToRestore
      /\ m_workersDone' = {} /\ m_waitingWorkers' = {} /\ m_activeWorkersToRestore' = {}
      /\ vc' = forceFlush(reset)
      /\ m_activeWorkerIterator' = begin(m_activeWorkers')
      /\ phase' = "end"
      /\ UNCHANGED <<m_aliveWorkers, m_initiatedIterator, tasks, workerVars, replies, finalized>>

\* run() at the end of the active workers: updateStates() and forceFlush().
EndOfPass ==
  LET reset == resetGlobalPushedMessageStatus(vc)
  IN  /\ phase = "run"
      /\ m_activeWorkerIterator = End
      /\ m_aliveWorkers' = m_aliveWorkers \ m_workersDone
      /\ m_activeWorkers' = stillActive
      /\ m_workersDone' = {} /\ m_waitingWorkers' = {} /\ m_activeWorkersToRestore' = {}
      /\ vc' = IF ~ reset.m_globalPushedMessageStatus THEN forceFlush(reset) ELSE reset
      /\ m_activeWorkerIterator' = begin(m_activeWorkers')
      /\ phase' = "end"
      /\ UNCHANGED <<m_initiatedIterator, tasks, workerVars, replies, finalized>>

\* The end of mainLoop(): finalizeMethod() and reset() when nothing is left.
EndOfMainLoop ==
  LET over == tasks = {} /\ m_aliveWorkers = {}
  IN  /\ phase = "end"
      /\ phase' = "add"
      /\ finalized' = (finalized \/ over)
      /\ m_initiatedIterator' = (m_initiatedIterator /\ ~ over)
      /\ UNCHANGED <<vc, poolVars, m_activeWorkerIterator, tasks, workerVars, replies>>

\* External: another rank replies with Period elements per question, in order.
Reply ==
  LET query == Head(vc.m_outbox)
  IN  /\ vc.m_outbox # << >>
      /\ vc' = [vc EXCEPT !.m_outbox = Tail(@)]
      /\ replies' = Append(replies,
           [group |-> query.group,
            content |-> [k \in 1 .. Len(query.content) * Period |->
                           Answer(query.content[(k - 1) \div Period + 1])[((k - 1) % Period) + 1]]])
      /\ UNCHANGED <<poolVars, iteratorVars, tasks, workerVars, phase, finalized>>

MainLoop == AddWorker \/ ReceiveReply \/ NoReply \/ Work \/ EndOfPass \/ EndOfMainLoop

Next == MainLoop \/ Reply

Spec == Init /\ [][Next]_vars

\* The main loop runs for ever, the other ranks reply, and MPI delivers.
ProcessorFairness == WF_vars(MainLoop) /\ WF_vars(Reply) /\ SF_vars(ReceiveReply)

------------------------------------------------------------------------------
\* Demultiplexing gives every worker the reply to its own question.
OwnAnswer ==
  \A w \in WorkerHandle :
    isMessageProcessed(vc, w) => vc.m_elementsForWorkers[w] = Answer(asked[w])

\* A worker that sleeps is one of the workers of a group, or about to be woken:
\* no reply can pass it by.
SleepersWillWake ==
  \A w \in m_aliveWorkers \ m_activeWorkers :
    \/ w \in m_activeWorkersToRestore
    \/ \E g \in Group : \E k \in DOMAIN vc.m_workerCurrentIdentifiers[g] :
         vc.m_workerCurrentIdentifiers[g][k] = w

\* "communicator is not overloaded": the reply to a real message fits a message.
ReplyFits ==
  \A g \in Group : Len(vc.m_workerCurrentIdentifiers[g]) * Period <= MessageUnits

\* A worker that was destroyed is never run again.
NoDestroyedWorkerRuns ==
  phase = "run" /\ m_activeWorkerIterator # End => m_activeWorkerIterator \in m_aliveWorkers \ destroyed

\* Once the first task has a worker, every task is completed and the TaskCreator is
\* finalized.
AllTasksComplete == (m_aliveWorkers # {}) ~> (finalized /\ destroyed = WorkerHandle)
==============================================================================
