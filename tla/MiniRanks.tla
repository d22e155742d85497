------------------------------- MODULE MiniRanks -------------------------------
(***************************************************************************)
(* The threads of a job that runs with -mini-ranks-per-rank PerRank: in    *)
(* every MPI process one thread (the rank) makes the MPI calls             *)
(* (RankProcess::startMiniRanks and                                        *)
(* MessagesHandler::sendAndReceiveMessagesForRankProcess) and PerRank      *)
(* threads (the mini-ranks) run the main loop of a ComputeCore.            *)
(*                                                                         *)
(* A mini-rank and its rank share two MessageQueues.  Module MessageQueue  *)
(* shows that they are bounded FIFOs, so a push or a pop is one step here. *)
(* The bytes behind a message are the subject of module BufferHandOff.     *)
(***************************************************************************)
EXTENDS Integers, Sequences, FiniteSets

CONSTANTS
  NumRanks,         \* MPI processes
  PerRank,          \* m_numberOfMiniRanksPerRank
  Bins,             \* m_maximumNumberOfOutboxMessages, the bins of a queue
  MaxPerTick,       \* bound: messages a mini-rank creates in one tick
  MaxOutstanding,   \* bound: application messages sent and not yet received
  Configured        \* mini-ranks that have run configureEngine() at the start

ASSUME MiniRanksAssumption ==
  /\ NumRanks \in Nat \ {0} /\ PerRank \in Nat \ {0, 1} /\ Bins \in Nat \ {0}
  /\ MaxPerTick \in Nat /\ MaxOutstanding \in Nat
  /\ Configured \subseteq 0 .. NumRanks * PerRank - 1

Rank == 0 .. NumRanks - 1
MiniRank == 0 .. NumRanks * PerRank - 1
MASTER_RANK == 0

\* Mutant: ranks are dealt out in turn.
rankOf_Modulo(m) == m % NumRanks

\* setConnections and the arithmetic of sendMessagesForMiniRank and
\* receiveMessagesForMiniRanks: where a mini-rank lives, and its index there.
rankOf(m) == m \div PerRank
miniRankIndex(m) == m % PerRank
Core(r, i) == r * PerRank + i

\* What the threads tell apart in a message: its destination, and whether its
\* tag opens the slave mode whose handler calls ComputeCore::stop().
Message == [dst : MiniRank, stop : BOOLEAN]

VARIABLES
  m_bufferedInbox, m_bufferedOutbox,  \* the two queues of each mini-rank
  m_dead,            \* the kill signal, a flag of the outbox queue
  built,             \* has configureEngine() constructed queues and allocators?
  m_alive,           \* ComputeCore::m_alive
  m_outbox,          \* messages of the current tick that are not pushed yet
  miniPc,            \* where the thread of a mini-rank is
  net,               \* net[s][r]: sent by rank s, not yet received by rank r
  rankPc, i,         \* the thread of a rank: its place and its loop counter
  deadMiniRanks,
  hand,              \* the message received and not yet pushed, if any
  stopSent,          \* has the master told everyone to stop?
  outstanding        \* application messages created and not yet received

queueVars == <<m_bufferedInbox, m_bufferedOutbox, m_dead, built>>
miniVars == <<m_alive, m_outbox, miniPc, stopSent, outstanding>>
rankVars == <<rankPc, i, deadMiniRanks, hand, net>>
vars == <<queueVars, miniVars, rankVars>>

\* No queue holds more messages than its bins, and a rank never counts more dead
\* mini-ranks in one pass than it has.
TypeOK ==
  /\ m_bufferedInbox \in [MiniRank -> Seq(Message)]
  /\ m_bufferedOutbox \in [MiniRank -> Seq(Message)]
  /\ \A m \in MiniRank : Len(m_bufferedInbox[m]) <= Bins /\ Len(m_bufferedOutbox[m]) <= Bins
  /\ m_dead \in [MiniRank -> BOOLEAN]
  /\ built \in [MiniRank -> BOOLEAN]
  /\ m_alive \in [MiniRank -> BOOLEAN]
  /\ m_outbox \in [MiniRank -> Seq(Message)]
  /\ miniPc \in [MiniRank -> {"boot", "loop", "work", "push", "returning", "exited"}]
  /\ net \in [Rank -> [Rank -> Seq(Message)]]
  /\ rankPc \in [Rank -> {"isDead", "send", "probe", "push", "next", "done", "undefined"}]
  /\ i \in [Rank -> 0 .. PerRank - 1]
  /\ deadMiniRanks \in [Rank -> 0 .. PerRank]
  /\ hand \in [Rank -> Seq(Message)]
  /\ stopSent \in BOOLEAN
  /\ outstanding \in 0 .. MaxOutstanding

Init ==
  /\ m_bufferedInbox = [m \in MiniRank |-> << >>]
  /\ m_bufferedOutbox = [m \in MiniRank |-> << >>]
  /\ m_dead = [m \in MiniRank |-> FALSE]
  /\ built = [m \in MiniRank |-> m \in Configured]
  /\ m_alive = [m \in MiniRank |-> TRUE]
  /\ m_outbox = [m \in MiniRank |-> << >>]
  /\ miniPc = [m \in MiniRank |-> IF m \in Configured THEN "loop" ELSE "boot"]
  /\ net = [s \in Rank |-> [r \in Rank |-> << >>]]
  /\ rankPc = [r \in Rank |-> "isDead"]
  /\ i = [r \in Rank |-> 0]
  /\ deadMiniRanks = [r \in Rank |-> 0]
  /\ hand = [r \in Rank |-> << >>]
  /\ stopSent = FALSE
  /\ outstanding = 0

------------------------------------------------------------------------------
(***************************************************************************)
(* The thread of mini-rank m: ComputeCore::run and runWithProfiler.        *)
(***************************************************************************)
goMini(m, pc) == miniPc' = [miniPc EXCEPT ![m] = pc]

\* run() calls configureEngine() in the thread of the mini-rank.
ConfigureEngine(m) ==
  /\ miniPc[m] = "boot"
  /\ built' = [built EXCEPT ![m] = TRUE]
  /\ goMini(m, "loop")
  /\ UNCHANGED <<m_bufferedInbox, m_bufferedOutbox, m_dead, m_alive, m_outbox,
                 stopSent, outstanding, rankVars>>

\* receiveMessages() takes at most one message; processMessages() and
\* processData() then open and run the slave mode that stops the mini-rank.
ReceiveMessages(m) ==
  LET inbox == m_bufferedInbox[m]
  IN  /\ miniPc[m] = "loop"
      /\ m_alive[m]
      /\ goMini(m, "work")
      /\ IF inbox = << >>
         THEN UNCHANGED <<m_bufferedInbox, m_alive, outstanding>>
         ELSE /\ m_bufferedInbox' = [m_bufferedInbox EXCEPT ![m] = Tail(inbox)]
              /\ m_alive' = [m_alive EXCEPT ![m] = ~ Head(inbox).stop]
              /\ outstanding' = IF Head(inbox).stop THEN outstanding ELSE outstanding - 1
      /\ UNCHANGED <<m_bufferedOutbox, m_dead, built, m_outbox, stopSent, rankVars>>

\* A handler of the application, in processMessages() or processData(), sends a
\* message.  The application is quiet once the master has told it to stop.
Create(m, d) ==
  /\ miniPc[m] = "work"
  /\ ~ stopSent
  /\ Len(m_outbox[m]) < MaxPerTick
  /\ outstanding < MaxOutstanding
  /\ m_outbox' = [m_outbox EXCEPT ![m] = Append(@, [dst |-> d, stop |-> FALSE])]
  /\ outstanding' = outstanding + 1
  /\ UNCHANGED <<queueVars, m_alive, miniPc, stopSent, rankVars>>

\* The last master mode sends the stop message to every mini-rank.
Stop ==
  LET stops == [k \in 1 .. NumRanks * PerRank |-> [dst |-> k - 1, stop |-> TRUE]]
  IN  /\ miniPc[MASTER_RANK] = "work"
      /\ ~ stopSent
      /\ m_outbox' = [m_outbox EXCEPT ![MASTER_RANK] = @ \o stops]
      /\ stopSent' = TRUE
      /\ UNCHANGED <<queueVars, m_alive, miniPc, outstanding, rankVars>>

SendMessages(m) ==
  /\ miniPc[m] = "work"
  /\ goMini(m, "push")
  /\ UNCHANGED <<queueVars, m_alive, m_outbox, stopSent, outstanding, rankVars>>

\* One successful push() of sendMessagesForComputeCore.  While the queue is full
\* the thread retries without changing anything.
PushOutbox(m) ==
  /\ miniPc[m] = "push"
  /\ m_outbox[m] # << >>
  /\ Len(m_bufferedOutbox[m]) < Bins
  /\ m_bufferedOutbox' = [m_bufferedOutbox EXCEPT ![m] = Append(@, Head(m_outbox[m]))]
  /\ m_outbox' = [m_outbox EXCEPT ![m] = Tail(@)]
  /\ UNCHANGED <<m_bufferedInbox, m_dead, built, m_alive, miniPc, stopSent,
                 outstanding, rankVars>>

EndOfTick(m) ==
  /\ miniPc[m] = "push"
  /\ m_outbox[m] = << >>
  /\ goMini(m, "loop")
  /\ UNCHANGED <<queueVars, m_alive, m_outbox, stopSent, outstanding, rankVars>>

\* Mutant: the thread returns without the kill signal.
SendKillSignal_Forgotten(m) ==
  /\ miniPc[m] = "loop"
  /\ ~ m_alive[m]
  /\ goMini(m, "returning")
  /\ UNCHANGED <<queueVars, m_alive, m_outbox,
                 stopSent, outstanding, rankVars>>

\* The main loop ends: sendKillSignal().
SendKillSignal(m) ==
  /\ miniPc[m] = "loop"
  /\ ~ m_alive[m]
  /\ m_dead' = [m_dead EXCEPT ![m] = TRUE]
  /\ goMini(m, "returning")
  /\ UNCHANGED <<m_bufferedInbox, m_bufferedOutbox, built, m_alive, m_outbox,
                 stopSent, outstanding, rankVars>>

\* The thread prints its profile and the status of its graph, and returns.  The
\* rank may see the kill signal and destroy the core in the meantime.
Return(m) ==
  /\ miniPc[m] = "returning"
  /\ goMini(m, "exited")
  /\ UNCHANGED <<queueVars, m_alive, m_outbox, stopSent, outstanding, rankVars>>

MiniRankThread(m) ==
  \/ ConfigureEngine(m) \/ ReceiveMessages(m) \/ (\E d \in MiniRank : Create(m, d))
  \/ SendMessages(m) \/ PushOutbox(m) \/ EndOfTick(m) \/ SendKillSignal(m)
  \/ Return(m)

------------------------------------------------------------------------------
(***************************************************************************)
(* The thread of rank r: startMiniRanks, and the loop over the mini-ranks  *)
(* of sendAndReceiveMessagesForRankProcess.                                *)
(***************************************************************************)
goRank(r, pc) == rankPc' = [rankPc EXCEPT ![r] = pc]
current(r) == Core(r, i[r])

\* if(outbox->isDead()) deadMiniRanks++.  A queue that is not constructed yet
\* has an uninitialized m_dead.
IsDead(r) ==
  /\ rankPc[r] = "isDead"
  /\ \E dead \in IF built[current(r)] THEN {m_dead[current(r)]} ELSE BOOLEAN :
       deadMiniRanks' = [deadMiniRanks EXCEPT ![r] = IF dead THEN @ + 1 ELSE @]
  /\ goRank(r, "send")
  /\ UNCHANGED <<queueVars, miniVars, i, hand, net>>

\* Mutant: one message per visit, an if instead of the while.
IsendForMiniRank_Once(r) ==
  LET outbox == m_bufferedOutbox[current(r)]
  IN  /\ rankPc[r] = "send"
      /\ built[current(r)]
      /\ outbox # << >>
      /\ m_bufferedOutbox' = [m_bufferedOutbox EXCEPT ![current(r)] = Tail(outbox)]
      /\ net' = [net EXCEPT ![r][rankOf(Head(outbox).dst)] = Append(@, Head(outbox))]
      /\ goRank(r, "probe")
      /\ UNCHANGED <<m_bufferedInbox, m_dead, built, miniVars, i, deadMiniRanks, hand>>

\* while(outbox->hasContent()): pop one message and MPI_Isend it.
IsendForMiniRank(r) ==
  LET outbox == m_bufferedOutbox[current(r)]
  IN  /\ rankPc[r] = "send"
      /\ built[current(r)]
      /\ outbox # << >>
      /\ m_bufferedOutbox' = [m_bufferedOutbox EXCEPT ![current(r)] = Tail(outbox)]
      /\ net' = [net EXCEPT ![r][rankOf(Head(outbox).dst)] = Append(@, Head(outbox))]
      /\ UNCHANGED <<m_bufferedInbox, m_dead, built, miniVars, rankPc, i, deadMiniRanks, hand>>

\* hasContent() is false.
OutboxEmpty(r) ==
  /\ rankPc[r] = "send"
  /\ built[current(r)] => m_bufferedOutbox[current(r)] = << >>
  /\ goRank(r, "probe")
  /\ UNCHANGED <<queueVars, miniVars, i, deadMiniRanks, hand, net>>

\* hasContent() compares the uninitialized indices of a queue that is not
\* constructed and finds them different: pop() then reads a wild pointer.
WildOutbox(r) ==
  /\ rankPc[r] = "send"
  /\ ~ built[current(r)]
  /\ goRank(r, "undefined")
  /\ UNCHANGED <<queueVars, miniVars, i, deadMiniRanks, hand, net>>

\* receiveMessagesForMiniRanks: MPI_Iprobe reports nothing (or nothing yet).
ProbeNothing(r) ==
  /\ rankPc[r] = "probe"
  /\ goRank(r, "next")
  /\ UNCHANGED <<queueVars, miniVars, i, deadMiniRanks, hand, net>>

\* Mutant: the message is probed and read, and stays receivable.
Receive_Again(r, s) ==
  /\ rankPc[r] = "probe"
  /\ net[s][r] # << >>
  /\ hand' = [hand EXCEPT ![r] = <<Head(net[s][r])>>]
  /\ goRank(r, "push")
  /\ UNCHANGED <<queueVars, miniVars, i, deadMiniRanks, net>>

\* MPI_Iprobe reports a message of rank s: MPI_Recv it and copy it to a buffer
\* of the inbox allocator of its destination.
Receive(r, s) ==
  /\ rankPc[r] = "probe"
  /\ net[s][r] # << >>
  /\ hand' = [hand EXCEPT ![r] = <<Head(net[s][r])>>]
  /\ net' = [net EXCEPT ![s][r] = Tail(@)]
  /\ goRank(r, "push")
  /\ UNCHANGED <<queueVars, miniVars, i, deadMiniRanks>>

destination(r) == Core(r, miniRankIndex(hand[r][1].dst))

\* inbox->push() succeeds; while it fails the thread retries.
PushInbox(r) ==
  /\ rankPc[r] = "push"
  /\ built[destination(r)]
  /\ Len(m_bufferedInbox[destination(r)]) < Bins
  /\ m_bufferedInbox' = [m_bufferedInbox EXCEPT ![destination(r)] = Append(@, hand[r][1])]
  /\ hand' = [hand EXCEPT ![r] = << >>]
  /\ goRank(r, "next")
  /\ UNCHANGED <<m_bufferedOutbox, m_dead, built, miniVars, i, deadMiniRanks, net>>

\* The allocator and the queue of the destination are not constructed.
WildInbox(r) ==
  /\ rankPc[r] = "push"
  /\ ~ built[destination(r)]
  /\ goRank(r, "undefined")
  /\ UNCHANGED <<queueVars, miniVars, i, deadMiniRanks, hand, net>>

\* Mutant: deadMiniRanks is not reset for a new pass.
NextMiniRank_KeepsCount(r) ==
  LET last == i[r] = PerRank - 1
      over == last /\ deadMiniRanks[r] = PerRank
  IN  /\ rankPc[r] = "next"
      /\ i' = [i EXCEPT ![r] = IF last THEN 0 ELSE @ + 1]
      /\ goRank(r, IF over THEN "done" ELSE "isDead")
      /\ UNCHANGED <<queueVars, miniVars, deadMiniRanks, hand, net>>

\* The next mini-rank; after the last one the process ends if all of them were
\* dead in this pass (and run() destroys the cores), else a new pass starts.
NextMiniRank(r) ==
  LET last == i[r] = PerRank - 1
      over == last /\ deadMiniRanks[r] = PerRank
  IN  /\ rankPc[r] = "next"
      /\ i' = [i EXCEPT ![r] = IF last THEN 0 ELSE @ + 1]
      /\ deadMiniRanks' = [deadMiniRanks EXCEPT ![r] = IF last THEN 0 ELSE @]
      /\ goRank(r, IF over THEN "done" ELSE "isDead")
      /\ UNCHANGED <<queueVars, miniVars, hand, net>>

RankThread(r) ==
  \/ IsDead(r) \/ IsendForMiniRank(r) \/ OutboxEmpty(r) \/ WildOutbox(r)
  \/ ProbeNothing(r) \/ (\E s \in Rank : Receive(r, s))
  \/ PushInbox(r) \/ WildInbox(r) \/ NextMiniRank(r)

------------------------------------------------------------------------------
Next ==
  \/ \E m \in MiniRank : MiniRankThread(m)
  \/ Stop
  \/ \E r \in Rank : RankThread(r)

Spec == Init /\ [][Next]_vars

\* Every thread is scheduled, and MPI makes progress: a rank that probes again
\* and again receives a message that was sent to it.
FairSpec ==
  /\ Spec
  /\ \A m \in MiniRank : WF_vars(MiniRankThread(m))
  /\ \A r \in Rank : WF_vars(RankThread(r))
  /\ \A r, s \in Rank : SF_vars(Receive(r, s))

------------------------------------------------------------------------------
\* A process that leaves its communication loop has sent every message its
\* mini-ranks had queued: the kill signal is read before the queue is.
NothingLeftBehind ==
  \A m \in MiniRank : rankPc[rankOf(m)] = "done" => m_bufferedOutbox[m] = << >> /\ m_outbox[m] = << >>

\* run() destroys the queues and the allocators of the cores without a
\* pthread_join, so it must come after the last use of them by a mini-rank.  A
\* thread that is returning only reads members that destructor() leaves alone.
NoUseAfterDestroy ==
  \A m \in MiniRank : rankPc[rankOf(m)] = "done" => miniPc[m] \in {"returning", "exited"}

\* "you must call constructor() before calling allocate()": the rank allocates
\* inbox buffers only for a mini-rank that has run configureEngine().
ConstructedBeforeUse ==
  \A r \in Rank : rankPc[r] = "push" => built[destination(r)]

\* The index arithmetic of the two ends agrees: a message that a rank pushes on
\* the inbox of one of its cores is for that mini-rank.
ArrivesAtDestination ==
  \A m \in MiniRank : \A k \in DOMAIN m_bufferedInbox[m] : m_bufferedInbox[m][k].dst = m

\* The places of the application messages in the sequences q[x], x \in S.
appPlaces(q, S) == UNION { {x} \X { k \in DOMAIN q[x] : ~ q[x][k].stop } : x \in S }
channels == [c \in Rank \X Rank |-> net[c[1]][c[2]]]

\* No message is lost or duplicated on its way through the two queues and MPI:
\* the application messages not received yet are exactly those somewhere on the
\* way, also while some mini-ranks are not configured yet.
Conserved ==
  outstanding = Cardinality(appPlaces(m_outbox, MiniRank))
              + Cardinality(appPlaces(m_bufferedOutbox, MiniRank))
              + Cardinality(appPlaces(channels, Rank \X Rank))
              + Cardinality(appPlaces(hand, Rank))
              + Cardinality(appPlaces(m_bufferedInbox, MiniRank))

\* "Try to push the message. If it does not work, just try again. It should work
\* eventually": no thread retries a push for ever.  It fails: a mini-rank that
\* retries on its full outbox takes nothing from its inbox, and the rank that
\* retries on that full inbox takes nothing from the outbox.
RetriesEnd ==
  /\ \A r \in Rank : (rankPc[r] = "push") ~> (rankPc[r] # "push")
  /\ \A m \in MiniRank : (miniPc[m] = "push") ~> (miniPc[m] # "push")

\* Once the master has told everyone to stop, every process ends.
StopEndsEveryProcess ==
  stopSent ~> (\A r \in Rank : rankPc[r] = "done")
==============================================================================
