# TLA+ models of RayPlatform

RayPlatform is a C++ framework for distributed programs that exchange many small
messages over MPI.  An application is a set of plugins; each MPI process (or each
thread of it, in the mini-rank mode) runs a `ComputeCore`, whose main loop receives
messages, dispatches them to handlers, runs one step of the current master and slave
mode, and sends what was put on the outbox.  This directory holds TLA+ models of the
framework, TLC configurations that check them on small instances, and TLAPS proofs.

Paths below are relative to `src/RayPlatform/`.  `PROJECT.json` maps every definition
to the lines it models and lists hazards, runs, mutants, findings and theorems.

## 1. Inventory

| Component | Files | State | Operations | What makes it correct |
|---|---|---|---|---|
| Lock-free queue | `communication/MessageQueue.cpp` | ring, head, tail, kill flag | push, pop, isFull, hasContent, sendKillSignal | a bounded FIFO for one producer and one consumer, without a lock |
| Ring allocator | `memory/RingAllocator.cpp`, `DirtyBuffer.cpp` | states of the buffers, table of dirty buffers, current position, counters | allocate, registerBuffer, cleanDirtyBuffers | a buffer is not handed out while MPI reads it |
| Sending | `core/ComputeCore.cpp` (sendMessages), `communication/MessagesHandler.cpp` | outbox, MPI requests | copy to a new buffer, MPI_Isend, sweep | no message dropped, none altered before MPI has sent it |
| Mini-ranks | `core/RankProcess.h`, `core/MiniRank.cpp`, `MessagesHandler.cpp` | two queues and four allocators per mini-rank, kill signals | start threads, poll queues, receive, stop, destroy | no message lost or misdelivered, no endless retry, orderly start and end |
| Virtual communicator | `communication/VirtualCommunicator.cpp` | groups of questions, workers per group, priorities | pushMessage, flushMessage, forceFlush, processInbox | each worker gets the reply to its own question |
| Virtual processor, task creator | `scheduling/VirtualProcessor.cpp`, `TaskCreator.cpp` | alive, active, waiting, done workers; an iterator | addWorker, run, updateStates, mainLoop | no worker runs after its end, none sleeps for ever, all tasks complete |
| SwitchMan | `scheduling/SwitchMan.cpp` | master mode, slave mode, barrier counter | open/close master mode, open/close slave mode | ranks work in lockstep; everyone stops |
| ComputeCore | `core/ComputeCore.cpp` | all of the above, plugins, tables of handlers | main loop, configureEngine, registration, symbols | a rank runs only when its plugins registered without errors; each message is dispatched once |
| Message, checksums | `communication/Message.cpp`, `cryptography/crypto.cpp` | header fields behind the payload | saveMetaData, loadMetaData, checksum | save and load are inverse |
| Message router | `communication/MessageRouter.cpp` | routing tags, time of the last relay | route, relay, hasCompletedRelayEvents | each message arrives; relays outlive the messages |
| Routing graphs | `routing/*` | next hops, relay counts | build, getNextRankInRoute | routes end at their destination |
| Key-value store | `store/*` | items, requests, transfers in chunks | insert, push, pull, remove | a pulled value is the inserted one |
| Actors | `actors/*` | table of actors, names | spawn, send, dispatch, die | a message reaches its actor or no one |
| Buffered data | `communication/BufferedData.cpp` | counters per destination | addAt, flush, needsFlushing | nothing stays in a buffer |
| Other allocators | `memory/MyAllocator.cpp`, `ReusableMemoryStore.cpp`, `DefragmentationGroup.cpp`, `ChunkAllocatorWithDefragmentation.cpp` | chunks, free lists, handles | allocate, free, defragment | handles stay valid, allocations disjoint |
| Containers | `structures/*` | hash table with incremental resizing, splay tree, static vector | insert, find, remove | a map, a set, a sequence |
| Handlers and plugins | `handlers/*`, `plugins/*` | tables of callbacks, handles | register, resolve, dispatch | each handle has one owner |
| Profiling, files, system | `profiling/*`, `files/*`, `core/OperatingSystem.cpp` | measurements | print | no protocol; left out |

How they interact.  In the mode with one core per MPI process everything is one
thread: handlers put messages on `m_outbox` in buffers of `m_outboxAllocator`,
`ComputeCore::sendMessages` moves each to a new buffer of that same ring and
`MessagesHandler::sendMessages` gives it to `MPI_Isend`, which keeps reading it after
the call returns.  With mini-ranks, one rank thread per process does all MPI calls.
Each mini-rank thread exchanges `Message` records with it through two lock-free
queues, and those records point into ring allocators that belong to one of the two
threads.  On top of messages, `SwitchMan` gives all the cores a common sequence of
modes, and the virtual communicator and the virtual processor let many workers of one
core share real messages.  A routed job replaces direct sends by walks on a graph of
links: `ComputeCore` calls the router before it sends and after it receives.  Actors are
an alternative to modes, dispatched by the same loop.  Key-value store, buffered data,
hash table, tree and the two memory allocators are used by plugins side by side; the hash
table keeps its entries in the defragmenting allocator, the store its values in the chunk
allocator.

What is hard here: copies by two threads without a lock; buffers that are still read by
MPI or another thread when the ring comes round; two threads that each retry a push on
a queue only the other one empties; start and end of threads nobody joins; replies
matched to workers through state kept by hand; a barrier whose counter carries no mode;
metadata behind the payload that is saved and loaded at every hop; relays that leave by a
clock; values pulled in parts while keys come and go; data structures that move under the
pointers of their clients.

## 2. Modules

| Module | Models | Used by |
|---|---|---|
| `BoundedFIFO` | abstract queue: a sequence with a capacity | refined by `MessageQueue` |
| `MessageQueue` | push() and pop() word by word | |
| `RingAllocator` | the allocator as a record and operators on it | `SendPath`, `BufferHandOff` |
| `SendPath` | from the outbox to MPI and back, both senders | |
| `MiniRanks` | rank threads, mini-rank threads, queues, MPI, start and end | |
| `BufferHandOff` | the bytes behind the entries of the two queues of a mini-rank | |
| `VirtualCommunicator` | the communicator as a record and operators on it | `VirtualProcessor` |
| `VirtualProcessor` | the worker pool and `mainLoop()` of a task creator | |
| `SwitchMan` | modes and barrier over all ranks | |
| `Tuples` | numbers as words over an alphabet, overlaps, shifts | the graphs on words |
| `Polytope`, `Torus`, `OverlapGraphs` | shapes, links and next hops of the polytope, the torus, and the de Bruijn, Kautz and experimental graphs | `ConnectionGraph` |
| `ConnectionGraph` | all types of graphs, shortest paths, routes, the walk over all routes at the start | `MessageRouter` |
| `MessageRouter` | a routed job: metadata, checksums, routing, relays, the end of relaying | |
| `KeyValueStore` | items, pulls in parts, insertions and removals | |
| `Playground` | actors and their dispatch | |
| `PluginRegistry` | handles, symbols, handlers and settings of plugins | |
| `MyAllocator` | chunk allocator and its store of freed blocks | |
| `Defragmentation` | groups, lanes and handles of the defragmenting allocator | `HashTable` |
| `HashTable` | open addressing in groups, incremental resizing | |
| `SplayTree` | top-down splaying | |
| `BufferedData` | items collected per destination | |
| `MCComponents` | the sum of the previous seven state machines and of `BufferHandOff` | |
| `MCMessagePath` | the sum of `SendPath` and `MessageQueue` | |
| `MCScheduling` | the sum of `VirtualProcessor` and `SwitchMan` | |
| `MessageQueueProofs`, `SendPathProofs`, `MiniRanksProofs`, `BufferHandOffProofs`, `SwitchManProofs`, `VirtualProcessorProofs`, `MessageRouterProofs` | TLAPS proofs about the module of that name | |
| `ComponentsProofs` | TLAPS proofs about `PluginRegistry`, `Playground`, `MyAllocator`, `BufferedData` and `KeyValueStore` | |
| `MCMiniRanks`, `MCMessageRouter`, `MCHashTable` | instances for TLC, with the bounds of a run | |

**MessageQueue.**  Variables are the three fields of the class, the place and the
progress of the one `push()` and the one `pop()` in progress, and two histories.
Assigning a `Message` is one step per word in any order, since the source calls it
"not atomic".  A call that returns false changes nothing and is a stuttering step.

**RingAllocator, SendPath.**  `chosen` is the result of the two scans of `allocate()`
(dirty if all are dirty: the refusal is compiled only with `CONFIG_ASSERT`).
`content[h]` is the message whose bytes buffer `h` holds.  `CopyToNewBuffer` is the
copy that `forceMemoryReallocation` makes of every message.  `flight` is the set of sends
MPI still reads; `MPI_Complete` takes one of them out at any time.  A buffer already
registered is sent with a request that is freed at once.  The mode, with or without
mini-ranks, is chosen in the initial state and picks the sender.  In
the mini-rank sender the registered request is freed too, see finding 1; what depends on
it (WireIntact, DirtyWhileSentByRank) is stated for the sender of a rank.

**MiniRanks.**  One variable per shared object: queues, kill flag, whether
`configureEngine()` has run.  A mini-rank thread is at the start, at the top of its loop, in its
handlers, pushing, returning (its kill signal is sent, its thread still uses its core) or
exited; a rank thread walks through `isDead`, send, probe, push, next for
each of its mini-ranks.  A push or pop is one step, which `MessageQueue` justifies.  A queue
that is not constructed has arbitrary fields: reading its flag gives either value, using it
leads to the place `undefined`.  Routing of a message is by the arithmetic of the code: the
rank is the quotient, the queue the remainder.

**BufferHandOff.**  Same ring and queue with the bytes: the producer fills a buffer and
then pushes, the consumer pops and then copies.  One model for inbox and outbox; the
outbox producer moves every message to a second buffer first.  As in the code, nothing but the
queue holds the producer back: the queue has as many places as the ring has buffers, and a buffer is
filled before the push that may have to wait.  `SafeBacklog` is no guard; it is the backlog up to
which the bytes survive, and the properties are stated with it.

**VirtualCommunicator, VirtualProcessor.**  A call of `mainLoop()` is AddWorker, a look in
the inbox, one worker's work or the end of a pass, and EndOfMainLoop.  The iterator is a
worker or `End`, with the semantics of a `std::set` iterator when workers are added during a pass.
Workers are application code and follow the API: they ask one thing at a time and are done
only when no reply is due.

**SwitchMan.**  One message channel per pair of ranks.  The switch table is a chain of modes.
Master-mode handlers call openMasterMode() once, poll the barrier and close.  A handler may
set the mode to "do nothing" through getMasterModePointer() while it waits; closeMasterMode() then
goes on from `m_lastMasterMode`, the mode it was in, so the variable `m_masterMode` stands for both.

**Graphs.**  A vertex of the polytope, the torus, the de Bruijn, the Kautz and the
experimental graph is a word, the digits of its rank's number in a base; which base and length fit a number of
ranks and a degree is computed as the code does, with its fallbacks.  Links and next hops
are separate definitions, as in the code, because their agreement is what may fail.  The loads by which the
polytope and the torus choose among several hops are kept; where the code takes one of several shortest
paths, the model has the set of them.  The random graph is a set of graphs: any choice of edges of the
right number.

**MessageRouter.**  One turn of the loop of a rank is one step: receive one message, relay
it or give it to its handler, push messages, send.  Ranks share only the network, a set of
packets with an age.  The bytes of a message are its payload and what was written behind
it: saving metadata appends a record, loading takes the last one off, and the checksum is a function
of all that is before it.  `Tick` is the clock; it may not overtake a packet older than
`MaxLatency`, and a stopped rank leaves when its `Duration` is over.  A job whose routes do not
end stays in the phase `hung`, which is what the source does at start-up.

**KeyValueStore.**  A value is a sequence of bytes; a request asks for the part at the offset
the item has reached, the reply carries at most `Capacity` bytes, and
each of the steps of `pullRemoteKeyWithLength`/`test()` is an action.  Channels are
in order, as MPI's are.  A history variable records the value an item is being pulled from,
and `Tainted` when the application removed or replaced the key at either end during
the transfer: then the code promises nothing, and the model records the crash an access out of bounds would be.

**Playground.**  Names are `rank + place * Size` counted from `Size` on, as in the code.  An actor reacts to a
message by any choice of spawning, sending and dying.  `looked` is the history of tags that
were looked up in the table of handlers.

**PluginRegistry.**  Any plugin makes any calls with any arguments; slave modes, master modes and tags, which the
source writes out three times, are one definition with the kind as a parameter.  The setters that
name a second handle (`ConfigureFollower`: a reply tag, a next mode) check its range too; the others
(`Configure`) do not look at what they are given.  A failed validation sets the flag of fatal errors.

**MyAllocator, Defragmentation, HashTable, SplayTree, BufferedData.**  Data structures as
values (records, trees, sequences) and their methods as operators; the state machine makes
any sequence of calls, and a history keeps the abstract map, set or sequence.  The hash
table holds real handles of `Defragmentation` and its entries live in the groups there,
so that a moved array or a stale pointer shows in the map.

**Sums.**  The components of `MCComponents` do not call each other (the hash table includes
its allocator, the hand-over its ring).  One instance serves all: a behaviour picks one of them at the start and runs it, the
others stay in their initial states, so the states are the sum and not the product.
`MCMessagePath` and `MCScheduling` put two modules into one instance in the same way;
fairness, and the liveness properties, are those of the module that runs.

## 3. Runs

Passing runs (every property also has a mutant of the code that breaks it):

| Run | Instance | Shows |
|---|---|---|
| `message_path` | `SendPath` in both modes, 4 buffers, 2 messages per tick, 2 outstanding; `MessageQueue` with 2 bins, 2 words, 2 values, 5 pushes: indices wrap, the queue gets full and empty | bytes intact on the wire (rank sender) and in the outbox, buffers dirty while sent by a rank, counters right, every message posted; delivery in order, no two threads in one slot, the window of slots is the backlog, refinement of `BoundedFIFO`, everything delivered |
| `mini_ranks` | 1 rank of 2 mini-ranks, 2 bins, 2 messages, all configured | nothing left in a queue at the end, nothing destroyed under a running thread, the process ends |
| `mini_ranks_boot` | 2 ranks of 2, the last mini-rank still to be configured | no loss, no duplication, the right mini-rank |
| `scheduling` | 4 tasks, 3 places, 2 groups, threshold of 2 workers; 4 ranks, 3 modes | own reply, no lost sleeper, replies fit, no destroyed worker is run, all tasks complete; lockstep, exact barrier counter, everyone stops |
| `routing` | 17 jobs, every type of graph with 3 to 25 ranks, plain and actor messages, with and without a stop and checksums | every hop is a link, messages are restored as sent, no relay leaves too early, routes are built, everything arrives |
| `components` | see `MCComponents.cfg` | pulled values intact and pulls end; actors accounted for; symbols resolve to their owners; the hash table is a map, resizing ends in time and memory is accounted for; the tree is a set; blocks are disjoint; buffered words arrive in order; of the messages handed over between two threads the newest keep their bytes, however full the queues |

Runs that TLC must find violated (section 4 says what each shows):

| Run | Instance | Property |
|---|---|---|
| `send_path_freed_request` | the sender of a mini-rank, 4 buffers | DirtyWhileSent |
| `mini_ranks_unbuilt` | 1 rank of 2, none configured | ConstructedBeforeUse |
| `mini_ranks_retries` | 1 rank of 2, 2 bins, 6 messages, all from the master to itself | RetriesEnd |
| `hand_off_backlog` | 3 buffers, 3 places | HandedOverIntact |
| `hash_table_full` | 2 buckets, load factor of 70 percent | FindsOnlyTheKey |
| `actor_tags` | 2 ranks, 1 actor | TagsHaveAPlace |

Type invariants are stated in the modules of the first table rows and proved
(section 5); the runs spend their time on the other properties.

Bounds.  The `Max...` constants cap what the application creates; every other
size is a size of the code made small.  Sizes are chosen so that every limit
is reached: rings turn, queues fill, groups reach their threshold, the sweep is
skipped and taken.  `Msg` is a set of identities that are reused, so that behaviours
of `SendPath` and `BufferHandOff` are unbounded.  `mini_ranks_boot` uses the
constraint `Running`: it explores the behaviours before the stop (which `mini_ranks`
covers) and up to the first use of an unconstructed object (after which anything may happen).
`mini_ranks_retries` uses the constraint `MasterAlone`, which leaves the behaviours in which only the
master sends, to itself, and does not stop: enough for a counterexample, and a behaviour of the whole
model.  With 4 buffers the sweep of `SendPath` is due from one dirty buffer on, so it is skipped only
when nothing is dirty; with 8, where a skipped sweep leaves completed buffers dirty, there are
millions of states, and that case is left to the theorems, which hold for every `m_chunks`.
In `routing`, small graphs run to the stop, larger ones carry the messages whose routes are
longest or turn in both directions, and one torus has a radix of 5 so that up and down differ.  In
`components`, a value takes two messages and the last part is shorter; the hash table grows
from 4 to 8 and 16 buckets, two pairs of keys collide on every size, and the allocator's groups are
so small that arrays move; five keys give every shape of splaying step; freed
blocks are above and below the size of an element; a message holds two items and a spare word; the
queues to and from a mini-rank have 3 places for a ring of 3 buffers and fill up, so that buffers are
overwritten.

Sizing results.  The code sizes its rings by `m_maximumAllocatedOutboxBuffers` and
notes that they "might need to be increased".  The models give exact conditions; nothing in
the code enforces them:

* one core per process (`SizingAssumption`): with k messages per tick and n sends under
  way, `n + k <= m_chunks` and `m_chunks/4 - 1 + 2k <= m_chunks`.  It is an assumption of the run and
  of the theorems, and tight: with one buffer less TLC finds WireIntact violated.  An allocation
  with every buffer dirty is therefore in no run;
* hand-over to and from a mini-rank (`SafeBacklog`): the bytes survive while at most `m_chunks`
  messages received, or `(m_chunks + 1) / 2` messages sent, are not yet copied.  The queue takes
  more, which is finding 4; NewestIntact says what remains true then;
* retries: a rank and a mini-rank can block each other once `2*Bins + 2` messages are under way
  between them, stop messages included (two full queues and one in the hand of each), which is
  finding 3.  A rank also blocks when more than `Bins` messages go to a mini-rank that has exited.
  `mini_ranks`, and with it StopEndsEveryProcess, has fewer messages than that: the process ends
  provided that no thread is stuck in a retry;
* relays (`routing`): RelaysOutliveMessages needs `Duration` (16 seconds in the code) to be
  longer than the time a message may spend before its last relay, `MaxLatency` for each hop;
* hash table: the table must have a free bucket when its threshold is reached, or finding 5
  applies.  In `components`, 4, 8 and 16 buckets at the least factor the constructor accepts (50 percent)
  always have one; at 100 percent, which it accepts too, no table has.

Fairness (`SendFairness`, `QueueFairness`, `ProcessorFairness`, `ModesFairness` and the `FairSpec` of
`MiniRanks`).  Weak fairness for every thread: they are loops that never block.  Weak
fairness for MPI completing a send and for other ranks replying.  Strong fairness for
receiving in `MiniRanks` and `VirtualProcessor`, because `MPI_Iprobe` may report nothing for a
while but not for ever: MPI guarantees progress to a process that keeps probing.
In `SwitchMan`, weak fairness of a slave mode means that the application's slave modes end.
In `MessageRouter`, weak fairness of the next step is enough, since its steps use up packets, work and
seconds: loops turn and the clock goes on.  In `KeyValueStore`, the application that has started a pull keeps calling
test(), as the interface asks, and messages are received.
Deadlock is checked in `message_path` and `scheduling`: a behaviour ends only where the disjunct
`PushesDone` (the bound on pushes is reached and all is received) or `Stopped` (all ranks have
stopped) lets it stutter.  It is off where the process ends (`mini_ranks`), a constraint or a job
ends the behaviour (`mini_ranks_boot`, `routing`) and where a bound on calls does (`components`).

## 4. Findings

Each is a run that TLC must find violated.

1. `send_path_freed_request` (DirtyWhileSent).  In `sendMessagesForMiniRank`,
   `registeredAlready` is set to true after registering, so the request that was just
   registered is freed as well.  It becomes `MPI_REQUEST_NULL`, the next sweep believes the
   send complete, and the buffer is clean while MPI reads it.
2. `mini_ranks_unbuilt` (ConstructedBeforeUse).  Queues and allocators are constructed by
   the mini-rank threads, but the rank thread polls and allocates from the moment it has
   started them.
3. `mini_ranks_retries` (RetriesEnd).  "Try to push the message. If it does not work, just try again.
   It should work eventually.", says `MessagesHandler.cpp:520`, and line 1259 says the same of
   the other direction.  Neither thread does anything else while it retries: a mini-rank retries on
   its full outbox, its inbox is full and the rank retries to push one more message into it, for ever.
4. `hand_off_backlog` (HandedOverIntact).  Producers copy a message to a buffer of their own "so that
   the code is thread-safe" (`MessagesHandler.cpp:1303`), but the ring has no more buffers than the
   queue has places and the buffer is filled before the push, so with a full queue the
   next message overwrites the oldest one that the consumer has not copied.  An outbox message takes
   two buffers, and the same happens at half the backlog.
5. `hash_table_full` (FindsOnlyTheKey).  A table is resized after the insertion that brings it to its
   load factor.  Two buckets at 70 percent, or any number at 100 percent, are full then, and until the
   move is over a search for an absent key ends on the last bucket of its path and
   returns the entry of another key.  "this will *fail* if another key is found" and the
   assertion that goes with it (`MyHashTableGroup.h:356, 366`) are of debugging builds.
6. `actor_tags` (TagsHaveAPlace).  `processMessages` hands an actor's message to the playground
   and then goes on to the table of message handlers with a tag of 10000 or more; the table
   has 256 places.  The assertion before the call (`ComputeCore.cpp:643`) is compiled only in debugging
   builds; the one on the size of the table (`MessageTagExecutor.cpp:69`) is in the registration of
   handlers, callHandler() has none.

Observations without a run of their own: the graph `experimental`, and a random graph that is not
connected, have pairs without a route, and a core walks routes at its start without end
(RoutesAreBuilt names these two as its only exceptions); the comment in `MyHashTable.h:355` argues that moving one
item per insertion is enough, but the loop moves buckets, and with one bucket per insertion
ResizingStaysAhead fails (the code moves two); a 32-bit SmartPointer has room for 64 lanes
of 1024 groups of 65536 handles, while the allocator has 512 lanes.

## 5. Proofs

Eight modules hold the theorems; each EXTENDS the modules it is about and TLAPS.  All theorems hold
for every value of the constants that meets the named assumptions of the component's module; where a
theorem needs more, the hypothesis is in its statement and given here.  In each case the property
itself is not inductive, and the invariant proved is the property with the facts that follow; the
larger invariants were checked by TLC before they were proved.

**`MessageQueueProofs`**: for any number of bins, words, values and pushes.

* `TypeCorrect`, `Delivery`, `SlotsDisjoint`, `WindowIsBacklog`: the invariants QueueTypeOK,
  DeliveredInOrder, NoSlotRace and WindowHoldsBacklog;
* `Refinement`: `MessageQueue` implements `BoundedFIFO` with `Bins` places.

Whether the next message received is right depends on the slot it is copied from.  `IInv` adds that
the slots between head and tail hold exactly the backlog, and what each thread knows in the middle
of a copy (InsideRing): the producer's slot is outside the window because the queue was not full
when it looked, and the consumer can only make more room; the consumer's slot is inside it and
complete.  The arithmetic of the wrapped indices is in lemmas about `increment`, `Stored` and
`Position`.

**`SendPathProofs`**: `TypeCorrect`, `CountersAlwaysAgree` (CountersAgree), `DirtyUntilSent`
(DirtyWhileSentByRank), `BytesOnTheWire` (WireIntact) and `BytesInTheOutbox` (OutboxIntact), for any
number of messages and any order of completion.  They rest on `SizingAssumption` (section 3), which
binds only where the sender of a rank without mini-ranks is among the modes. For that sender
`RankInv` adds: messages have names of their own (`NamesDiffer`); the request of a buffer MPI reads
is that of the send (`Tracked`); what is dirty and what this tick may still post fit the ring
(`Room`); a message not yet posted is in a clean buffer, alone once it is copied (`BuffersOK`); and
the ring does not come round to it too early (`RingTurnsLate`).  The last is the heart: `Ahead`
counts the free buffers that are handed out before a given one, and an allocation lowers it by at
most one; the bound on it is how many allocations a message still has to survive.

**`BufferHandOffProofs`**: `TypeCorrect`, `NewestAreSafe` (NewestIntact) and `HandOverSafe`: in every
state in which at most `SafeBacklog` messages are under way, all of them have their bytes
(HandedOverIntact).  The steps are those of the code, which lets the backlog grow further (finding 4).
`IInv` counts allocations: the age of a buffer is the number of buffers handed out since it was.  A
message not yet pushed has exactly the age its place in the tick gives it (`DraftsSafe`); one with n
newer ones in the queue has its bytes and is at most 2n + 1 old in the outbox (each took a draft and
a copy) and n + 1 in the inbox, provided that these bounds are within the ring (`PushedSafe`); and the
buffer handed out next is the one of age `m_chunks`.

**`MiniRanksProofs`**: `TypeCorrect`, `MessagesArrive` (ArrivesAtDestination) and
`MessagesAreConserved` (Conserved), without hypothesis; `NothingLeft` (NothingLeftBehind) and
`DestroyedAfterUse` (NoUseAfterDestroy), under `Configured = MiniRank`: every mini-rank is configured before its rank polls.  Without it finding 2
applies.  The invariant: what is on a link, in a rank's hand or in an inbox is addressed to where it
is going (`Routed`); a mini-rank that has sent its kill signal is returning or
has exited, and its outbox is empty (`SignalIsLast`); a pass
of the rank's loop counts a mini-rank at most once (`CountedOnce`), so a full count means all are
dead; and since a queue is polled after its flag is read, the queues of those counted are empty
(`CountedAreEmpty`).  Conserved is a sum of the cardinalities of five sets of places, one for each
kind of object a message can be in (`appPlaces`); a push adds a place to one of them, and a pop, which
moves every later message forward by one, takes one away by a bijection (`PlacesAppend`,
`PlacesTail`).  Its invariant `CountInv` adds that the sets are finite and that a rank has a message
in hand only while it pushes it.

**`SwitchManProofs`**: `TypeCorrect`, `BarrierLockstep` (Lockstep), `CountsEveryRankOnce`
(EveryRankCountedOnce) and `MasterWaits` (the master leaves a mode only when every rank is through
with it), for any number of ranks and any chain of modes.  The invariant says what may be in each
channel (`Channels`), that the channels are empty while no mode is open (`QuietWhenClosed`), and
that a rank is summoned, or works, or reports, or is through, never two of them (`OnePlace`): only
then does the counter of the master say something about the ranks.

**`VirtualProcessorProofs`**: `TypeCorrect`, `OwnAnswers` (OwnAnswer), `SleepersAreKnown`
(SleepersWillWake), `RepliesFit` (ReplyFits) and `NoDestroyedWorkerIsRun` (NoDestroyedWorkerRuns), for
any finite set of workers, any tags, destinations and sizes that meet `CommunicatorAssumption` and
`ProcessorAssumption`.  The communicator's part of the invariant: at most one real message is pending,
and no worker runs meanwhile (`OnePending`); what a group holds, or has under way, are the questions of
the workers listed in it, position by position, and fewer than fill a message (`GroupsMatch`); the
priority queue has exactly the groups that hold something, under their lengths (`QueueIsExact`); and a
worker is at one position of one group at most (`OnePlace`).  From these, cutting the reply into shares
gives each worker its own.  The processor's part: a worker in a group waits and does not run
(`QueuedWait`); what a worker has received is the answer it waits for (`Answered`); how the sets of
living, active, waiting, done and woken workers relate (`PoolOK`); those that sleep, and those that
will at the end of the pass, are in a group or about to be woken (`SleepersKnown`); and the iterator is
past every worker of this pass that waits or is done (`IteratorOK`), so that it cannot reach a
destroyed one.

**`MessageRouterProofs`**: `RelaysKeepMessages` (DeliveredAsSent), for any jobs that meet
`ScenarioAssumption` (sends are between ranks of the job, at most one from a rank to another, so
that a message is known by its content), every type of graph and any interleaving.  The
theorem has []EveryHopIsALink as a hypothesis: the assertion that ends `routeOutcomingMessages` and
stands in `relayMessage`, which the run `routing` checks on 17 jobs.  It is needed: the actor metadata of a plain
message are the ranks of its first hop, and only a rank of the job is no actor.  The invariant
`RouterInv` says that a packet carries a message of the job either under its own tag to its
destination, or under a routing tag with source and destination in its metadata (`PacketOf`); that
what has arrived is a message of the job (`ArrivedAs`); and that no message is in two of the sets to
send, under way and arrived (`OncePart`).  The lemmas follow the bytes: saving appends a record and
perhaps a checksum, loading takes off what was appended last (`Sent`, `Received`); and
`routeOutcomingMessages`, a recursive function over the outbox, sends one packet for each message
(`RouteExists`, `RoutedOutbox`).

**`ComponentsProofs`**: the components without a composition of their own, grouped as in
`MCComponents`.

* Plugins: `RegistryTypeCorrect`, `LookUpsResolve` (SymbolsResolve) and `OwnershipIsFinal` (the
  action property OwnersStay). The invariant adds that the tables of symbols and handles are inverse
  to each other, and that a handle with a symbol has an owner.
* Actors: `PlaygroundTypeCorrect`, `ActorsFound` (ActorsAccounted) and `NamesAreFinal` (PlacesStay).
  A name is a rank and a place, computed by a product and taken apart by a division and a remainder;
  the lemma `Division` shows that they are inverse.  The invariant adds that an actor's name is that
  of its place, that the counters are cardinalities of the sets of living actors, and that mail is
  carried to the rank its name says.
* Chunk allocator: `BlocksNeverOverlap` (BlocksDisjoint), for every chunk size and alignment.  The
  invariant adds that every block lies in what has been cut off so far, and that an address is kept
  for reuse at most once.
* Buffered data: `WordsArriveInOrder` (BufferedInOrder), for any ranks, periods and capacities.  The
  messages are concatenated by `FlattenSeq` of the community modules; its recursive function is shown
  to exist and to be the only one, and appending a message appends its words.
* Key-value store: `StoreTypeCorrect` and `PullsAreIntact` (PulledIntact), for any stores,
  keys and values and any capacity of a message.  A pull is a chain of requests and parts, and a part
  is written at its offset without a look at where the transfer is; what makes that right is in the
  messages under way. For each pair of a puller and a key that nobody meddled with during the transfer
  (not `Tainted`: the model marks a transfer whose value is removed, replaced or not ready at one of
  the ends, and PulledIntact makes no claim about it): at most one message of the transfer exists (`OneUnderWay`),
  its offset is what the puller has so far and its bytes are the owner's (`MessageOK`), and what the
  puller has is a prefix of the owner's value (`ItemOK`).

The induction theorems of the library take an operator, which the provers cannot instantiate. Where
a proof needs an induction over numbers, it takes a least counterexample: the lemmas `LeastElement`
and `LeastNumber` obtain it for a set, from the well-foundedness of the finite subsets.

Only model-checked, and why:

* every liveness property: fairness and ENABLED are beyond the prover;
* `HashTable` and `SplayTree` (TableIsMap, ResizingStaysAhead, MemoryAccounted, TreeIsSet), which have
  RECURSIVE operators;
* of `MessageRouter`, EveryHopIsALink, RelaysOutliveMessages and RoutesAreBuilt: they depend on what
  the graphs compute (numbers as words with powers of a base, sums over digits, shortest paths).

## 6. Not modelled, and why

* Weak memory.  The queue's fields are plain integers; the models keep program order,
  as the comments of push() and pop() demand of compiler and machine.
* `CONFIG_USE_LOCKING`: not defined by the build.  `CONFIG_ASSERT` code is not
  executed, but several properties are its assertions.
* The path of a mini-rank that returns because of fatal errors, which sends no kill signal: it is
  before the main loop.  Its effect is that of the mutant `SendKillSignal_Forgotten`.
* A worker that pushes a message and is done in the same call of `work()`: application code, and
  against the API.
* What a pull returns when its key is removed or replaced during the transfer: the transitions are
  modelled, but PulledIntact and PullsEnd exempt such transfers (`Tainted`), since the code makes no
  promise about them.
* The readers with round-robin and persistent requests, which the build does not select, and
  `runVanilla`, which nothing calls.
* In a routed job, the metadata of mini-ranks.  The polytope's round-robin choice of hops
  (`__ROUND_ROBIN__`) is not compiled; its choice by load is modelled.
* Text: names, descriptions, symbols as strings, statistics, files of graphs.
* Profiling, file reading and the operating system: measurement, input and output without a
  protocol.  `StaticVector` and the stacks are the sequences of the other modules.

## 7. What is left

The plan of modules, runs and theorems is carried out.  What would extend it: EveryHopIsALink as a
theorem, which needs a library about numbers written in a base and makes the hypothesis of
`RelaysKeepMessages` superfluous; `HashTable` and `SplayTree` with recursive functions in place of
their RECURSIVE operators, so that they can be proved about; weak memory for the lock-free queue.
