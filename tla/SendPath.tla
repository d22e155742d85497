------------------------------- MODULE SendPath -------------------------------
(***************************************************************************)
(* From the outbox of a ComputeCore to MPI_Isend, and back to a clean      *)
(* buffer: ComputeCore::sendMessages, MessagesHandler::sendMessages and,   *)
(* for mini-ranks, MessagesHandler::sendMessagesForMiniRank, on top of the *)
(* RingAllocator.                                                          *)
(*                                                                         *)
(* MPI owns a buffer from MPI_Isend until the send completes, and may read *)
(* it at any moment in between; when it completes is up to MPI.            *)
(***************************************************************************)
EXTENDS RingAllocator, Sequences

CONSTANTS
  Msg,                      \* identities of the messages alive at one moment
  Null,                     \* no buffer, no request
  Modes,                    \* the values of m_miniRanksAreEnabled
  MaxPerTick,               \* bound: messages in the outbox at one moment
  MaxOutstanding            \* bound: messages created and not yet sent by MPI

ASSUME NullAssumption == Null \notin Msg /\ Null \notin Handle
ASSUME ModeAssumption == Modes \subseteq BOOLEAN
ASSUME BoundsAssumption == MaxPerTick \in Nat \ {0} /\ MaxOutstanding \in Nat

(***************************************************************************)
(* The comment of sendMessages asks that the ring be "at least the number  *)
(* of allocated buffer in a RayPlatform virtual machine tick" and says     *)
(* that it "might need to be increased".  This is how large it has to be.  *)
(* A tick of k messages allocates up to 2k buffers, k for the handlers and *)
(* k for the copies.  A copy may reuse the buffer of a message that was    *)
(* copied before it, so k buffers that are not dirty are enough; the dirty *)
(* ones are those of the sends under way when the last sweep ended, or     *)
(* those a skipped sweep left behind, and those of the last tick.          *)
(***************************************************************************)
ASSUME SizingAssumption ==
  FALSE \in Modes =>
    /\ MaxOutstanding + MaxPerTick <= m_chunks
    /\ m_minimumNumberOfDirtyBuffersForSweep - 1 + 2 * MaxPerTick <= m_chunks

VARIABLES
  m_miniRanksAreEnabled,    \* which of the two senders is at work
  alloc,       \* the outbox allocator (the buffered one with mini-ranks)
  content,     \* the message whose bytes a buffer holds
  outbox,      \* m_outbox (m_bufferedOutbox with mini-ranks)
  request,     \* the send tracked by the entry of m_dirtyBuffers
  flight,      \* sends posted with MPI_Isend that MPI has not completed
  phase,       \* where the sending thread is
  index        \* the loop counter over the outbox

vars == <<m_miniRanksAreEnabled, alloc, content, outbox, request, flight, phase, index>>

Entry == [msg : Msg, buf : Handle \cup {Null}]

\* The allocator hands out buffers of its ring only, and the sender refers to
\* nothing but those buffers and the messages alive.
TypeOK ==
  /\ m_miniRanksAreEnabled \in Modes
  /\ alloc \in Allocator
  /\ content \in [Handle -> Msg \cup {Null}]
  /\ outbox \in Seq(Entry)
  /\ request \in [Handle -> Msg \cup {Null}]
  /\ flight \subseteq Entry
  /\ phase \in {"work", "copy", "sweep", "isend"}
  /\ index \in Nat

Init ==
  /\ m_miniRanksAreEnabled \in Modes
  /\ alloc = newAllocator
  /\ content = [h \in Handle |-> Null]
  /\ outbox = << >>
  /\ request = [h \in Handle |-> Null]
  /\ flight = {}
  /\ phase = "work"
  /\ index = 1

------------------------------------------------------------------------------
\* A process runs in one mode.
InMode(enabled) == m_miniRanksAreEnabled = enabled /\ UNCHANGED m_miniRanksAreEnabled

InFlight == { f.msg : f \in flight }
Queued == { outbox[i].msg : i \in DOMAIN outbox }

\* A message that no part of the state names.
Fresh(m) == m \notin InFlight \cup Queued \cup { request[h] : h \in Handle }

MayCreate(m) ==
  /\ Len(outbox) < MaxPerTick
  /\ Len(outbox) + Cardinality(flight) < MaxOutstanding
  /\ Fresh(m) /\ m = CHOOSE n \in Msg : Fresh(n)   \* which name it gets does not matter

\* MPI_Test on the request of a handle: true when the send has completed, and
\* at once for MPI_REQUEST_NULL.
MPI_Test(h) == request[h] \notin InFlight

Completed == { h \in Handle : MPI_Test(h) }

\* cleanDirtyBuffers() as both senders call it, before any MPI_Isend.
Clean ==
  /\ alloc' = cleanDirtyBuffers(alloc, Completed)
  /\ request' = [h \in Handle |-> IF h \in alloc'.registered THEN request[h] ELSE Null]

------------------------------------------------------------------------------
(***************************************************************************)
(* One MPI process per ComputeCore.                                        *)
(***************************************************************************)

\* A handler allocates a buffer, fills it and pushes a message on the outbox.
CreateWithBuffer(m) ==
  /\ InMode(FALSE)
  /\ phase = "work"
  /\ MayCreate(m)
  /\ alloc' = allocate(alloc)
  /\ content' = [content EXCEPT ![chosen(alloc)] = m]
  /\ outbox' = Append(outbox, [msg |-> m, buf |-> chosen(alloc)])
  /\ UNCHANGED <<request, flight, phase, index>>

\* A handler pushes a message without a buffer (a control message).
CreateEmpty(m) ==
  /\ InMode(FALSE)
  /\ phase = "work"
  /\ MayCreate(m)
  /\ outbox' = Append(outbox, [msg |-> m, buf |-> Null])
  /\ UNCHANGED <<alloc, content, request, flight, phase, index>>

\* ComputeCore::sendMessages with a non-empty outbox.
SendBegin ==
  /\ InMode(FALSE)
  /\ phase = "work"
  /\ outbox # << >>
  /\ phase' = "copy"
  /\ index' = 1
  /\ UNCHANGED <<alloc, content, outbox, request, flight>>

\* forceMemoryReallocation: every message moves to a new buffer, where its
\* metadata is saved; an empty message has no old bytes to copy.
CopyToNewBuffer ==
  LET new == chosen(alloc)
      old == outbox[index].buf
  IN  /\ InMode(FALSE)
      /\ phase = "copy"
      /\ alloc' = allocate(alloc)
      /\ content' = [content EXCEPT ![new] = IF old = Null THEN outbox[index].msg ELSE content[old]]
      /\ outbox' = [outbox EXCEPT ![index].buf = new]
      /\ IF index = Len(outbox)
         THEN phase' = "sweep" /\ index' = 1
         ELSE phase' = "copy" /\ index' = index + 1
      /\ UNCHANGED <<request, flight>>

\* MessagesHandler::sendMessages up to its loop.
Sweep ==
  /\ InMode(FALSE)
  /\ phase = "sweep"
  /\ Clean
  /\ phase' = "isend"
  /\ UNCHANGED <<content, outbox, flight, index>>

\* Mutant: the loop ends one message early.
Isend_DropsLast ==
  LET message == outbox[index]
      mustRegister == message.buf \notin alloc.registered
  IN  /\ InMode(FALSE)
      /\ phase = "isend"
      /\ alloc' = IF mustRegister THEN registerBuffer(alloc, message.buf) ELSE alloc
      /\ request' = IF mustRegister THEN [request EXCEPT ![message.buf] = message.msg] ELSE request
      /\ flight' = flight \cup {message}
      /\ IF index + 1 >= Len(outbox)
         THEN phase' = "work" /\ index' = 1 /\ outbox' = << >>
         ELSE phase' = "isend" /\ index' = index + 1 /\ UNCHANGED outbox
      /\ UNCHANGED content

\* One round of the loop of MessagesHandler::sendMessages; the last one is
\* followed by outbox->clear().  A buffer that is registered already is sent
\* with a request that is freed at once, so that nothing tracks this send.
Isend ==
  LET message == outbox[index]
      mustRegister == message.buf \notin alloc.registered
  IN  /\ InMode(FALSE)
      /\ phase = "isend"
      /\ alloc' = IF mustRegister THEN registerBuffer(alloc, message.buf) ELSE alloc
      /\ request' = IF mustRegister THEN [request EXCEPT ![message.buf] = message.msg] ELSE request
      /\ flight' = flight \cup {message}
      /\ IF index = Len(outbox)
         THEN phase' = "work" /\ index' = 1 /\ outbox' = << >>
         ELSE phase' = "isend" /\ index' = index + 1 /\ UNCHANGED outbox
      /\ UNCHANGED content

------------------------------------------------------------------------------
(***************************************************************************)
(* Mini-ranks: the thread of a mini-rank fills the queue, the thread of    *)
(* the rank empties it.                                                    *)
(***************************************************************************)

\* The mini-rank pushes a message, in a buffer of its own, on m_bufferedOutbox.
MiniRankPush(m) ==
  /\ InMode(TRUE)
  /\ MayCreate(m)
  /\ outbox' = Append(outbox, [msg |-> m, buf |-> Null])
  /\ UNCHANGED <<alloc, content, request, flight, phase, index>>

\* The rank finds content in the queue: sendMessagesForMiniRank up to its loop.
SweepForMiniRank ==
  /\ InMode(TRUE)
  /\ phase = "work"
  /\ outbox # << >>
  /\ Clean
  /\ phase' = "isend"
  /\ UNCHANGED <<content, outbox, flight, index>>

\* One round of the loop of sendMessagesForMiniRank: pop, allocate, copy,
\* register, MPI_Isend.  registeredAlready is true on both paths when the
\* request is tested for release, so the registered request is freed as well
\* and becomes MPI_REQUEST_NULL.
IsendForMiniRank ==
  LET message == Head(outbox)
      copied == chosen(alloc)
      mustRegister == copied \notin alloc.registered
  IN  /\ InMode(TRUE)
      /\ phase = "isend"
      /\ outbox # << >>
      /\ outbox' = Tail(outbox)
      /\ content' = [content EXCEPT ![copied] = message.msg]
      /\ alloc' = IF mustRegister THEN registerBuffer(allocate(alloc), copied) ELSE allocate(alloc)
      /\ request' = [request EXCEPT ![copied] = IF mustRegister THEN Null ELSE @]
      /\ flight' = flight \cup {[msg |-> message.msg, buf |-> copied]}
      /\ UNCHANGED <<phase, index>>

\* The loop of sendMessagesForMiniRank finds the queue empty.
ReturnForMiniRank ==
  /\ InMode(TRUE)
  /\ phase = "isend"
  /\ outbox = << >>
  /\ phase' = "work"
  /\ UNCHANGED <<alloc, content, outbox, request, flight, index>>

------------------------------------------------------------------------------
\* MPI completes a send.
MPI_Complete(f) ==
  /\ flight' = flight \ {f}
  /\ UNCHANGED <<m_miniRanksAreEnabled, alloc, content, outbox, request, phase, index>>

Sender == SendBegin \/ CopyToNewBuffer \/ Sweep \/ Isend
            \/ SweepForMiniRank \/ IsendForMiniRank \/ ReturnForMiniRank

Next ==
  \/ \E m \in Msg : CreateWithBuffer(m) \/ CreateEmpty(m) \/ MiniRankPush(m)
  \/ SendBegin \/ CopyToNewBuffer \/ Sweep \/ Isend
  \/ SweepForMiniRank \/ IsendForMiniRank \/ ReturnForMiniRank
  \/ \E f \in flight : MPI_Complete(f)

Spec == Init /\ [][Next]_vars

\* The main loop sends what its tick created, and MPI makes progress on each of
\* the posted sends.
SendFairness ==
  /\ WF_vars(Sender)
  /\ \A m \in Msg : WF_vars(\E f \in flight : f.msg = m /\ MPI_Complete(f))

------------------------------------------------------------------------------
\* Without mini-ranks: until MPI completes a send, its buffer holds the bytes it
\* was posted with; no later allocation, copy or handler overwrites it.
WireIntact == ~ m_miniRanksAreEnabled => \A f \in flight : content[f.buf] = f.msg

\* A message waiting in the outbox still has the bytes its handler wrote, also
\* when the ring turned since.
OutboxIntact ==
  \A i \in DOMAIN outbox : outbox[i].buf # Null => content[outbox[i].buf] = outbox[i].msg

\* "these slots become dirty when they are used and become clean again when
\* MPI_Test says so": a buffer MPI still reads is dirty.
DirtyWhileSent == \A f \in flight : f.buf \in alloc.dirty

\* MessagesHandler::sendMessages keeps to it whatever order MPI completes the
\* sends in; sendMessagesForMiniRank does not.
DirtyWhileSentByRank == ~ m_miniRanksAreEnabled => DirtyWhileSent

\* The counters that decide when to sweep agree with the states of the buffers,
\* and the assertions of markBufferAsDirty and checkDirtyBuffer cannot fail.
CountersAgree ==
  /\ alloc.registered = alloc.dirty
  /\ alloc.m_numberOfDirtyBuffers = Cardinality(alloc.registered)
  /\ alloc.m_availableBuffers = m_chunks - Cardinality(alloc.dirty)

\* The messages of the outbox that MPI has not been given yet.
Waiting == { outbox[i].msg : i \in { j \in DOMAIN outbox : phase = "isend" => j >= index } }

\* Every message of the outbox is posted: the loops over the outbox skip none
\* and the clear() that follows drops none.
EveryMessageLeaves ==
  \A m \in Msg : (m \in Waiting) ~> (m \in InFlight)
==============================================================================
