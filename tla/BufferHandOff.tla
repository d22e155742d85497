---------------------------- MODULE BufferHandOff ----------------------------
(***************************************************************************)
(* The bytes of the messages that two threads exchange through a           *)
(* MessageQueue.  A queue entry points into a RingAllocator that only the  *)
(* producer uses; the consumer pops the entry first and copies the bytes   *)
(* to a buffer of its own afterwards, while the producer goes on           *)
(* allocating.  Nothing marks a buffer of these allocators dirty.          *)
(*                                                                         *)
(*   reallocates = FALSE: the inbox of a mini-rank.  The rank fills a      *)
(*     buffer of m_bufferedInboxAllocator in receiveMessagesForMiniRanks,  *)
(*     the mini-rank copies it in receiveMessagesForComputeCore.           *)
(*   reallocates = TRUE: its outbox.  The handlers of a tick fill buffers  *)
(*     of m_outboxAllocator, ComputeCore::sendMessages moves every message *)
(*     to a new buffer of the same ring and pushes it, and the rank copies *)
(*     it in sendMessagesForMiniRank.                                      *)
(***************************************************************************)
EXTENDS RingAllocator, Sequences

CONSTANTS
  Msg,           \* identities of the messages alive at one moment
  Null,          \* the bytes of a buffer nobody has written
  QueueBins,     \* bins of the queue; at least m_chunks in the code
  MaxDrafts      \* messages a mini-rank may prepare before it pushes them

\* The ring has "at least the number of allocated buffer in a RayPlatform virtual
\* machine tick".
ASSUME HandOffAssumption ==
  /\ Null \notin Msg
  /\ QueueBins \in Nat \ {0}
  /\ MaxDrafts \in 1 .. m_chunks

VARIABLES
  reallocates,   \* which of the two queues; never changes
  alloc,     \* the allocator of the producer
  content,   \* the message whose bytes a buffer holds
  drafts,    \* messages prepared and not yet pushed
  index,     \* the loop counter over drafts
  phase,     \* where the producer is
  queue,     \* the MessageQueue
  popped     \* the entry popped by the consumer, its bytes not yet copied

handOffVars == <<reallocates, alloc, content, drafts, index, phase, queue, popped>>

Entry == [msg : Msg, buf : Handle]

(***************************************************************************)
(* "If the ring is large enough and the communication is steady,           *)
(* probably": this is how large.  A message of the inbox takes one buffer  *)
(* of the ring, so m_chunks of them may be under way.  A message of the    *)
(* outbox takes two, of which the first is free once it has been copied.   *)
(* Nothing in the code keeps the backlog within this: the queue alone      *)
(* takes m_chunks messages.                                                *)
(***************************************************************************)
SafeBacklog == IF reallocates THEN (m_chunks + 1) \div 2 ELSE m_chunks

\* Messages point into the ring of the producer, the queue holds at most QueueBins of
\* them and the consumer one.
HandOffTypeOK ==
  /\ reallocates \in BOOLEAN
  /\ alloc \in Allocator
  /\ content \in [Handle -> Msg \cup {Null}]
  /\ drafts \in Seq(Entry)
  /\ index \in 1 .. MaxDrafts
  /\ phase \in {"prepare", "copy", "push"}
  /\ queue \in Seq(Entry)
  /\ Len(queue) <= QueueBins
  /\ popped \in Seq(Entry)
  /\ Len(popped) <= 1

HandOffInit ==
  /\ reallocates \in BOOLEAN
  /\ alloc = newAllocator
  /\ content = [h \in Handle |-> Null]
  /\ drafts = << >>
  /\ index = 1
  /\ phase = "prepare"
  /\ queue = << >>
  /\ popped = << >>

\* The messages whose bytes the consumer has still to copy, the oldest first.
Pending == popped \o queue \o drafts

------------------------------------------------------------------------------
\* An identity that no message under way has; it does not matter which.
Fresh == { m \in Msg : \A k \in DOMAIN Pending : Pending[k].msg # m }
fresh == CHOOSE m \in Fresh : TRUE

\* The producer allocates a buffer and fills it: the memcpy of
\* receiveMessagesForMiniRanks, or a handler of the application.
Prepare ==
  /\ phase = "prepare"
  /\ Len(drafts) < (IF reallocates THEN MaxDrafts ELSE 1)
  /\ Fresh # {}
  /\ alloc' = allocate(alloc)
  /\ content' = [content EXCEPT ![chosen(alloc)] = fresh]
  /\ drafts' = Append(drafts, [msg |-> fresh, buf |-> chosen(alloc)])
  /\ UNCHANGED <<reallocates, index, phase, queue, popped>>

\* The messages are ready: ComputeCore::sendMessages starts with the copies, a
\* rank that has received a message pushes it at once.
Prepared ==
  /\ phase = "prepare"
  /\ drafts # << >>
  /\ phase' = IF reallocates THEN "copy" ELSE "push"
  /\ UNCHANGED <<reallocates, alloc, content, drafts, index, queue, popped>>

\* forceMemoryReallocation in ComputeCore::sendMessages.
CopyToNewBuffer ==
  LET new == chosen(alloc)
      last == index = Len(drafts)
  IN  /\ phase = "copy"
      /\ alloc' = allocate(alloc)
      /\ content' = [content EXCEPT ![new] = content[drafts[index].buf]]
      /\ drafts' = [drafts EXCEPT ![index].buf = new]
      /\ index' = IF last THEN 1 ELSE index + 1
      /\ phase' = IF last THEN "push" ELSE "copy"
      /\ UNCHANGED <<reallocates, queue, popped>>

\* push() succeeds; while the queue is full the producer retries.
Push ==
  /\ phase = "push"
  /\ Len(queue) < QueueBins
  /\ queue' = Append(queue, Head(drafts))
  /\ drafts' = Tail(drafts)
  /\ phase' = IF Len(drafts) = 1 THEN "prepare" ELSE "push"
  /\ UNCHANGED <<reallocates, alloc, content, index, popped>>

Producer == Prepare \/ Prepared \/ CopyToNewBuffer \/ Push

\* pop(): the place in the queue is free, the buffer is still needed.
PopEntry ==
  /\ popped = << >>
  /\ queue # << >>
  /\ popped' = <<Head(queue)>>
  /\ queue' = Tail(queue)
  /\ UNCHANGED <<reallocates, alloc, content, drafts, index, phase>>

\* memcpy to a buffer of the consumer.
CopyOut ==
  /\ popped # << >>
  /\ popped' = << >>
  /\ UNCHANGED <<reallocates, alloc, content, drafts, index, phase, queue>>

HandOffNext == Producer \/ PopEntry \/ CopyOut

HandOffSpec == HandOffInit /\ [][HandOffNext]_handOffVars

------------------------------------------------------------------------------
intact(e) == content[e.buf] = e.msg

\* "Update the buffer so that the code is thread-safe": until the consumer has
\* copied a message, its buffer holds the bytes the producer wrote.  It does not
\* when the consumer falls behind by more than SafeBacklog.
HandedOverIntact == \A k \in DOMAIN Pending : intact(Pending[k])

\* What the code does guarantee, however far behind the consumer is: a message
\* with fewer than SafeBacklog newer ones under way still has its bytes.  A
\* buffer of the ring is handed out again only after all the others, also while
\* the messages of a tick are copied within the ring.
NewestIntact ==
  \A k \in DOMAIN Pending : Len(Pending) - k < SafeBacklog => intact(Pending[k])
==============================================================================
