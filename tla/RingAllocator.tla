---------------------------- MODULE RingAllocator ----------------------------
(***************************************************************************)
(* memory/RingAllocator.cpp: a circle of m_chunks buffers handed out in    *)
(* turn, some of them marked dirty because an MPI_Isend still reads them.  *)
(*                                                                         *)
(* An allocator is a record, so that a module may hold several of them     *)
(* (a ComputeCore has up to four).  Its field registered is the set of     *)
(* handles whose entry of m_dirtyBuffers is not NULL.  The byte size of    *)
(* the buffers and the statistics are left out.                            *)
(***************************************************************************)
EXTENDS Integers, FiniteSets

CONSTANT m_chunks    \* number of buffers, the argument of constructor()

ASSUME ChunksAssumption == m_chunks \in Nat \ {0}

Handle == 0 .. m_chunks - 1

Allocator == [dirty : SUBSET Handle,        \* m_bufferStates is DIRTY
              registered : SUBSET Handle,   \* m_dirtyBuffers entry in use
              m_current : Handle,
              m_availableBuffers : Int,
              m_numberOfDirtyBuffers : Int]

newAllocator ==
  [dirty |-> {}, registered |-> {}, m_current |-> 0,
   m_availableBuffers |-> m_chunks, m_numberOfDirtyBuffers |-> 0]

\* initializeDirtyBuffers(): the amortisation threshold of the sweeps.
m_minimumNumberOfDirtyBuffersForSweep == m_chunks \div 4

------------------------------------------------------------------------------
\* The handle k places after h on the circle.
After(h, k) == IF h + k < m_chunks THEN h + k ELSE h + k - m_chunks

\* The number of places from g forward to h.
Distance(g, h) == IF g <= h THEN h - g ELSE h - g + m_chunks

\* Mutant: the scans ignore the states of the buffers.
chosen_IgnoresDirty(a) == a.m_current

\* The two scans of allocate(): the first buffer from m_current on that is not
\* dirty.  If every buffer is dirty the second scan stops where the first one
\* started, and that dirty buffer is handed out (the test that would refuse it
\* is compiled only with CONFIG_ASSERT).
chosen(a) ==
  IF a.dirty = Handle
  THEN a.m_current
  ELSE CHOOSE h \in Handle \ a.dirty :
         \A g \in Handle \ a.dirty : Distance(a.m_current, h) <= Distance(a.m_current, g)

\* Mutant: m_current stays on the buffer that was handed out.
allocate_Stays(a) == [a EXCEPT !.m_current = chosen(a)]

\* Mutant: the ring turns one buffer too early.
allocate_SkipsLast(a) ==
  [a EXCEPT !.m_current = IF chosen(a) + 2 < m_chunks THEN chosen(a) + 1 ELSE 0]

\* The allocator once allocate() has returned chosen(a).
allocate(a) == [a EXCEPT !.m_current = After(chosen(a), 1)]

\* registerBuffer() and the markBufferAsDirty() it calls.
registerBuffer(a, h) ==
  [a EXCEPT !.registered = @ \cup {h},
            !.dirty = @ \cup {h},
            !.m_availableBuffers = @ - 1,
            !.m_numberOfDirtyBuffers = @ + 1]

\* Mutant: salvageBuffer() forgets m_availableBuffers.
salvage_NoCount(a, finished) ==
  [a EXCEPT !.registered = @ \ finished,
            !.dirty = @ \ finished,
            !.m_numberOfDirtyBuffers = @ - Cardinality(finished)]

\* checkDirtyBuffer() and the salvageBuffer() it calls, for every handle h that
\* is registered and for which MPI_Test says that the request has completed.
salvage(a, finished) ==
  [a EXCEPT !.registered = @ \ finished,
            !.dirty = @ \ finished,
            !.m_availableBuffers = @ + Cardinality(finished),
            !.m_numberOfDirtyBuffers = @ - Cardinality(finished)]

\* Mutant: the sweep does not wait for MPI_Test.
cleanDirtyBuffers_NoTest(a, completed) == salvage(a, a.registered)

\* cleanDirtyBuffers(): a sweep, unless there are still plenty of free cells.
\* With fewer than four buffers the threshold is 0; the sweep of an allocator
\* that has no dirty buffer then stops at once.
cleanDirtyBuffers(a, completed) ==
  IF a.m_numberOfDirtyBuffers < m_minimumNumberOfDirtyBuffersForSweep
  THEN a
  ELSE salvage(a, a.registered \cap completed)
==============================================================================
