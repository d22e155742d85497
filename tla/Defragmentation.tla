---------------------------- MODULE Defragmentation ----------------------------
(***************************************************************************)
(* ChunkAllocatorWithDefragmentation: arrays of elements are carved out of *)
(* large groups and named by handles (SmartPointer), so that a group can   *)
(* slide its arrays together without its clients knowing.  An allocator    *)
(* has lanes, a lane has groups, a group has elements:                     *)
(*   group      DefragmentationGroup                                       *)
(*   lane       DefragmentationLane                                        *)
(*   allocator  ChunkAllocatorWithDefragmentation                          *)
(* Each is a record and each method an operator on it.                     *)
(***************************************************************************)
EXTENDS Integers, FiniteSetsExt, SequencesExt

CONSTANTS
  ELEMENTS_PER_GROUP,              \* 65536
  GROUPS_PER_LANE,                 \* 1024
  FAST_POINTERS,                   \* 256, handles kept at hand by a group
  NUMBER_OF_FAST_GROUPS,           \* 128, groups kept at hand by a lane
  LargestRequest,                  \* 64, the target of getFastGroup
  thresholdForFragmentedWarZone,   \* 2048
  thresholdForFreeSlice,           \* 128
  SmartPointers,                   \* 2^32, the values of a SmartPointer
  Unwritten                          \* an element nobody has written yet

ASSUME DefragmentationAssumption ==
  /\ {ELEMENTS_PER_GROUP, GROUPS_PER_LANE, FAST_POINTERS, NUMBER_OF_FAST_GROUPS,
      LargestRequest} \subseteq Nat \ {0}
  /\ thresholdForFragmentedWarZone \in Nat /\ thresholdForFreeSlice \in Nat
  /\ LargestRequest <= ELEMENTS_PER_GROUP /\ FAST_POINTERS <= ELEMENTS_PER_GROUP

Cell == 0 .. ELEMENTS_PER_GROUP - 1
SmartPointer_NULL == SmartPointers - 1
INVALID_GROUP == -1

------------------------------------------------------------------------------
(***************************************************************************)
(* DefragmentationGroup.  The arrays lie left of m_freeSliceStart, perhaps *)
(* with gaps; everything to the right is free.                             *)
(***************************************************************************)
newGroup ==
  [m_allocatedSizes   |-> [h \in Cell |-> 0],
   m_allocatedOffsets |-> [h \in Cell |-> 0],
   m_block            |-> [c \in Cell |-> Unwritten],
   m_fastPointers     |-> [i \in 1 .. FAST_POINTERS |-> i - 1],
   m_freeSliceStart   |-> 0,
   m_availableElements |-> ELEMENTS_PER_GROUP]

Live(g) == { h \in Cell : g.m_allocatedSizes[h] # 0 }
getContiguousElements(g) == ELEMENTS_PER_GROUP - g.m_freeSliceStart
getFragmentedElements(g) == g.m_availableElements - getContiguousElements(g)
groupCanAllocate(g, n) == getContiguousElements(g) >= n

\* A handle that is not in use: one of the fast ones, or, when all of these are
\* taken, the last of those that fill m_fastPointers again.
getAvailableSmallSmartPointer(g) ==
  LET Free(i) == g.m_allocatedSizes[g.m_fastPointers[i]] = 0
      fast == { i \in DOMAIN g.m_fastPointers : Free(i) }
      free == SetToSortSeq(Cell \ Live(g), <)
      k == Min({FAST_POINTERS, Len(free)})
  IN  IF fast # {}
      THEN [handle |-> g.m_fastPointers[Min(fast)], m_fastPointers |-> g.m_fastPointers]
      ELSE [handle |-> free[k],
            m_fastPointers |-> [i \in DOMAIN g.m_fastPointers |->
                                  IF i <= k THEN free[i] ELSE g.m_fastPointers[i]]]

\* defragment: each array moves left to the end of the arrays before it, its
\* handle learns the new offset, and the free slice starts after the last one.
\* The early returns (nothing available, no gap) leave the group as it is, and
\* so does this.
defragment(g) ==
  LET Before(h) == { o \in Live(g) : g.m_allocatedOffsets[o] < g.m_allocatedOffsets[h] }
      Target(h) == MapThenSumSet(LAMBDA o : g.m_allocatedSizes[o], Before(h))
      Lands(c) == { h \in Live(g) : c \in Target(h) .. Target(h) + g.m_allocatedSizes[h] - 1 }
      Moved(c, h) == g.m_block[g.m_allocatedOffsets[h] + (c - Target(h))]
  IN  [g EXCEPT
         !.m_allocatedOffsets = [h \in Cell |-> IF h \in Live(g) THEN Target(h) ELSE @[h]],
         !.m_block = [c \in Cell |-> IF Lands(c) = {} THEN @[c]
                                     ELSE Moved(c, CHOOSE h \in Lands(c) : TRUE)],
         !.m_freeSliceStart = MapThenSumSet(LAMBDA o : g.m_allocatedSizes[o], Live(g))]

triggerDefragmentationRoutine(g) ==
  IF /\ getFragmentedElements(g) >= thresholdForFragmentedWarZone
     /\ getContiguousElements(g) <= thresholdForFreeSlice
  THEN defragment(g)
  ELSE g

\* Requires groupCanAllocate(g, n).
groupAllocate(g, n) ==
  LET available == getAvailableSmallSmartPointer(g)
      h == available.handle
  IN  [handle |-> h,
       group |-> triggerDefragmentationRoutine(
                   [g EXCEPT !.m_fastPointers = available.m_fastPointers,
                             !.m_allocatedOffsets[h] = g.m_freeSliceStart,
                             !.m_allocatedSizes[h] = n,
                             !.m_freeSliceStart = @ + n,
                             !.m_availableElements = @ - n])]

\* Mutant: the frontier moves back whatever array is released.
groupDeallocate_Frontier(g, h) ==
  triggerDefragmentationRoutine(
    [g EXCEPT !.m_allocatedSizes[h] = 0,
              !.m_freeSliceStart = @ - g.m_allocatedSizes[h],
              !.m_availableElements = @ + g.m_allocatedSizes[h]])

groupDeallocate(g, h) ==
  LET size == g.m_allocatedSizes[h]
      offset == g.m_allocatedOffsets[h]
  IN  triggerDefragmentationRoutine(
        [g EXCEPT !.m_allocatedSizes[h] = 0,
                  !.m_freeSliceStart = IF offset + size = @ THEN offset ELSE @,
                  !.m_availableElements = @ + size])

------------------------------------------------------------------------------
(***************************************************************************)
(* DefragmentationLane: groups are numbered from 0 and activated in order. *)
(***************************************************************************)
newLane == [m_groups |-> << >>, m_fastGroup |-> INVALID_GROUP, m_fastGroups |-> << >>]

groupOf(lane, i) == lane.m_groups[i + 1]

\* The first groups with room for the largest request.
roomyGroups(lane) ==
  LET roomy == { i \in 0 .. Len(lane.m_groups) - 1 : groupCanAllocate(groupOf(lane, i), LargestRequest) }
  IN  SetToSortSeq({ i \in roomy : Cardinality({ j \in roomy : j < i }) < NUMBER_OF_FAST_GROUPS }, <)

\* The end of getFastGroup: the list of fast groups is made again, with a new
\* group when no group has room and the lane is not full.
listedAgain(lane, fast) ==
  IF fast # << >>
  THEN [lane EXCEPT !.m_fastGroups = fast, !.m_fastGroup = fast[1]]
  ELSE IF Len(lane.m_groups) = GROUPS_PER_LANE
  THEN [lane EXCEPT !.m_fastGroups = << >>, !.m_fastGroup = INVALID_GROUP]
  ELSE [m_groups |-> Append(lane.m_groups, newGroup),
        m_fastGroups |-> <<Len(lane.m_groups)>>,
        m_fastGroup |-> Len(lane.m_groups)]

\* canAllocate with getFastGroup: the lane after it has looked for a group with
\* room for n elements.  m_fastGroup is INVALID_GROUP when there is none.
laneReady(lane, n) ==
  LET Can(i) == groupCanAllocate(groupOf(lane, i), n)
      listed == { i \in DOMAIN lane.m_fastGroups : Can(lane.m_fastGroups[i]) }
  IN  IF lane.m_fastGroup # INVALID_GROUP /\ Can(lane.m_fastGroup)
      THEN lane
      ELSE IF listed # {}
      THEN [lane EXCEPT !.m_fastGroup = lane.m_fastGroups[Min(listed)]]
      ELSE listedAgain(lane, roomyGroups(lane))

------------------------------------------------------------------------------
(***************************************************************************)
(* ChunkAllocatorWithDefragmentation.  Lanes are numbered from 0; the      *)
(* allocator has no bound on their number other than NUMBER_OF_LANES,      *)
(* which nothing tests.                                                    *)
(***************************************************************************)
NoLane == -1
newChunkAllocator == [lanes |-> << >>, m_fastLane |-> NoLane]

\* The test of allocate() and updateFastLane: the fast lane, the first lane with
\* room, or a new one.  Every lane that is asked keeps what it found out.
updateFastLane(a, n, asked) ==
  LET ready == { i \in DOMAIN a.lanes : asked[i].m_fastGroup # INVALID_GROUP }
      fast == a.m_fastLane + 1
  IN  IF a.m_fastLane # NoLane /\ fast \in ready
      THEN [a EXCEPT !.lanes[fast] = asked[fast]]
      ELSE IF ready # {}
           THEN [lanes |-> [i \in DOMAIN a.lanes |->
                              IF i <= Min(ready) \/ i = fast THEN asked[i] ELSE a.lanes[i]],
                 m_fastLane |-> Min(ready) - 1]
           ELSE [lanes |-> Append(asked, laneReady(newLane, n)),
                 m_fastLane |-> Len(a.lanes)]

withFastLane(a, n) ==
  updateFastLane(a, n, [i \in DOMAIN a.lanes |-> laneReady(a.lanes[i], n)])

\* The end of allocate, in the fast lane and the fast group of it: the allocator
\* and the SmartPointer that names the n elements.
smartPointerIn(a, lane, result) ==
  [pointer |-> ((a.m_fastLane * GROUPS_PER_LANE + lane.m_fastGroup) * ELEMENTS_PER_GROUP
                  + result.handle) % SmartPointers,
   allocator |-> [a EXCEPT !.lanes[a.m_fastLane + 1].m_groups[lane.m_fastGroup + 1] = result.group]]

allocateInFastLane(a, n) ==
  LET lane == a.lanes[a.m_fastLane + 1]
  IN  smartPointerIn(a, lane, groupAllocate(groupOf(lane, lane.m_fastGroup), n))

chunkAllocate(a, n) == allocateInFastLane(withFastLane(a, n), n)

\* Where a SmartPointer points: deallocate and getPointer take it apart.
laneIndex(p) == (p \div ELEMENTS_PER_GROUP) \div GROUPS_PER_LANE + 1
groupIndex(p) == ((p \div ELEMENTS_PER_GROUP) % GROUPS_PER_LANE) + 1
smallSmartPointer(p) == p % ELEMENTS_PER_GROUP

chunkDeallocate(a, p) ==
  IF p = SmartPointer_NULL
  THEN a
  ELSE [a EXCEPT !.lanes[laneIndex(p)].m_groups[groupIndex(p)] =
                   groupDeallocate(@, smallSmartPointer(p))]

\* getPointer: an address, good until the next allocation or release.
getPointer(a, p) ==
  [lane |-> laneIndex(p), group |-> groupIndex(p),
   cell |-> a.lanes[laneIndex(p)].m_groups[groupIndex(p)].m_allocatedOffsets[smallSmartPointer(p)]]

\* Reading and writing element i of the array at an address.
loadAt(a, at, i) == a.lanes[at.lane].m_groups[at.group].m_block[at.cell + i]
storeAt(a, at, i, element) ==
  [a EXCEPT !.lanes[at.lane].m_groups[at.group].m_block[at.cell + i] = element]
==============================================================================
