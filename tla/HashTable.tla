------------------------------- MODULE HashTable -------------------------------
(***************************************************************************)
(* MyHashTable and MyHashTableGroup: open addressing with double hashing.  *)
(* Buckets come in groups; a group has a bitmap and a vector, allocated    *)
(* with defragmentation, of the entries of its occupied buckets only.  A   *)
(* table that is too loaded is resized incrementally: an auxiliary table   *)
(* of twice the size receives toProcess buckets at each insertion.         *)
(***************************************************************************)
EXTENDS Defragmentation, TLC

CONSTANTS
  TableKeys,
  FirstValue, LaterValue,             \* what clients write in an entry
  MaxUpdated,                         \* bound: keys that get a later value
  hash_function_1, hash_function_2,   \* functions from TableKeys to Nat
  InitialBuckets,                     \* arguments of the first constructor()
  BucketsPerGroup,
  LoadFactorThreshold                 \* in percent

ASSUME HashTableAssumption ==
  /\ {hash_function_1, hash_function_2} \subseteq [TableKeys -> Nat]
  /\ InitialBuckets \in Nat /\ LoadFactorThreshold \in Nat
  /\ BucketsPerGroup \in 1 .. LargestRequest

VARIABLES
  table,      \* the MyHashTable of a client
  contents    \* history: the value the client last wrote for each key

tableVars == <<table, contents>>

\* The NULL of find().
NoEntry == [depth |-> -1]

------------------------------------------------------------------------------
\* constructor(): "why does the code crash when loadFactorThreshold < 0.5 ?"
acceptable(loadFactorThreshold) == Min({Max({loadFactorThreshold, 50}), 100})

newTable(buckets, loadFactorThreshold) ==
  LET total == Min({ c \in { 2 ^ e : e \in 1 .. 16 } : c >= buckets })
  IN  [m_totalNumberOfBuckets |-> total,
       m_maximumLoadFactor |-> acceptable(loadFactorThreshold),
       m_groups |-> [g \in 0 .. (total - 1) \div BucketsPerGroup |->
                       [m_bitmap |-> {}, m_vector |-> SmartPointer_NULL]],
       m_allocator |-> newChunkAllocator,
       m_utilisedBuckets |-> 0,
       m_size |-> 0,
       m_resizing |-> FALSE,
       m_currentBucketToTransfer |-> 0,
       m_auxiliary |-> << >>]         \* holds the auxiliary table while resizing

Auxiliary(t) == t.m_auxiliary[1]

------------------------------------------------------------------------------
(***************************************************************************)
(* Buckets.  An entry is [key, value]; where it is, is its place: how many *)
(* tables down, and the address of its vector with an index into it.       *)
(***************************************************************************)
groupWith(t, bucket) == t.m_groups[bucket \div BucketsPerGroup]
bucketInGroup(bucket) == bucket % BucketsPerGroup
isAvailable(t, bucket) == bucketInGroup(bucket) \notin groupWith(t, bucket).m_bitmap

getBucketsBefore(group, b) == Cardinality({ c \in group.m_bitmap : c < b })

getBucket(t, bucket) ==
  [depth |-> 0,
   at |-> getPointer(t.m_allocator, groupWith(t, bucket).m_vector),
   index |-> getBucketsBefore(groupWith(t, bucket), bucketInGroup(bucket))]

RECURSIVE entryAt(_, _), write(_, _, _)
entryAt(t, place) ==
  IF place.depth = 0
  THEN loadAt(t.m_allocator, place.at, place.index)
  ELSE entryAt(Auxiliary(t), [place EXCEPT !.depth = @ - 1])
write(t, place, entry) ==
  IF place.depth = 0
  THEN [t EXCEPT !.m_allocator = storeAt(@, place.at, place.index, entry)]
  ELSE [t EXCEPT !.m_auxiliary[1] = write(@, [place EXCEPT !.depth = @ - 1], entry)]

bucketIsUtilisedBySomeoneElse(t, bucket, key) ==
  ~ isAvailable(t, bucket) /\ entryAt(t, getBucket(t, bucket)).key # key

\* The stride of the second hash function, made odd.
stride(t, key) ==
  LET h2 == hash_function_1[key] % t.m_totalNumberOfBuckets
  IN  IF h2 = 0 THEN 1 ELSE IF h2 % 2 = 0 THEN h2 - 1 ELSE h2

probed(t, key, probe) ==
  LET M == t.m_totalNumberOfBuckets
  IN  ((hash_function_2[key] % M) + probe * (M - stride(t, key))) % M

\* The first bucket on the path of the key that no other key uses; the last one
\* of the path when there is none.
findBucketWithKey(t, key) ==
  LET last == t.m_totalNumberOfBuckets - 1
      free == { p \in 0 .. last : ~ bucketIsUtilisedBySomeoneElse(t, probed(t, key, p), key) }
  IN  probed(t, key, IF free = {} THEN last ELSE Min(free))

\* findKey: the auxiliary table first (when asked to), then this one.
RECURSIVE findKey(_, _, _)
findKey(t, key, checkAuxiliary) ==
  LET below == findKey(Auxiliary(t), key, TRUE)
      bucket == findBucketWithKey(t, key)
  IN  IF t.m_resizing /\ checkAuxiliary /\ below # NoEntry
      THEN [below EXCEPT !.depth = @ + 1]
      ELSE IF isAvailable(t, bucket) THEN NoEntry ELSE getBucket(t, bucket)

------------------------------------------------------------------------------
(***************************************************************************)
(* Insertion.  Its result is the table, the place of the entry and whether *)
(* there is a new one.                                                     *)
(***************************************************************************)

\* Mutant: the pointer taken before the old vector is released is returned.
newEntry_Stale(t, bucket, newAt) ==
  [getBucket(t, bucket) EXCEPT !.at = newAt]

\* The last lines of MyHashTableGroup::insert: releasing the old vector may have
\* moved the new one, so its pointer (newAt) is taken again.
newEntry(t, bucket, newAt) == getBucket(t, bucket)

\* MyHashTableGroup::insert: the vector moves to one with one more element (new).
\* Allocating it and releasing the old one may both move the elements of the
\* allocator, so pointers are taken after the one and again after the other.
copiedInto(new, old, before, required, key) ==
  LET newAt == getPointer(new.allocator, new.pointer)
      oldAt == getPointer(new.allocator, old)
      Copy(a, i) == storeAt(a, newAt, i,
                      IF i = before THEN [key |-> key, value |-> Unwritten]
                      ELSE loadAt(a, oldAt, IF i < before THEN i ELSE i - 1))
  IN  FoldLeft(Copy, new.allocator, [i \in 1 .. required |-> i - 1])

insertedIn(grown, bucket, newAt) ==
  [table |-> grown, place |-> newEntry(grown, bucket, newAt), inserted |-> TRUE]

movedTo(t, bucket, key, required, new) ==
  LET g == bucket \div BucketsPerGroup
      before == getBucketsBefore(t.m_groups[g], bucketInGroup(bucket))
      old == t.m_groups[g].m_vector
  IN  insertedIn([t EXCEPT !.m_groups[g] = [m_bitmap |-> @.m_bitmap \cup {bucketInGroup(bucket)},
                                            m_vector |-> new.pointer],
                           !.m_allocator = chunkDeallocate(
                                             copiedInto(new, old, before, required, key), old)],
                 bucket, getPointer(new.allocator, new.pointer))

groupInsert(t, bucket, key) ==
  LET required == Cardinality(groupWith(t, bucket).m_bitmap) + 1
  IN  IF ~ isAvailable(t, bucket)
      THEN [table |-> t, place |-> getBucket(t, bucket), inserted |-> FALSE]
      ELSE movedTo(t, bucket, key, required, chunkAllocate(t.m_allocator, required))

\* Allocates the auxiliary table when the load factor is too high.
growIfNecessary(t) ==
  IF t.m_resizing \/ 100 * t.m_utilisedBuckets < t.m_maximumLoadFactor * t.m_totalNumberOfBuckets
  THEN t
  ELSE [t EXCEPT !.m_currentBucketToTransfer = 0, !.m_resizing = TRUE,
                 !.m_auxiliary = <<newTable(2 * t.m_totalNumberOfBuckets, t.m_maximumLoadFactor)>>]

\* Mutant: one bucket at each insertion.
toProcess_One == 1
toProcess == 2

\* The end of resize(): after the last bucket the auxiliary table takes the place
\* of this one.
replaced(t) ==
  IF t.m_currentBucketToTransfer < t.m_totalNumberOfBuckets
  THEN t
  ELSE [t EXCEPT !.m_groups = Auxiliary(t).m_groups,
                 !.m_totalNumberOfBuckets = Auxiliary(t).m_totalNumberOfBuckets,
                 !.m_allocator = Auxiliary(t).m_allocator,
                 !.m_utilisedBuckets = Auxiliary(t).m_utilisedBuckets,
                 !.m_size = Auxiliary(t).m_size,
                 !.m_auxiliary = << >>,
                 !.m_resizing = FALSE]

\* The end of insert() in this table.
counted(here) ==
  [table |-> growIfNecessary(
               IF here.inserted
               THEN [here.table EXCEPT !.m_utilisedBuckets = @ + 1, !.m_size = @ + 1]
               ELSE here.table),
   place |-> here.place]

\* The end of insert() in the auxiliary table.
countedBelow(t, below) ==
  [table |-> [t EXCEPT !.m_auxiliary[1] = below.table,
                       !.m_size = IF below.table.m_utilisedBuckets > Auxiliary(t).m_utilisedBuckets
                                  THEN @ + 1 ELSE @],
   place |-> [below.place EXCEPT !.depth = @ + 1]]

\* insert() starts with resize(), which copies toProcess buckets of this table to
\* the auxiliary one.
RECURSIVE insert(_, _)
copyBucket(u, entry, copy) ==
  [u EXCEPT !.m_auxiliary[1] = write(copy.table, copy.place, entry)]
transferEntry(u, entry) == copyBucket(u, entry, insert(Auxiliary(u), entry.key))
transfer(u, i) ==
  LET bucket == u.m_currentBucketToTransfer
      moved == IF isAvailable(u, bucket) THEN u
               ELSE transferEntry(u, entryAt(u, getBucket(u, bucket)))
  IN  IF bucket = u.m_totalNumberOfBuckets THEN u
      ELSE [moved EXCEPT !.m_currentBucketToTransfer = @ + 1]
resize(t) == replaced(FoldLeft(transfer, t, [i \in 1 .. toProcess |-> i]))
insertResized(t, key) ==
  LET above == findKey(Auxiliary(t), key, FALSE)
  IN  IF t.m_resizing /\ above # NoEntry
      THEN [table |-> t, place |-> [above EXCEPT !.depth = @ + 1]]
      ELSE IF t.m_resizing /\ findKey(t, key, FALSE) = NoEntry
      THEN countedBelow(t, insert(Auxiliary(t), key))
      ELSE counted(groupInsert(t, findBucketWithKey(t, key), key))
insert(t, key) == insertResized(IF t.m_resizing THEN resize(t) ELSE t, key)

RECURSIVE completeResizing(_)
completeResizing(t) == IF t.m_resizing THEN completeResizing(resize(t)) ELSE t

\* MyHashTableIterator: the entries of the buckets that are not available.
iterated(t) ==
  LET used == SetToSortSeq({ b \in 0 .. t.m_totalNumberOfBuckets - 1 : ~ isAvailable(t, b) }, <)
  IN  [i \in DOMAIN used |-> entryAt(t, getBucket(t, used[i]))]

------------------------------------------------------------------------------
TableInit ==
  /\ table = newTable(InitialBuckets, LoadFactorThreshold)
  /\ contents = << >>

\* A client inserts a key and writes a value through the pointer it gets.
Insert(key) ==
  LET result == insert(table, key)
      value == IF key \in DOMAIN contents THEN LaterValue ELSE FirstValue
      entry == entryAt(result.table, result.place)
  IN  /\ contents' = (key :> value) @@ contents
      /\ Cardinality({ k \in DOMAIN contents' : contents'[k] = LaterValue }) <= MaxUpdated
      /\ table' = write(result.table, result.place, [entry EXCEPT !.value = value])

\* A client completes the resizing before it iterates.
CompleteResizing ==
  /\ table.m_resizing
  /\ table' = completeResizing(table)
  /\ UNCHANGED contents

TableNext == (\E key \in TableKeys : Insert(key)) \/ CompleteResizing

TableSpec == TableInit /\ [][TableNext]_tableVars

------------------------------------------------------------------------------
\* The table is a map, also in the middle of a resizing and whatever collides:
\* find() returns the entry of the key with what was last written to it, or NULL
\* if the key was never inserted; size() counts the keys; an iterator returns
\* each entry once.
TableIsMap ==
  /\ \A key \in TableKeys :
       LET place == findKey(table, key, TRUE)
       IN  IF key \in DOMAIN contents
           THEN place # NoEntry /\ entryAt(table, place) = [key |-> key, value |-> contents[key]]
           ELSE place = NoEntry
  /\ table.m_size = Cardinality(DOMAIN contents)
  /\ ~ table.m_resizing =>
       /\ Len(iterated(table)) = Cardinality(DOMAIN contents)
       /\ ToSet(iterated(table)) = { [key |-> k, value |-> contents[k]] : k \in DOMAIN contents }

\* "the bucket should contains key at this point": find() never returns the entry
\* of another key.  It does for a key that is not in the table when all the
\* buckets are occupied, which the load factor of a small table allows.
FindsOnlyTheKey ==
  \A key \in TableKeys :
    LET place == findKey(table, key, TRUE)
    IN  place # NoEntry => entryAt(table, place).key = key

\* "we want the process to complete before auxiliary triggers its own
\* incremental resizing": the table that is copied into is never itself being
\* resized, or what it has moved would be lost with it.
ResizingStaysAhead == table.m_resizing => ~ Auxiliary(table).m_resizing

\* The vectors of a table are exactly the arrays its allocator holds, each as
\* long as the bitmap of its group says; inside a group of the allocator they do
\* not overlap, lie before the free slice and leave what is counted as available.
VectorsAccounted(t) ==
  LET lanes == t.m_allocator.lanes
      vectors == { g \in DOMAIN t.m_groups : t.m_groups[g].m_vector # SmartPointer_NULL }
      Extent(c, h) == c.m_allocatedOffsets[h] .. c.m_allocatedOffsets[h] + c.m_allocatedSizes[h] - 1
      Arrays == UNION { UNION { { (((l - 1) * GROUPS_PER_LANE + (g - 1)) * ELEMENTS_PER_GROUP) + h :
                                    h \in Live(lanes[l].m_groups[g]) } :
                                g \in DOMAIN lanes[l].m_groups } : l \in DOMAIN lanes }
  IN  /\ Arrays = { t.m_groups[g].m_vector : g \in vectors }
      /\ Cardinality(Arrays) = Cardinality(vectors)
      /\ \A g \in vectors :
           LET p == t.m_groups[g].m_vector
           IN  lanes[laneIndex(p)].m_groups[groupIndex(p)].m_allocatedSizes[smallSmartPointer(p)]
                 = Cardinality(t.m_groups[g].m_bitmap)
      /\ \A l \in DOMAIN lanes : \A g \in DOMAIN lanes[l].m_groups :
           LET c == lanes[l].m_groups[g]
           IN  /\ \A h1, h2 \in Live(c) : h1 # h2 => Extent(c, h1) \cap Extent(c, h2) = {}
               /\ \A h \in Live(c) : Extent(c, h) \subseteq 0 .. c.m_freeSliceStart - 1
               /\ c.m_availableElements
                    = ELEMENTS_PER_GROUP - MapThenSumSet(LAMBDA h : c.m_allocatedSizes[h], Live(c))

\* Both tables of a resizing keep account of their memory.
MemoryAccounted ==
  VectorsAccounted(table) /\ (table.m_resizing => VectorsAccounted(Auxiliary(table)))
==============================================================================
