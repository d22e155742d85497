CONSTANTS
  \* KeyValueStore: a value of two messages and one of one
  Stores = {0, 1, 2}
  Keys = {k1}
  Values <- MCValues
  Capacity = 2
  MaxInserts = 2
  MaxRemovals = 1
  MaxPulls = 2
  \* Playground
  Size = 2
  MaxActors = 2
  MaxMail = 1
  ActorTag = 10001
  HandlerTable = 256
  \* PluginRegistry
  Plugins = {p1, p2}
  Kinds = {"tag", "master"}
  Maximum = 2
  Symbols = {s1}
  MaxCalls = 4
  \* HashTable on Defragmentation: 4, 8 and 16 buckets
  ELEMENTS_PER_GROUP = 3
  GROUPS_PER_LANE = 2
  FAST_POINTERS = 1
  NUMBER_OF_FAST_GROUPS = 1
  LargestRequest = 2
  thresholdForFragmentedWarZone = 1
  thresholdForFreeSlice = 2
  SmartPointers = 1024
  Unwritten = Unwritten
  TableKeys <- MCTableKeys
  FirstValue = first
  LaterValue = later
  MaxUpdated = 1
  hash_function_1 <- MCHash1
  hash_function_2 <- MCHash2
  InitialBuckets = 3
  BucketsPerGroup = 2
  LoadFactorThreshold = 25
  \* SplayTree
  TreeKeys = {1, 2, 3, 4, 5}
  \* MyAllocator
  ChunkSize = 6
  Alignment = 2
  ElementSize = 2
  Sizes = {1, 3, 4}
  MaxChunks = 2
  MaxResets = 1
  \* BufferedData: a message holds two items and a word
  Ranks = {0, 1}
  m_capacity = 5
  m_period = 2
  MaxItems = 5
  \* BufferHandOff: a queue with as many bins as the ring has buffers
  m_chunks = 3
  Msg = {m1, m2, m3, m4, m5, m6}
  Null = Null
  QueueBins = 3
  MaxDrafts = 2
SPECIFICATION MCSpec
INVARIANT PulledIntact
INVARIANT ActorsAccounted
INVARIANT SymbolsResolve
INVARIANT TableIsMap
INVARIANT ResizingStaysAhead
INVARIANT MemoryAccounted
INVARIANT TreeIsSet
INVARIANT BlocksDisjoint
INVARIANT BufferedInOrder
INVARIANT NewestIntact
PROPERTY PullsEnd
CHECK_DEADLOCK FALSE
