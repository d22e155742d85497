\* Two buckets at the documented load factor of 70 percent.
CONSTANTS
  ELEMENTS_PER_GROUP = 3
  GROUPS_PER_LANE = 2
  FAST_POINTERS = 1
  NUMBER_OF_FAST_GROUPS = 1
  LargestRequest = 2
  thresholdForFragmentedWarZone = 1
  thresholdForFreeSlice = 2
  SmartPointers = 1024
  Unwritten = Unwritten
  TableKeys <- MCTableKeys
  FirstValue = first
  LaterValue = later
  MaxUpdated = 1
  hash_function_1 <- MCHash1
  hash_function_2 <- MCHash2
  InitialBuckets = 2
  BucketsPerGroup = 2
  LoadFactorThreshold = 70
SPECIFICATION TableSpec
INVARIANT FindsOnlyTheKey
CHECK_DEADLOCK FALSE
