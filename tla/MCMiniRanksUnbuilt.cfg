CONSTANTS
  NumRanks = 1
  PerRank = 2
  Bins = 1
  MaxPerTick = 1
  MaxOutstanding = 1
  Configured = {}
SPECIFICATION Spec
INVARIANT ConstructedBeforeUse
CHECK_DEADLOCK FALSE
