CONSTANTS
  NumRanks = 2
  PerRank = 2
  Bins = 1
  MaxPerTick = 1
  MaxOutstanding = 1
  Configured = {0, 1, 2}
SPECIFICATION Spec
INVARIANT Conserved
INVARIANT ArrivesAtDestination
CONSTRAINT Running
CHECK_DEADLOCK FALSE
