CONSTANTS
  NumRanks = 1
  PerRank = 2
  Bins = 2
  MaxPerTick = 2
  MaxOutstanding = 2
  Configured = {0, 1}
SPECIFICATION FairSpec
INVARIANT NothingLeftBehind
INVARIANT NoUseAfterDestroy
PROPERTY StopEndsEveryProcess
CHECK_DEADLOCK FALSE
