CONSTANTS
  NumRanks = 1
  PerRank = 2
  Bins = 2
  MaxPerTick = 2
  MaxOutstanding = 6
  Configured = {0, 1}
SPECIFICATION FairSpec
CONSTRAINT MasterAlone
PROPERTY RetriesEnd
CHECK_DEADLOCK FALSE
