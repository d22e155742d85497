SPECIFICATION RouterSpec
CONSTANTS
  CoresPerNode = 2
  TagBase = 16
  WorkTag = 1
  StopTag = 2
  Duration = 3
  MaxLatency = 2
  Scenarios <- MCScenarios
INVARIANTS EveryHopIsALink DeliveredAsSent RelaysOutliveMessages RoutesAreBuilt
PROPERTY EveryMessageArrives
CHECK_DEADLOCK FALSE
