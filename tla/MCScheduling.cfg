CONSTANTS
  \* VirtualProcessor
  Tag = {0}
  Destination = {0, 1}
  WorkerHandle = {1, 2, 3, 4}
  Period = 2
  MessageUnits = 5
  MAX_NUMBER_OF_MPI_PROCESSES = 4
  Steps = 2
  m_maximumAliveWorkers = 3
  \* SwitchMan
  m_size = 4
  NumModes = 3
SPECIFICATION MCSpec
INVARIANT OwnAnswer
INVARIANT SleepersWillWake
INVARIANT ReplyFits
INVARIANT NoDestroyedWorkerRuns
INVARIANT Lockstep
INVARIANT EveryRankCountedOnce
PROPERTY AllTasksComplete
PROPERTY EveryoneStops
