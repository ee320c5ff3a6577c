SPECIFICATION FairSpec
CONSTANTS
  WorkerThread = worker
  Destroyer = destroyer
  Free = free
  Posters = {p1}
PROPERTY EveryTaskRuns
CHECK_DEADLOCK FALSE
