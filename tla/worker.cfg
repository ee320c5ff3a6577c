SPECIFICATION FairSpec
CONSTANTS
  WorkerThread = worker
  Destroyer = destroyer
  Free = free
  Posters = {p1, p2, p3}
INVARIANT IInv
PROPERTIES
  LostInWindow
  ImplementsExecutor
  WakeRunsBacklog
  StopEndsSleeper
CHECK_DEADLOCK FALSE
