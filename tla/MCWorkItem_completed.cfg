SPECIFICATION FairSpec
CONSTANTS
  Procs = {p1, p2}
  NoProc = NoProc
  NTasks = 2
  MaxEvents <- MCNoEvents
PROPERTY CompletedWorkIsDone
CHECK_DEADLOCK FALSE
