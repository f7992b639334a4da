SPECIFICATION FairSpec
CONSTANTS
  Procs = {p1, p2}
  NoProc = NoProc
  NTasks = 2
  MaxEvents <- MCMaxEvents
INVARIANTS OneExecutor DependenciesFirst
PROPERTIES WorkSettles SubagentsStop
CHECK_DEADLOCK FALSE
