SPECIFICATION Spec
CONSTANTS
  Tasks = {t1}
  Threads = {1, 2}
  ThreadArgs = {0}
  LevelArgs = {1}
  ImplicitLevels = 2
  Stacks <- UnevenStacks
  Indices = {0}
  Overlaps = {FALSE}
  MaxCalls = 3
  MaxStops = 2
CHECK_DEADLOCK FALSE
INVARIANTS
  ShowsTheStoppedThread
