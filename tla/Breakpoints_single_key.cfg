SPECIFICATION Spec
CONSTANTS
  Tasks = {t1}
  Kinds = {"source"}
  Keys = {1}
  MaxCalls = 5
  Overlaps = {FALSE}
  MayMove = FALSE
  MayReset = FALSE
CHECK_DEADLOCK FALSE
INVARIANTS
  FlushedIsListed
  RemovedIsGone
