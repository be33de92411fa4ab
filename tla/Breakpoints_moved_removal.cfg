SPECIFICATION Spec
CONSTANTS
  Tasks = {t1}
  Kinds = {"source"}
  Keys = {1, 2}
  MaxCalls = 3
  Overlaps = {FALSE}
  MayMove = TRUE
  MayReset = FALSE
CHECK_DEADLOCK FALSE
INVARIANTS
  RemovedIsGone
