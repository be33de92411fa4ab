SPECIFICATION Spec
CONSTANTS
  Tasks = {t1, t2}
  Kinds = {"source"}
  Keys = {1, 2}
  MaxCalls = 3
  Overlaps = {TRUE}
  MayMove = FALSE
  MayReset = TRUE
CHECK_DEADLOCK FALSE
INVARIANTS
  ConfirmedIsInstalled
  PendingIsFlushed
  IdleTracksNothing
