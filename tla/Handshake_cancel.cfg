SPECIFICATION Spec
CONSTANTS
  Kinds = {"launch"}
  MaxFiles = 2
  MayRefuse = FALSE
  MayDie = FALSE
  MayCancel = TRUE
INVARIANT CancelLeavesNothing
CHECK_DEADLOCK FALSE
