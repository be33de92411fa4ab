SPECIFICATION FairSpec
CONSTANTS
  Kinds = {"attach"}
  MaxFiles = 2
  MayRefuse = FALSE
  MayDie = FALSE
  MayCancel = FALSE
PROPERTY AttachReturns
CHECK_DEADLOCK FALSE
