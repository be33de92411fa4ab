SPECIFICATION FairSpec
CONSTANTS
  Kinds = {"launch"}
  MaxFiles = 2
  MayRefuse = FALSE
  MayDie = TRUE
  MayCancel = FALSE
PROPERTY DeathUnblocksHandshake
CHECK_DEADLOCK FALSE
