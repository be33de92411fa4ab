SPECIFICATION FairSpec
CONSTANTS
  Kinds = {"launch", "attach"}
  MaxFiles = 2
  MayRefuse = TRUE
  MayDie = TRUE
  MayCancel = TRUE
CHECK_DEADLOCK FALSE
INVARIANTS
  EntryStopCaptured
  OutcomeIsTrue
  LeavesAtMostTheTarget
PROPERTIES
  HandshakeReturns
