SPECIFICATION FairSpec
CONSTANTS
  Tasks = {1, 2, 3}
  Tools = {"launch", "attach", "resume", "disconnect"}
  Calls <- EachToolOnce
  Conns = {k1}
  Overlaps <- AllOverlap
  MayCancel = TRUE
  MayDie = TRUE
  MayHang = TRUE
  None = None
CHECK_DEADLOCK FALSE
INVARIANTS
  LoneDisconnectCleans
PROPERTIES
  DisconnectReturns
  DeathReleasesResume
