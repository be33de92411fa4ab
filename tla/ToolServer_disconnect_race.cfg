SPECIFICATION Spec
CONSTANTS
  Tasks = {1, 2, 3}
  Tools = {"launch", "resume", "disconnect"}
  Calls <- EachToolOnce
  Conns = {k1}
  Overlaps <- DisconnectOverlaps
  MayCancel = FALSE
  MayDie = TRUE
  MayHang = FALSE
  None = None
CHECK_DEADLOCK FALSE
INVARIANTS
  DisconnectStaysIdle
  ResetStopCache
  CrashTerminatesSession
