SPECIFICATION Spec
CONSTANTS
  Tasks = {1, 2, 3}
  Tools = {"launch", "launch_running", "disconnect"}
  Calls <- EachToolOnce
  Conns = {k1}
  Overlaps <- PauseOverlaps
  MayCancel = TRUE
  MayDie = FALSE
  MayHang = TRUE
  None = None
CHECK_DEADLOCK FALSE
INVARIANTS
  DroppedBackendIsKilled
  DisconnectKilledChild
  OutputIsCleared
PROPERTIES
  TerminatedIsFinal
