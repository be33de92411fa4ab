SPECIFICATION Spec
CONSTANTS
  Tasks = {1, 2, 3, 4}
  Tools = {"launch", "launch_running", "resume", "pause", "disconnect"}
  Calls <- SessionCalls
  Conns = {k1, k2}
  Overlaps <- PauseOverlaps
  MayCancel = TRUE
  MayDie = TRUE
  MayHang = TRUE
  None = None
CHECK_DEADLOCK FALSE
INVARIANTS
  IdleIsClean
  StoppedIsReal
  TerminatedIsReal
  ExitCodeReported
SYMMETRY Symmetry
PROPERTIES
  ImplementsSession
