SPECIFICATION Spec
CONSTANTS
  Tasks = {1, 2}
  Tools = {"launch", "attach"}
  Calls <- AnyCalls
  Conns = {k1, k2}
  Overlaps <- AllOverlap
  MayCancel = FALSE
  MayDie = FALSE
  MayHang = FALSE
  None = None
CHECK_DEADLOCK FALSE
INVARIANTS
  OneLaunchAtATime
