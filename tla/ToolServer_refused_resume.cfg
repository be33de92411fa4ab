SPECIFICATION FairSpec
CONSTANTS
  Tasks = {1, 2}
  Tools = {"launch", "resume"}
  Calls <- EachToolOnce
  Conns = {k1}
  Overlaps <- PauseOverlaps
  MayCancel = FALSE
  MayDie = FALSE
  MayHang = FALSE
  None = None
CHECK_DEADLOCK FALSE
PROPERTIES
  RefusalIsReported
