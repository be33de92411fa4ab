SPECIFICATION FairSpec
CONSTANTS
  Tasks = {1, 2, 3}
  Tools = {"launch", "resume", "pause"}
  Calls <- EachToolOnce
  Conns = {k1}
  Overlaps <- PauseOverlaps
  MayCancel = TRUE
  MayDie = FALSE
  MayHang = FALSE
  None = None
CHECK_DEADLOCK FALSE
PROPERTIES
  PauseRecovers
