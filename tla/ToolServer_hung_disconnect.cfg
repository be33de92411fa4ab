SPECIFICATION FairSpec
CONSTANTS
  Tasks = {1, 2, 3}
  Tools = {"launch", "resume", "disconnect"}
  Calls <- EachToolOnce
  Conns = {k1}
  Overlaps <- DisconnectOverlaps
  MayCancel = FALSE
  MayDie = FALSE
  MayHang = TRUE
  None = None
CHECK_DEADLOCK FALSE
PROPERTIES
  DisconnectReleasesResume
