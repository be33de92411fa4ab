SPECIFICATION Spec
CONSTANTS
  Callers = {c1, c2}
  Ops = {"send", "resume", "both"}
  MaxEvents = 2
  ExitCodes = {x0}
  Malformed = TRUE
  None = None
CHECK_DEADLOCK FALSE
INVARIANTS
  ResponseMatchesRequest
  NoOrphanedEntry
  ResumeNeverMissesItsStop
  NoLostWakeup
  NoStrandedSend
  ExitCodeCarried
PROPERTIES
  ImplementsService
SYMMETRY Symmetry
