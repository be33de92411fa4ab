SPECIFICATION Spec
CONSTANTS
  Callers = {c1, c2}
  Ops = {"send", "resume"}
  MaxEvents = 1
  ExitCodes = {x0}
  Malformed = TRUE
  None = None
CHECK_DEADLOCK FALSE
INVARIANTS
  EveryBlockedRequestUnblocks
  DroppedMeansTornDown
  CancelKeepsFraming
