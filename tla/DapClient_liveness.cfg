SPECIFICATION FairSpec
CONSTANTS
  Callers = {c1, c2}
  Ops = {"send", "resume"}
  MaxEvents = 1
  ExitCodes = {x0}
  Malformed = FALSE
  None = None
CHECK_DEADLOCK FALSE
PROPERTIES
  EverySendReturns
  DeathEndsSession
