SPECIFICATION Spec
CONSTANTS
  MaxFrames = 2
  BodyLengths = {0, 1, 2, 3}
  MaxLength = 2
  Size = 2
  MaxStderr = 5
  None = None
CHECK_DEADLOCK FALSE
INVARIANTS
  ReadsWhatWasWritten
  RingKeepsTheTail
