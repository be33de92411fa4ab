SPECIFICATION Spec
CONSTANTS
  Versions = {15, 16}
  MaxInt = 7
  Doubles <- SmallDoubles
  Envs <- AllEnvironments
  Numbers <- Halves
  Reads <- SmallReads
  Details <- SmallDetails
  MaxEntries = 2
  RowBytes = 2
  AddressSpace = 4
  None = None
CHECK_DEADLOCK FALSE
INVARIANTS
  PrefersTheNewest
  CommandFitsTheAdapter
  ForwardedIsValid
  AnswerShowsTheReply
