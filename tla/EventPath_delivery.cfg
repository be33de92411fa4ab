SPECIFICATION FairPathSpec
CONSTANTS
  MAX_SIZE = 2
  Sizes = {1, 3}
  MaxAppends = 3
  MaxOutputs = 3
  Conns = 2
CHECK_DEADLOCK FALSE
INVARIANTS
  EveryChunkOnce
  NoSilentLoss
  NothingLostOnTheWay
  OnlyLatePumpsLeak
PROPERTIES
  EndedMeansDelivered
