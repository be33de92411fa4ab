SPECIFICATION WalkSpec
CONSTANTS
  Refs = {1, 2, 3}
  Trees <- SmallTrees
  Depths = {0, 1, 2}
  Caps = {1, 3, 4, 100}
  Filters = {{1, 2}, {2}, {}}
CHECK_DEADLOCK FALSE
INVARIANTS
  MatchesReference
  FetchesOnlyWhatIsShown
