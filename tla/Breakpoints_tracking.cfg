SPECIFICATION Spec
CONSTANTS
  Tasks = {t1, t2}
  Kinds = {"source", "function"}
  Keys = {1, 2}
  MaxCalls = 4
  Overlaps = {TRUE, FALSE}
  MayMove = TRUE
  MayReset = TRUE
CHECK_DEADLOCK FALSE
INVARIANTS
  TrackedIsInstalled
  ListedIsInstalled
  ListedIdIsItsOwn
SYMMETRY Symmetry
