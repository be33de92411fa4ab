SPECIFICATION Spec
CONSTANTS
  Tasks = {t1, t2}
  Threads = {1, 2}
  ThreadArgs = {0, 2}
  LevelArgs = {1, 3}
  ImplicitLevels = 2
  Stacks <- UnevenStacks
  Indices = {0, 1, 2}
  Overlaps = {TRUE, FALSE}
  MaxCalls = 3
  MaxStops = 2
CHECK_DEADLOCK FALSE
INVARIANTS
  ShowsTheIndexAsked
  AnswersAreTrue
  NoFrameOutlivesItsSession
SYMMETRY Symmetry
