SPECIFICATION Spec
CONSTANTS
  Files = {f}
  f = f
  v1 = v1
  v2 = v2
  Untitled = Untitled
  Contents = {v1, v2}
  NONE = NONE
  TicksPerSec = 2
  MaxClock = 4
  MaxHistory = 3
INVARIANTS
  UnchangedMeansSaved
