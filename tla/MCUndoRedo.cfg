SPECIFICATION Spec
CONSTANTS
  Pages = {p1}
  p1 = p1
  Contents = {empty, a}
  a = a
  empty = empty
  EMPTY = empty
  Missing = Missing
  UndoTypes = {"DISK"}
  PanZooms = {FALSE}
  UndoLevels = 2
  UndoPadding = 1
  CheckEvery = 2
  MaxSaves = 4
  MaxNodes = 3
  MaxFailures = 0
CHECK_DEADLOCK FALSE
INVARIANTS
  NoDoubleFree
