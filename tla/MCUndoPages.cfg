SPECIFICATION Spec
CONSTANTS
  Pages = {p1, p2}
  p1 = p1
  p2 = p2
  Contents = {empty, a}
  a = a
  empty = empty
  EMPTY = empty
  Missing = Missing
  UndoTypes = {"DISK"}
  PanZooms = {TRUE}
  UndoLevels = 1
  UndoPadding = 1
  CheckEvery = 2
  MaxSaves = 4
  MaxNodes = 2
  MaxFailures = 0
SYMMETRY Symmetry
CHECK_DEADLOCK FALSE
INVARIANTS
  TypeOK
  CurrentInList
  UndoFilesKept
PROPERTIES
  ImplementsHistory
