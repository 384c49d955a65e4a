SPECIFICATION Spec
CONSTANTS
  Pages = {p1}
  p1 = p1
  Contents = {empty, a}
  a = a
  empty = empty
  EMPTY = empty
  Missing = Missing
  UndoTypes = {"DISK", "MEMORY"}
  PanZooms = {TRUE, FALSE}
  UndoLevels = 2
  UndoPadding = 1
  CheckEvery = 2
  MaxSaves = 5
  MaxNodes = 4
  MaxFailures = 1
CHECK_DEADLOCK FALSE
INVARIANTS
  SnapshotShown
  LevelsBoundedAlone
PROPERTIES
  TrimKeepsLevels
