SPECIFICATION Spec
CONSTANTS
  Points <- Grid
  Files <- Pages
  Routes <- Drawable
  Deltas <- Steps
  Centers <- Middle
  DuringMove = {"turn"}
  MaxObjects = 4
  MaxSelected = 2
  MaxEdits = 2
CHECK_DEADLOCK FALSE
INVARIANTS
  TypeOK
  ListsAlive
  ConnectionsKnown
  ConsolidationKeeps
  RubberKeepsPins
PROPERTIES
  EscapeKeepsPage
