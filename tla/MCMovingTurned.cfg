SPECIFICATION Spec
CONSTANTS
  Points <- Grid
  Files <- Cornered
  Routes <- Drawable
  Deltas <- Steps
  Centers <- Corner
  DuringMove = {"turn"}
  MaxObjects = 5
  MaxSelected = 2
  MaxEdits = 2
CHECK_DEADLOCK FALSE
PROPERTIES
  NothingVanishes
