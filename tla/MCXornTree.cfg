SPECIFICATION Spec
CONSTANTS
  Revs = {r1}
  r1 = r1
  Addrs = {1, 2, 3}
  MaxObjects = 4
  Types = {"component", "text"}
  Data = {d1}
  d1 = d1
  INVALID = INVALID
  MaxKept = 4
SYMMETRY Symmetry
VIEW View
CONSTRAINT Small
CHECK_DEADLOCK FALSE
INVARIANTS
  TreeConsistent
  RelocatePlaces
