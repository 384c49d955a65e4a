SPECIFICATION Spec
CONSTANTS
  Revs = {r1, r2}
  r1 = r1
  r2 = r2
  Addrs = {1, 2, 3}
  MaxObjects = 2
  Types = {"component", "text"}
  Data = {d1, d2}
  d1 = d1
  d2 = d2
  INVALID = INVALID
  MaxKept = 4
SYMMETRY Symmetry
VIEW View
CONSTRAINT Small
CHECK_DEADLOCK FALSE
INVARIANTS
  TypeOK
  RefcountExact
PROPERTIES
  RevisionsIndependent
  FailedCallChangesNothing
