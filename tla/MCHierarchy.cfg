SPECIFICATION Spec
CONSTANTS
  fp = fp
  fa = fa
  fb = fb
  sym = sym
  Schematics = {fp, fa, fb}
  Symbols = {sym}
  Unreadable = {}
  Untitled = Untitled
  NONE = NONE
  Lowercase <- SameLowercase
  Designs <- OnlyUndrawn
  Drawings <- WithB
  EnforceHierarchy = TRUE
  Texts = {TRUE}
  MaxPages = 4
  MaxVisits = 10
  MaxControl = 2
  MaxChanges = 1
INVARIANTS
  TypeOK
  NoCircleUnlessRelinked
  OnePagePerFile
  ComesBackUnlessRelinked
  ListsPagesBelow
CHECK_DEADLOCK FALSE
