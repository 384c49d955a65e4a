SPECIFICATION Spec
CONSTANTS
  Designs <- SmallDesigns
  MaxDepth = 2
INVARIANTS
  TypeOK
  DictExact
  DrawnTogether
  JoinedExactly
  ConnectionsExact
  NamesUnique
  CrashOnlyAfterError
PROPERTIES
  JoinedForGood
