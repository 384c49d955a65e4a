SPECIFICATION Spec
CONSTANTS
  Designs <- Abutted
  MaxDepth = 0
INVARIANTS
  TouchingJoined
