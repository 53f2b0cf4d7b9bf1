SPECIFICATION Spec
CONSTANTS
  Ident = {"a"}
  MaxDepth = 2
  MaxBlocks = 2
  MaxTemps = 1
INVARIANT CallSparesTemps
CHECK_DEADLOCK FALSE
