SPECIFICATION Spec
CONSTANTS
  Ident = {"a"}
  MaxDepth = 2
  MaxBlocks = 2
  MaxTemps = 0
INVARIANT ShadowedNamesDiffer
CHECK_DEADLOCK FALSE
