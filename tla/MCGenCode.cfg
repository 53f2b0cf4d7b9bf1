SPECIFICATION Spec
CONSTANTS
  Ident = {"a"}
  MaxDepth = 3
  MaxBlocks = 3
  MaxTemps = 3
INVARIANTS TypeOK LiveTempsDistinct TempNamesWellFormed TempDiscipline
CHECK_DEADLOCK FALSE
