SPECIFICATION Spec
CONSTANTS
  Ident = {"a"}
  NoIdent = "none"
  MaxNodes = 4
INVARIANT DeducedReturnSurvivesBlocks
CHECK_DEADLOCK FALSE
