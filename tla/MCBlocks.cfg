CONSTANTS
  Line <- Controls
  Indent = {0, 1, 2}
  MaxLines = 4
SPECIFICATION Spec
INVARIANTS TypeOK LoopLevelCounts BlocksNest StatementsInTheirBlock NothingWithoutError
CHECK_DEADLOCK FALSE
