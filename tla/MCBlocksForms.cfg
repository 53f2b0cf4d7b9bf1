CONSTANTS
  Line <- Forms
  Indent = {0, 1, 2}
  MaxLines = 3
SPECIFICATION Spec
INVARIANTS LoopLevelCounts BlocksNest NothingWithoutError
PROPERTY EndsOrKnownLoop
CHECK_DEADLOCK FALSE
