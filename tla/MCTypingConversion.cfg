CONSTANTS
  Function = {"f", "g"}
  Params <- MCParams
  ResultType <- MCResult
  Name = {"x"}
  NoName = "none"
  Untyped = {"h"}
  Element = {"ExitCode"}
  MaxStatements = 2
  MaxOperands = 2
  MaxStages = 3
SPECIFICATION Spec
INVARIANT VariablesHoldTheirType
CHECK_DEADLOCK FALSE
