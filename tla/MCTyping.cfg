CONSTANTS
  Function = {"f", "g"}
  Params <- MCParams
  ResultType <- MCResult
  Name = {"x"}
  NoName = "none"
  Untyped = {"h"}
  Element = {"ExitCode", "Path"}
  MaxStatements = 2
  MaxOperands = 2
  MaxStages = 3
SPECIFICATION Spec
INVARIANTS TypeOK FailuresAreReported CrashesExplained AcceptedProgramsTranslate OperandsFit
CHECK_DEADLOCK FALSE
CONSTRAINTS StopsAtErrors LongBodies
