SPECIFICATION Spec
CONSTANTS
  Ident = {"a", "b"}
  NoIdent = "none"
  MaxNodes = 5
INVARIANTS TypeOK ScopeErrorsExact NeverDangling CleanProgramsCompile DefinitionsNamed
PROPERTY TypedOnce
CONSTRAINT EndsSoonAfterErrors
CHECK_DEADLOCK FALSE
