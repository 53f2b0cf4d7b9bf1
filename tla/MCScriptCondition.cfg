CONSTANTS
  Program <- WhilePrograms
  Variable = {"x", "y"}
  Command = {"a", "b"}
  MaxElements = 2
  MaxEvents = 5
SPECIFICATION Spec
PROPERTY ImplementsSemantics
CHECK_DEADLOCK FALSE
