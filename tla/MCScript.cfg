CONSTANTS
  Program <- Programs
  Variable = {"x", "y"}
  Command = {"a", "b"}
  MaxElements = 2
  MaxEvents = 8
SPECIFICATION Spec
PROPERTY ImplementsSemantics
CHECK_DEADLOCK FALSE
