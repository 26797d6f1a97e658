SPECIFICATION Spec
CONSTANTS
  Names <- SomeNames
  Stray = {"Say"}
  MaxItems = 6
INVARIANTS
  ParsedAsWritten
CHECK_DEADLOCK FALSE
