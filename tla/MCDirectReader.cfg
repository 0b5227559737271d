SPECIFICATION SpecBoth
CONSTANTS
  Inputs <- MCInputs
  MaxNestedDepth = 2
  MaxKeyLength = 2
  MaxStringLength = 2
  MaxDocumentSize = 60
CHECK_DEADLOCK FALSE
INVARIANTS
  StatementBoundary
  SameVerdict
  SameStatements
PROPERTIES
  BothReturn
