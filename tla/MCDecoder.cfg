SPECIFICATION Spec
CONSTANTS
  Inputs <- MCInputs
  MaxNestedDepth = 2
  MaxKeyLength = 2
  MaxStringLength = 2
  MaxDocumentSize = 60
INVARIANTS
  TypeOK
  DispatchFlags
  CleanEOF
  NothingSkipped
  DecodeExclusive
  DepthCounters
  ValidAccepted
PROPERTIES
  ErrorRepeats
  CallReturns
