SPECIFICATION Spec
CONSTANTS
  p1 = p1
  p2 = p2
  Callers <- MCCallers
  None = None
  MaxObjects = 3
  MaxCalls = 1
  MaxNesting = 2
SYMMETRY Symmetric
CHECK_DEADLOCK FALSE
INVARIANTS
  OneOwner
  NoLeftovers
PROPERTIES
  HandedOutForGood
  PutBackOnExit
