SPECIFICATION Spec
CONSTANTS
  p1 = p1
  p2 = p2
  number = number
  numbers = numbers
  anything = anything
  nodes = nodes
  trees = trees
  node = node
  tree = tree
  both = both
  mixed = mixed
  bad = bad
  hidden = hidden
  knot = knot
  knots = knots
  Callers <- MCCallers
  Types <- MCTypes
  Kind <- MCKind
  Parts <- MCParts
  Exported <- MCExported
  Roots <- MCRoots
  Offset = Offset
  Inside <- MCInside
  MaxCalls = 1
  MaxDepth = 16
CHECK_DEADLOCK FALSE
INVARIANTS
  OneObject
  StoredWhole
  EligibleRight
  OverflowOnlyEndless
PROPERTIES
  Published
  CallsReturn
