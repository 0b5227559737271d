SPECIFICATION Spec
CONSTANTS
  Capacity = 2
  Markers = {array, inline}
  Array = array
  Unused = unused
  MaxDepth = 5
INVARIANTS
  Spill
PROPERTIES
  StackSpec
