SPECIFICATION Spec
CONSTANTS
  a = a
  b = b
  c = c
  Names <- MCNames
  Pieces <- MCPieces
  HeaderPaths <- MCHeaderPaths
  KeyPaths <- MCKeyPaths
  Values <- MCValues
  Filters <- MCFilters
  Nowhere = Nowhere
  MaxEpoch = 2
  MaxNodes = 8
CHECK_DEADLOCK FALSE
INVARIANTS
  NoFalseRefusal
