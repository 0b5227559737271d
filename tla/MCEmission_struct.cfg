SPECIFICATION Spec
CONSTANTS
  a = a
  b = b
  bell = bell
  broken = broken
  Names <- MCNames
  NameText <- MCNameText
  Inputs <- MCInputs
  Unreadable = Unreadable
  Garbled = Garbled
  Nowhere = Nowhere
CHECK_DEADLOCK FALSE
INVARIANTS
  PrecomputedMatchesFieldLoop
