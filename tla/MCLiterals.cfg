SPECIFICATION Spec
CONSTANTS
  Absent = Absent
  FractionDigits = 2
  Width = 6
  FloatPower = 8
  Numbers <- MCNumbers
  Stamps <- MCStamps
  Edits <- MCEdits
CHECK_DEADLOCK FALSE
INVARIANTS
  NoWrap
  NumbersExact
  StampsKept
