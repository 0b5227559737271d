SPECIFICATION Spec
CONSTANTS
  Sources <- MCSources
  Paths <- MCPaths
  Values <- MCValues
  Given <- MCGiven
  Strings <- MCStrings
  LiteralSafe <- MCLiteralSafe
  Formattable <- MCFormattable
  Parsable <- MCStrings
  Unreadable <- MCUnreadable
  None = None
  MaxInsertions = 2
INVARIANT
  SetReplaces
