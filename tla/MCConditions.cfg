SPECIFICATION CondSpec
CONSTANTS
  CondTokens = {"0", "1", "?", ":"}
  MaxCondTokens = 9
  LongTokens = {}
  MaxLongTokens = 9
INVARIANTS
  ElseIsRight
CHECK_DEADLOCK FALSE
