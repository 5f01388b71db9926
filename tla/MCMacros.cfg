SPECIFICATION MacroSpec
CONSTANTS
  ObjMacros = {"A"}
  FunMacros = {"F"}
  Definitions <- MCDefinitions
  MaxInput = 4
  MaxContexts = 6
INVARIANTS
  StopsAtLineEnd
CHECK_DEADLOCK FALSE
