SPECIFICATION FrontendSpec
CONSTANTS
  Headers = {"h"}
  Macros = {"A"}
  MaxLines = 4
  MaxMain = 2
  MaxNest = 3
  ObjMacros = {"A", "B"}
  FunMacros = {"F"}
  Definitions <- MCDefinitions
  MaxInput = 4
  MaxContexts = 6
  CondTokens = {"0", "1", "!", "&&", "||", "-", "/", "?", ":", "(", ")"}
  MaxCondTokens = 6
  LongTokens = {"0", "1", "||", "/", "?", ":", "(", ")"}
  MaxLongTokens = 9
  W = 4
  Types <- MCTypes
  Overflowed <- MCNarrow
  Paired <- MCPaired
  DivCodes = {"trunc", "ceil"}
  HostBits = 8
  Sizes = {4, 8}
INVARIANTS
  SkippingRight
  GuardsSound
  StackedIsCached
  DisabledOnStack
  AsHideSets
  ConditionsRight
  FoldsExactly
  DividesExactly
PROPERTIES
  ExpansionEnds
CHECK_DEADLOCK FALSE
