SPECIFICATION OptSpec
CONSTANTS
  DomGraphs <- MCFlowGraphs
  PostDomGraphs <- MCFlowGraphs
  LcmGraphs <- MCLcmGraphs
  Effects <- AllEffects
  LifeGraphs <- MCLifeGraphs
  AtExit = {"s"}
  Codes <- MCCodes
  Rewritten <- MCRewritten
  MaxRewritten = 2
INVARIANTS
  DominatorsRight
  RegisterCurrent
  NoneAdded
  LiveCovers
  NotesCurrent
CHECK_DEADLOCK FALSE
