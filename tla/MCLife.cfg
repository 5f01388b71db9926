SPECIFICATION LifeSpec
CONSTANTS
  DomGraphs <- MCFlowGraphs
  PostDomGraphs <- MCFlowGraphs
  LcmGraphs <- MCLcmGraphs
  Effects <- AllEffects
  LifeGraphs <- MCLifeGraphs
  AtExit = {"s"}
  Codes <- MCRewritten
  Rewritten <- MCRewritten
  MaxRewritten = 2
PROPERTY UpdateEnds
CHECK_DEADLOCK FALSE
