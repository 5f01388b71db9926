SPECIFICATION Spec
CONSTANTS
  Funs = {f1}
  Vars = {v1}
  NoName = NoName
  MaxSteps = 5
INVARIANTS
  RelinkedRefsResolve
CHECK_DEADLOCK FALSE
SYMMETRY NameSymmetry
