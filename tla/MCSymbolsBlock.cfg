SPECIFICATION Spec
CONSTANTS
  Funs = {f1, f2}
  Vars = {v1}
  NoName = NoName
  MaxSteps = 5
INVARIANTS
  BlockRefsResolve
CHECK_DEADLOCK FALSE
SYMMETRY NameSymmetry
