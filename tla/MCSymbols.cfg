SPECIFICATION Spec
CONSTANTS
  Funs = {f1, f2}
  Vars = {v1, v2}
  NoName = NoName
  MaxSteps = 6
INVARIANTS
  TypeOK
  SymbolsUnique
  LinkageKept
  RefsResolve
PROPERTIES
  NameStable
CHECK_DEADLOCK FALSE
SYMMETRY NameSymmetry
