SPECIFICATION Spec
CONSTANTS
  Kinds = {"lit", "fplit"}
  Attr <- MCAttr
  AddressKinds = {"lit"}
  Labels = {l1, l2}
  BranchOps = {"b"}
  MaxPage = 35
  Conservative = 27
  MaxItems = 5
  MaxFunctions = 1
INVARIANTS
  NoStaleBase
SYMMETRY LabelSymmetry
