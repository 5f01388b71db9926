SPECIFICATION Spec
CONSTANTS
  Kinds = {"fplit"}
  Attr <- MCAttr
  AddressKinds = {}
  Labels = {l1}
  BranchOps = {"b"}
  MaxPage = 100
  Conservative = 92
  MaxItems = 10
  MaxFunctions = 1
INVARIANTS
  NearReach
