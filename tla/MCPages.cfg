SPECIFICATION FairSpec
CONSTANTS
  Kinds = {"lit", "fplit"}
  Attr <- MCAttr
  AddressKinds = {"lit"}
  Labels = {l1, l2}
  BranchOps = {"b", "bct", "addb"}
  MaxPage = 32
  Conservative = 24
  MaxItems = 5
  MaxFunctions = 2
INVARIANTS
  TypeOK
  BaseLoaded
  PageSpan
  NoLostLiterals
  ReloadOnLabelPage
  TableIndex
PROPERTIES
  FreshPages
  ReloadsHappen
