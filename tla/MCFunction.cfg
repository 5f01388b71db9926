SPECIFICATION FunctionSpec
CONSTANTS
  MaxInsns = 4
  MaxDepth = 3
  BlkSizes = {2, 3, 4}
  MaxRoom = 7
  MaxLevel = 3
  MaxObjects = 3
  TailMembers = FALSE
  Strings = {"s", "t"}
  Aggregates = {"a"}
  Forced = {"p", "q"}
  None = "none"
  Addressed <- MCAddressed
  Refers <- MCRefers
  MaxLabels = 5
  MaxFunctions = 2
  MaxPages = 3
  PerPage = 2
  MaxContext = 1
  Elements = {"a", "b", "c", "d", "e"}
  Hash <- MCHash
  Primes = {7, 13}
  Bits = 3
  MaxCases = 6
  Sparse = 1
  LastAscii = 3
  Weight <- MCWeight
INVARIANTS
  Mirrored
  
  NoClobber
  FindsNoOther
  DefinedOnce
  NoneForNothing
  NothingLost
  RoomFirst
  FindsMembers
  TreeBalanced
  DispatchRight
PROPERTIES
  ChainIsSequences
CHECK_DEADLOCK FALSE
