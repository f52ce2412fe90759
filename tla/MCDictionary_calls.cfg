SPECIFICATION FairSpec
CONSTANTS
  Key <- SmallKeys
  Value = {v1}
  Unset = Unset
  NULL = NULL
  Hash <- IdentityHash
  TableSizes = {1, 2, 4, 8}
  InitialSize = 1
  ForceResizeRatio = 1
  EmptyVisitsPerStep = 1
  RehashCounts = {0, 2}
  ExpandSizes = {1, 7, 9}
  MaxNodes = 3
VIEW WithoutReply
CHECK_DEADLOCK FALSE
INVARIANTS
  TypeOK
  CountsMatchChains
  RehashFrontier
  NoRehashOverrun
  ReplaceFindsNode
  NodesHoldReferences
PROPERTIES
  FirstTableDrains
  ImplementsNodeStore
  RehashEnds
