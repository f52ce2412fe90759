SPECIFICATION Spec
CONSTANTS
  Key <- FiveKeys
  Value = {v1}
  Unset = Unset
  NULL = NULL
  Hash <- IdentityHash
  TableSizes = {4, 8, 16}
  InitialSize = 4
  ForceResizeRatio = 5
  EmptyVisitsPerStep = 10
  RehashCounts = {}
  ExpandSizes = {}
  MaxNodes = 6
VIEW WithoutReply
CHECK_DEADLOCK FALSE
INVARIANT
  FindsEveryLinkedKey
