SPECIFICATION Spec
CONSTANTS
  Object <- TwoObjects
  Freed = Freed
  MaxHeld = 2
  Node = {n1, n2, n3, n4}
  HeadNode = HeadNode
  Score = {1, 2}
  Name <- Names
  NULL = NULL
  SKIP_LIST_MAX_LEVEL = 3
SYMMETRY NodeSymmetry
INVARIANTS
  TypeOK
  SpansMeasureRanks
  LevelsAgree
  ReferencesAreCounted
PROPERTY
  ImplementsSortedItems
