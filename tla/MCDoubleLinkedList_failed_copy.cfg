SPECIFICATION Spec
CONSTANTS
  List = {l1, l2}
  Node = {n1, n2}
  Value = {v1}
  NULL = NULL
  HasDuplicate = TRUE
  HasFree = TRUE
CHECK_DEADLOCK FALSE
INVARIANT
  FailedCopyIsNull
