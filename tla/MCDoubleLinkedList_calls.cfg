SPECIFICATION Spec
CONSTANTS
  List = {l1, l2}
  Node = {n1, n2, n3}
  Value = {v1, v2}
  NULL = NULL
  HasDuplicate = TRUE
  HasFree = TRUE
SYMMETRY NodeSymmetry
INVARIANTS
  TypeOK
  ListsAreWellLinked
  NodesAreOwnedOnce
  ValuesAreFreedWithNodes
  IterationMeetsEveryNodeOnce
PROPERTY
  ImplementsNodeSequences
