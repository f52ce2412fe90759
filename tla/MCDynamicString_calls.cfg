SPECIFICATION Spec
CONSTANTS
  String = {s1, s2}
  Byte <- Bytes
  NULL = NULL
  Junk = Junk
  Sources <- SomeSources
  Needs <- SomeNeeds
  MaxLength = 3
  SDS_MAX_PREALLOC = 3
  SIZEOF_SDS = 8
  INT_MAX = 15
SYMMETRY StringSymmetry
VIEW Visible
CHECK_DEADLOCK FALSE
INVARIANTS
  TypeOK
  SizesAddUp
PROPERTY
  ImplementsByteStrings
