SPECIFICATION Spec
CONSTANTS
  String = {s1, s2}
  Byte <- Bytes
  NULL = NULL
  Junk = Junk
  Sources <- ShortSources
  Needs <- SomeNeeds
  MaxLength = 3
  SDS_MAX_PREALLOC = 3
  SIZEOF_SDS = 8
  INT_MAX = 15
VIEW Visible
CHECK_DEADLOCK FALSE
PROPERTY
  CompareReturnsItsSign
