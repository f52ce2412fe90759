SPECIFICATION FairSpec
CONSTANTS
  Thread = {t1, t2}
  Block = {b1, b2}
  Sizes = {4, 8}
  Nobody = Nobody
  Alignment = 8
  PREFIX_SIZE = 4
  MaxDrift = 8
  g_malloc_thread_safe = TRUE
CHECK_DEADLOCK FALSE
INVARIANTS
  TypeOK
  NoUpdateIsLost
  CounterErrsByPadding
PROPERTIES
  MutexIsUnlocked
