SPECIFICATION Spec
CONSTANTS
  Thread = {t1}
  Block = {b1, b2}
  Sizes = {4, 8}
  Nobody = Nobody
  Alignment = 8
  PREFIX_SIZE = 4
  MaxDrift = 8
  g_malloc_thread_safe = FALSE
CHECK_DEADLOCK FALSE
INVARIANT
  RecordsAllocatedBytes
