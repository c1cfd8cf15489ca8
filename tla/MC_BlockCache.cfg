CONSTANTS
  Threads = {t1, t2}
  Blocks <- MC_Blocks
  NSlots = 4
  EVICTION_THRESHOLD = 1
  MaxPinned = 1
  None = None

SPECIFICATION Spec

INVARIANT TypeOK
PROPERTY PinnedStaysCached
