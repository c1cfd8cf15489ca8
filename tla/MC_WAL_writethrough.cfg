CONSTANTS
  Threads = {t1, t2}
  Blocks <- MC_Blocks
  Vals <- MC_Vals
  V0 = 0
  LOG_MAX_SIZE = 4
  OP_MAX_NUM_BLOCKS = 2
  MaxCrashes = 2

SPECIFICATION SpecWT

PROPERTY AtomicDurability
