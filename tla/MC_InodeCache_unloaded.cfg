CONSTANTS
  Threads = {t1, t2}
  MaxInode = 2
  NPages = 1
  ChunksPerPage = 2
  MaxRequest = 2048
  MaxLinks = 1
  UnloadedPut = TRUE
  NFILE = 1
  None = None

SPECIFICATION Spec

PROPERTY NoUseAfterFree
