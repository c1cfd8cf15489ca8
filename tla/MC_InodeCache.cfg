CONSTANTS
  Threads = {t1, t2}
  MaxInode = 3
  NPages = 2
  ChunksPerPage = 2
  MaxRequest = 2048
  MaxLinks = 1
  UnloadedPut = FALSE
  NFILE = 2
  None = None

SPECIFICATION Spec

INVARIANT TypeOK
INVARIANT RefCountExact
INVARIANT OneInodePerNumber
INVARIANT LoadedEntryMatchesDisk
INVARIANT ChunksAccounted
PROPERTY InodeLifecycle
PROPERTY LinkedInodesSurvive
