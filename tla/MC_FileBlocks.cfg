\* Two files over a disk with one reserved block and three free ones: one
\* direct and one indirect address per file (4 bytes) need up to three
\* blocks, so one file can use the indirect block, two files together run
\* the disk out (cache_alloc PANICs), and a cleared file's blocks are
\* reused by the other.  f2 is a directory of up to four entries under one
\* name, so entries are removed, re-inserted after a tombstone, and a full
\* directory refuses (the inode_write ASSERT) a fifth.
CONSTANTS
  Files = {f1, f2}
  Vals = {v1, v2}
  Zero = Zero
  BLOCK_SIZE = 2
  INODE_NUM_DIRECT = 1
  INODE_NUM_INDIRECT = 1
  NBlocks = 4
  Reserved = {0}
  MaxWrite = 2
  Dirs = {f2}
  Names = {n1}
  DirInos = {1, 2}

SPECIFICATION Spec

INVARIANT TypeOK
INVARIANT BlocksAccounted
INVARIANT DiskEntryCurrent
PROPERTY FileData
PROPERTY DirectoryMap
