----------------------------- MODULE FileBlocks -----------------------------
(***************************************************************************)
(* File data of src/fs/inode.c over the block bitmap of src/fs/cache.c:    *)
(* inode_map, inode_read, inode_write and inode_clear, with cache_alloc    *)
(* and cache_free.  Each call runs with the inode's sleep lock held inside *)
(* one log operation, and each bitmap update holds the bitmap block's     *)
(* sleep lock, so a call is one atomic step; its loops are RECURSIVE       *)
(* operators.  Blocks are seen as the block cache holds them: `data` as    *)
(* bytes, `addrs` as an IndirectBlock (both zeroed by cache_alloc).        *)
(*                                                                         *)
(* The inodes of Dirs are directories, written only by inode_insert and    *)
(* inode_remove.  sizeof(DirEntry) divides BLOCK_SIZE, so no entry spans   *)
(* two blocks, and one DirEntry is taken as one unit of `data`.  The      *)
(* zero unit, a zeroed byte or an all-zero DirEntry, is the model value  *)
(* Zero.                                                                   *)
(***************************************************************************)
EXTENDS Naturals, Sequences, SequencesExt, FiniteSets

CONSTANTS
  Files,               \* the (locked, valid) inodes being written
  Vals,                \* byte values clients write (zero excluded)
  Zero,                \* the all-zero unit: a zeroed byte or DirEntry
  BLOCK_SIZE,          \* bytes per block
  INODE_NUM_DIRECT,    \* direct addresses in an InodeEntry
  INODE_NUM_INDIRECT,  \* addresses in an IndirectBlock
  NBlocks,             \* sblock->num_blocks
  Reserved,            \* blocks mkfs marks used (boot, super, log, ...)
  MaxWrite,            \* bytes per inode_write call, at most
  Dirs,                \* the inodes of Files that are directories
  Names,               \* DirEntry names (none empty)
  DirInos              \* inode numbers inode_insert is given (none 0)

ASSUME Zero \notin Vals /\ 0 \in Reserved /\ Dirs \subseteq Files
       /\ 0 \notin DirInos

\* A DirEntry {name, inode_no}; memset(&entry, 0, ...) gives ZeroEntry.
DirEntries == [name : Names, inode_no : DirInos]
ZeroEntry == Zero

Blocks == 0 .. NBlocks - 1
Offs == 0 .. BLOCK_SIZE - 1
INODE_MAX_BYTES == (INODE_NUM_DIRECT + INODE_NUM_INDIRECT) * BLOCK_SIZE

ZeroData == [j \in Offs |-> Zero]
ZeroAddrs == [k \in 0 .. INODE_NUM_INDIRECT - 1 |-> 0]
EmptyEntry == [addrs |-> [k \in 0 .. INODE_NUM_DIRECT - 1 |-> 0],
               indirect |-> 0, num_bytes |-> 0]

VARIABLES
  bitmap,   \* bitmap blocks: bit b set iff block b is in use
  data,     \* block contents as bytes
  addrs,    \* block contents as an IndirectBlock
  entry,    \* Inode.entry of each file (in memory)
  dentry    \* its on-disk InodeEntry

vars == <<bitmap, data, addrs, entry, dentry>>

Entries == [addrs : [0 .. INODE_NUM_DIRECT - 1 -> Blocks], indirect : Blocks,
            num_bytes : 0 .. INODE_MAX_BYTES]

TypeOK ==
  /\ bitmap \in [Blocks -> BOOLEAN]
  /\ data \in [Blocks -> [Offs -> Vals \cup DirEntries \cup {Zero}]]
  /\ addrs \in [Blocks -> [0 .. INODE_NUM_INDIRECT - 1 -> Blocks]]
  /\ entry \in [Files -> Entries]
  /\ dentry \in [Files -> Entries]

\* A formatted disk with empty files.
Init ==
  /\ bitmap = [b \in Blocks |-> b \in Reserved]
  /\ data = [b \in Blocks |-> ZeroData]
  /\ addrs = [b \in Blocks |-> ZeroAddrs]
  /\ entry = [f \in Files |-> EmptyEntry]
  /\ dentry = entry

-----------------------------------------------------------------------------
(* The state one call works on: st = [bitmap, data, addrs, ent, ok], ent   *)
(* the inode's entry, ok FALSE once cache_alloc has PANICked.  Operators   *)
(* that may allocate return [st |-> new state, addr |-> block number].     *)

(* Mutation-testing variant of cache_alloc: the scan runs one bit past     *)
(* num_blocks.                                                             *)
cache_alloc_past_end(st) ==
  LET fr == {b \in 0 .. NBlocks : b = NBlocks \/ ~st.bitmap[b]} IN
  LET b == Min(fr) IN
  [st |-> [st EXCEPT !.bitmap[b] = TRUE, !.data[b] = ZeroData,
                     !.addrs[b] = ZeroAddrs],
   addr |-> b]

(* cache_alloc: the first clear bit of the bitmap is set, and that block   *)
(* is zeroed; no clear bit is PANIC().                                     *)
cache_alloc(st) ==
  LET fr == {b \in Blocks : ~st.bitmap[b]} IN
  IF fr = {} THEN [st |-> [st EXCEPT !.ok = FALSE], addr |-> 0]
  ELSE LET b == Min(fr) IN
       [st |-> [st EXCEPT !.bitmap[b] = TRUE, !.data[b] = ZeroData,
                          !.addrs[b] = ZeroAddrs],
        addr |-> b]

\* Entry slot k gets a block: the one there, or a fresh one stored into it.
DirectSlot(st, k) ==
  IF st.ent.addrs[k] # 0 THEN [st |-> st, addr |-> st.ent.addrs[k]]
  ELSE LET r == cache_alloc(st) IN
       [st |-> [r.st EXCEPT !.ent.addrs[k] = r.addr], addr |-> r.addr]

IndirectBlk(st) ==
  IF st.ent.indirect # 0 THEN [st |-> st, addr |-> st.ent.indirect]
  ELSE LET r == cache_alloc(st) IN
       [st |-> [r.st EXCEPT !.ent.indirect = r.addr], addr |-> r.addr]

IndirectSlot(st, ib, k) ==
  IF st.addrs[ib][k] # 0 THEN [st |-> st, addr |-> st.addrs[ib][k]]
  ELSE LET r == cache_alloc(st) IN
       [st |-> [r.st EXCEPT !.addrs[ib][k] = r.addr], addr |-> r.addr]

(* inode_map(ctx, inode, off): the block holding byte `off`, allocating    *)
(* the direct block, the indirect block and its slot as needed.            *)
inode_map(st, off) ==
  LET k == off \div BLOCK_SIZE IN
  IF k < INODE_NUM_DIRECT THEN DirectSlot(st, k)
  ELSE LET r == IndirectBlk(st) IN
       IndirectSlot(r.st, r.addr, k - INODE_NUM_DIRECT)

(* inode_map(NULL, inode, off): the same lookup without allocation; 0 for *)
(* an address not allocated.                                               *)
MapNoAlloc(ent, off) ==
  LET k == off \div BLOCK_SIZE IN
  IF k < INODE_NUM_DIRECT THEN ent.addrs[k]
  ELSE IF ent.indirect = 0 THEN 0
  ELSE addrs[ent.indirect][k - INODE_NUM_DIRECT]

\* Bytes of this iteration: what is left, up to the end of the block.
Chunk(off, left) ==
  LET room == BLOCK_SIZE - (off % BLOCK_SIZE) IN IF left < room THEN left ELSE room

(* Mutation-testing variant of WriteLoop: each chunk is copied to the    *)
(* start of its block, not to off % BLOCK_SIZE.                            *)
RECURSIVE WriteLoop_at_block_start(_, _, _)
WriteLoop_at_block_start(st, off, src) ==
  IF src = <<>> \/ ~st.ok THEN st
  ELSE LET r == inode_map(st, off)
           m == Chunk(off, Len(src))
           st2 == [r.st EXCEPT !.data[r.addr] =
                     [j \in Offs |-> IF j < m THEN src[j + 1] ELSE @[j]]]
       IN WriteLoop_at_block_start(st2, off + m, SubSeq(src, m + 1, Len(src)))

(* inode_write's loop: map, copy the chunk into the block, cache_sync.     *)
RECURSIVE WriteLoop(_, _, _)
WriteLoop(st, off, src) ==
  IF src = <<>> \/ ~st.ok THEN st
  ELSE LET r == inode_map(st, off)
           o == off % BLOCK_SIZE
           m == Chunk(off, Len(src))
           st2 == [r.st EXCEPT !.data[r.addr] =
                     [j \in Offs |-> IF o <= j /\ j < o + m THEN src[j - o + 1] ELSE @[j]]]
       IN WriteLoop(st2, off + m, SubSeq(src, m + 1, Len(src)))

(* inode_read's loop: count bytes from off of the file with entry ent.     *)
RECURSIVE ReadLoop(_, _, _)
ReadLoop(ent, off, count) ==
  IF count = 0 THEN <<>>
  ELSE LET b == MapNoAlloc(ent, off)
           o == off % BLOCK_SIZE
           m == Chunk(off, count)
       IN [j \in 1 .. m |-> data[b][o + j - 1]] \o ReadLoop(ent, off + m, count - m)

(* inode_read: clamp count to the file size, then read.                    *)
inode_read(ent, off, count) ==
  ReadLoop(ent, off, IF count + off > ent.num_bytes THEN ent.num_bytes - off ELSE count)

-----------------------------------------------------------------------------
\* The state inode_write's loop starts from, for file f.
Start(f) == [bitmap |-> bitmap, data |-> data, addrs |-> addrs,
             ent |-> entry[f], ok |-> TRUE]

\* Commit the loop's result for file f, with entry e and on-disk entry de.
Apply(f, st, e, de) ==
  /\ st.ok
  /\ bitmap' = st.bitmap /\ data' = st.data /\ addrs' = st.addrs
  /\ entry' = [entry EXCEPT ![f] = e]
  /\ dentry' = [dentry EXCEPT ![f] = de]

(* Mutation-testing variant of inode_write: the grown entry is not      *)
(* written back by inode_sync.                                             *)
inode_write_no_sync(f, off, src) ==
  LET st   == WriteLoop(Start(f), off, src)
      end  == off + Len(src)
      grow == Len(src) > 0 /\ st.ent.num_bytes < end
      e    == IF grow THEN [st.ent EXCEPT !.num_bytes = end] ELSE st.ent
  IN
  /\ off <= entry[f].num_bytes
  /\ off + Len(src) <= INODE_MAX_BYTES
  /\ Apply(f, st, e, dentry[f])

(* inode_write(ctx, f, src, off, count): the ASSERTs, the loop, then, if  *)
(* the file grew, num_bytes = end and inode_sync(ctx, inode, true).        *)
inode_write(f, off, src) ==
  LET st   == WriteLoop(Start(f), off, src)
      end  == off + Len(src)
      grow == Len(src) > 0 /\ st.ent.num_bytes < end
      e    == IF grow THEN [st.ent EXCEPT !.num_bytes = end] ELSE st.ent
  IN
  /\ off <= entry[f].num_bytes
  /\ off + Len(src) <= INODE_MAX_BYTES
  /\ Apply(f, st, e, IF grow THEN e ELSE dentry[f])

\* Blocks an entry points at: direct blocks, the indirect block, its slots.
Owned(e) ==
  ({e.addrs[k] : k \in DOMAIN e.addrs}
   \cup (IF e.indirect # 0 THEN {e.indirect} \cup Range(addrs[e.indirect]) ELSE {}))
  \ {0}

(* cache_free(ctx, b) for each block of S: its bit in the bitmap block is *)
(* cleared and the bitmap block synced.                                    *)
cache_free(bm, S) == [b \in Blocks |-> IF b \in S THEN FALSE ELSE bm[b]]

(* Mutation-testing variant of inode_clear: the indirect block itself is  *)
(* not given back.                                                         *)
inode_clear_keeps_indirect(f) ==
  LET e == entry[f] IN
  /\ bitmap' = [b \in Blocks |->
                  IF b \in Owned(e) \ {e.indirect} THEN FALSE ELSE bitmap[b]]
  /\ addrs' = IF e.indirect # 0 THEN [addrs EXCEPT ![e.indirect] = ZeroAddrs]
                                ELSE addrs
  /\ entry' = [entry EXCEPT ![f] = EmptyEntry]
  /\ dentry' = [dentry EXCEPT ![f] = EmptyEntry]
  /\ UNCHANGED data

(* inode_clear: cache_free every direct block, every block the indirect    *)
(* block names (zeroing its slots, then cache_sync) and the indirect block *)
(* itself; num_bytes = 0 and inode_sync(ctx, inode, true).                 *)
inode_clear(f) ==
  LET e == entry[f] IN
  /\ bitmap' = cache_free(bitmap, Owned(e))
  /\ addrs' = IF e.indirect # 0 THEN [addrs EXCEPT ![e.indirect] = ZeroAddrs]
                                ELSE addrs
  /\ entry' = [entry EXCEPT ![f] = EmptyEntry]
  /\ dentry' = [dentry EXCEPT ![f] = EmptyEntry]
  /\ UNCHANGED data

-----------------------------------------------------------------------------
\* A directory's DirEntry array, read through inode_read.
DirContent(ent) == inode_read(ent, 0, ent.num_bytes)

(* Mutation-testing variant of inode_lookup: the loop stops one entry     *)
(* short of num_bytes / sizeof(DirEntry).                                  *)
inode_lookup_skips_last(ent, name) ==
  LET es == SubSeq(DirContent(ent), 1, Len(DirContent(ent)) - 1)
      i  == SelectInSeq(es, LAMBDA e : e # ZeroEntry /\ e.name = name)
  IN  IF i = 0 THEN [inode_no |-> 0, index |-> 0]
      ELSE [inode_no |-> es[i].inode_no, index |-> i - 1]

(* inode_lookup(inode, name, &index): the first entry, in index order,    *)
(* whose name matches (strncmp); its inode_no and index, else 0.  A      *)
(* removed entry has the empty name and matches no name.                  *)
inode_lookup(ent, name) ==
  LET es == DirContent(ent)
      i  == SelectInSeq(es, LAMBDA e : e # ZeroEntry /\ e.name = name)
  IN  IF i = 0 THEN [inode_no |-> 0, index |-> 0]
      ELSE [inode_no |-> es[i].inode_no, index |-> i - 1]

(* inode_insert(ctx, dir, name, inode_no): -1, changing nothing, if the   *)
(* name is found; else the entry is appended by inode_write at num_bytes. *)
(* Removed slots are never reused.                                         *)
inode_insert(d, name, ino) ==
  /\ inode_lookup(entry[d], name).inode_no = 0
  /\ inode_write(d, entry[d].num_bytes, <<[name |-> name, inode_no |-> ino]>>)

(* inode_remove(ctx, dir, index): the entry at index is read, zeroed and  *)
(* written back by inode_write; num_bytes is left as it is.                *)
inode_remove(d, index) == inode_write(d, index, <<ZeroEntry>>)

Next ==
  \E f \in Files :
    \/ inode_clear(f)
    \/ /\ f \notin Dirs
       /\ \E off \in 0 .. INODE_MAX_BYTES, n \in 1 .. MaxWrite :
            \E src \in [1 .. n -> Vals] : inode_write(f, off, src)
    \/ /\ f \in Dirs
       /\ \E name \in Names, ino \in DirInos : inode_insert(f, name, ino)
    \/ /\ f \in Dirs
       /\ \E index \in 0 .. entry[f].num_bytes - 1 : inode_remove(f, index)

Spec == Init /\ [][Next]_vars

-----------------------------------------------------------------------------
\* Each regular file's bytes as inode_read returns them.
RegularContent == [f \in Files \ Dirs |-> inode_read(entry[f], 0, entry[f].num_bytes)]

Store == INSTANCE FileStore WITH content <- RegularContent, Files <- Files \ Dirs,
                                 MaxBytes <- INODE_MAX_BYTES

(* inode_write and inode_clear implement FileStore for regular files:    *)
(* reading a file back through inode_map gives the bytes written, at the  *)
(* offsets written, with the size the writes extended it to, across       *)
(* direct and indirect blocks, while directories share the disk.          *)
FileData == Store!Spec

(* The bitmap accounts for every block exactly once: a block is marked in *)
(* use iff mkfs reserved it or exactly one pointer of one file names it.   *)
NumPointers(e) ==
  Cardinality({k \in DOMAIN e.addrs : e.addrs[k] # 0})
  + (IF e.indirect # 0
       THEN 1 + Cardinality({k \in DOMAIN ZeroAddrs : addrs[e.indirect][k] # 0})
       ELSE 0)

BlocksAccounted ==
  /\ \A f \in Files : Cardinality(Owned(entry[f])) = NumPointers(entry[f])
  /\ \A f, g \in Files : f # g => Owned(entry[f]) \cap Owned(entry[g]) = {}
  /\ \A b \in Blocks :
       bitmap[b] <=> b \in Reserved \/ \E f \in Files : b \in Owned(entry[f])

(* The on-disk inode is current after every call: each change inode_map   *)
(* makes to the entry (a new block address) reaches the disk through      *)
(* inode_sync, so a later inode_lock reloads the same entry.               *)
DiskEntryCurrent == dentry = entry

(* Each directory as a name -> inode_no map, read off its live entries    *)
(* (the earliest, if a name had several), independently of inode_lookup.  *)
DirMap ==
  [d \in Dirs |->
     LET c == DirContent(entry[d]) IN
     [n \in Names |->
        LET live == {i \in DOMAIN c : c[i] # ZeroEntry /\ c[i].name = n} IN
        IF live = {} THEN 0 ELSE c[Min(live)].inode_no]]

Dir == INSTANCE Directory WITH dir <- DirMap, InodeNos <- DirInos

(* inode_lookup, inode_insert and inode_remove implement a map from names *)
(* to inode numbers: an insert of a name lookup finds is refused, so after *)
(* any sequence of inserts, removes (of an index lookup returned) and     *)
(* clears, each name maps to the inode it was last inserted with, until   *)
(* it is removed.  A lookup that missed an entry would let a second entry *)
(* of one name in, which a later remove of the first would uncover.       *)
DirectoryMap == Dir!Spec
=============================================================================
