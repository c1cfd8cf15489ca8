# TLA+ models of the OS-23Fall-FDU kernel

This directory holds TLA+ specifications of the concurrent, crash-prone parts
of the kernel under `src/`, together with the TLC configurations that check
them. Every action is translated from the C source. `PROJECT.json` maps each
definition to the lines it models (`map`). It also lists the runs, the
mutants that show each checked property can fail, the findings and the
hazards.

## The system and how its parts interact

| Part | Source | Shared state | Concurrency |
|---|---|---|---|
| SD request queue | `driver/sd.c` | `buf_queue`, the card's command and `EMMC_INTERRUPT`, `buf.flags`, `buf.done` | callers of `sdrw` on several CPUs; `sd_intr` in interrupt context |
| Block cache | `fs/cache.c` 113-191 | LRU list `head`, `Block.{block_no,acquired,valid,pinned}`, per-block sleep lock | kernel threads; spinlock `lock` |
| Write-ahead log | `fs/cache.c` 193-350 | `header`, `log.{outstanding,committing}`, log area and home blocks on disk | threads inside ops; a committer; crashes |
| Bitmap allocator | `fs/cache.c` 353-388 | bitmap blocks | runs inside an op |
| Inode layer | `fs/inode.c` | inode list, `rc`, sleep locks, `entry` | threads; uses the cache and log |
| File table, pipes | `fs/file.c`, `fs/pipe.c` | `ftable`, pipe ring | threads; semaphores |
| Processes, scheduler | `kernel/proc.c`, `sched.c` | process tree, `childexit`, run queue | CPUs; `treelock`, sched lock |
| Kernel allocator | `kernel/mem.c` | `memory_table` free lists, the page queue | callers on any CPU; `mem_lock`, `page_lock` |
| Paging, console | `kernel/pt.c`, `paging.c`, `console.c` | page refcounts, page tables, input ring | CPUs, the UART interrupt |

The file layer calls the inode layer. The inode layer calls the cache's
`begin_op`, `acquire`, `sync`, `release` and `end_op`. The cache reads and
writes blocks through the block device, which is `sdrw` underneath. The
hard behaviours are:

- threads interleaving on the cache list between the spinlock and the
  sleep locks;
- ops overlapping a group commit;
- power loss between any two device writes of a commit;
- an interrupt handler racing the callers that fill its queue.

## Modules

**`WAL.tla`** models the write-ahead log of `cache.c`.
- Disk state: `diskHome` (home blocks), `diskLog` (log slots) and `diskHdr`
  (the on-disk header).
- Memory state: `cache` (cached contents), `pinned`, `header`,
  `outstanding`, `committing`, and `rm` (each op's remaining quota).
- Control state: `phase` (none / copy / install / replay) and `tail` (the
  loop index of `commit` and `recover_from_log`).
- Actions:
  - `begin_op`: the admission check at line 246, blocked while committing.
  - `sync`: pin the block and append it to the header unless it is absorbed.
  - `end_op`: the last op out sets `committing`.
  - `commit_copy`, `commit_header` (the commit point), `commit_install` and
    `commit_clear`: the loops of `commit`.
  - `recover_install` and `recover_clear`: `recover_from_log` at boot.
  - `Crash`: volatile state reset as `init_bcache` leaves it.

**`WALWriteThrough.tla`** extends `WAL` with one more client step,
`sync_no_ctx`: `cache_sync(NULL, b)`, which `inode_map` issues from
`inode_read`. It writes the cached block straight home. `SpecWT` is the
log with that client.

**`AtomicStore.tla`** is the abstract promise of the log. A store has a
durable view and a volatile view. While unsealed it takes writes. While
sealed, one `Commit` step makes everything durable. A crash drops the
volatile view. `WAL` instantiates it with this mapping:
- `durable` is what `recover_from_log` would produce from the disk now
  (`Replayed`);
- `latest` is the cache (the durable view while recovery runs);
- `sealed` is `committing`.

The property `AtomicDurability == Store!Spec` checks this refinement.

**`BlockCache.tla`** models `cache_acquire` and `cache_release` over the
LRU list.
- `acquire` covers the hit, reuse and new-block paths, up to the moment the
  spinlock is dropped.
- `lock_hit`, `lock_miss` and `lock_new` take the sleep lock and read the
  block. The new-block path inserts at the LRU end.
- `release` drops the sleep lock.
- `relink` clears `acquired`, detaches the block, and evicts it or
  reinserts it at the head. It evicts when `get_num_cached_blocks`, the
  length of the list left after the detach, exceeds the threshold.
- `pin` and `unpin` stand for the log's `cache_sync` and install. They are
  bounded by `MaxPinned`.
- Block structs are the slots `1..NSlots`. A slot that is neither listed
  nor being set up is free memory.

**`SDQueue.tla`** models `sdrw`, `sd_start` and `sd_intr`.
- Each caller owns one buf.
- `sdrw_push` tests for an empty queue and pushes, under `queue_lock`.
  Only a caller that found the queue empty goes on to `sdrw_start` and
  `sdrw_wait`.
- The card (`card`, `irq`) serves one command at a time. `card_answer`
  ends it and raises its interrupt: `INT_READ_RDY` for a read (the
  `INT_DATA_DONE` that follows is polled by `sd_intr`), `INT_DATA_DONE`
  for a write. The interrupt stays pending until `sd_intr` clears it.
- `sd_start(b, f, pending)` PANICs (`panicked`) if an interrupt is pending
  (lines 122-126). What `sdSendCommandA` does on a busy card is not in
  the repository. The model lets it fail, so `sd_start` PANICs (135-138);
  a second command never overtakes the first.
- The handler is two steps under `sdlock`:
  - `sd_intr` reads and clears the interrupt and acts on the queue front,
    whichever command the interrupt answers: it completes (flag, pop,
    post), restarts a read buf on a write answer, or skips;
  - `sd_intr_next` starts the new front.
  The split is needed because a push, which holds the other lock, can fall
  between them.
- `answeredBy` records, for every completion, the buf whose command the
  answer was for.

**`KAlloc.tla`** models the small-object allocator of `mem.c`. It has no
variables. Its operators are used by the module that allocates.
- Size classes: `get_lowest_pow` and `pow` are `RECURSIVE` translations of
  their loops. `BlockSizeOf` is kalloc's rounding (at least 8 bytes), and
  `CarvedOffsets` is the loop that carves a fresh page after its 64-byte
  `PageHeader`.
- `ASSUME SizeClassExact` checks these against their reference
  definition, the least power of two that holds the request, for every
  request up to `MaxRequest` = 2048 bytes. It also checks that a fresh
  page holds at least one block. TLC evaluates it at the start of every
  run of `InodeCache`. At 2049 bytes it fails: class 12 (4096 bytes)
  fits no block after the header, so `pop_memory` would dereference NULL.
  This is listed as a hazard.
- Free lists: one class's `memory_table` entry is a sequence, head first.
  `add_memory` and `kfree` push; `pop_memory` pops. `Carve` is kalloc's
  loop of `add_memory` over a page's blocks in address order, so the
  highest block comes first. `KallocList` refills an empty list from a
  fresh page before the pop.

**`InodeCache.tla`** models the in-memory inode table of `inode.c`.
- Disk state: each inode's type and `num_links` (`dtype`, `dlinks`).
- Memory state: the `Inode` structs (slots), with the list `head`
  (`listed`), `inode_no`, `rc`, `valid`, the cached entry (`etype`,
  `elinks`) and the sleep-lock `owner`. The slots are the blocks of the
  `Inode` size class. `free` is that class's `memory_table` list and
  `pages` the pages it has not carved. `kalloc` (in `inode_get`) pops,
  after `kalloc_page` takes a page when the list is empty; `Reclaim`
  kfrees.
  `init_inode` does not reset `entry`, so a reused struct keeps the old
  entry, and a fresh one is zero (kalloc_page zeroes its page).
- Clients: each thread holds at most one reference (`ref`).
- Actions: `inode_alloc`, `inode_get` (hit or new struct), `inode_share`,
  `inode_lock` (loads the entry when not valid), `inode_unlock`,
  `set_links` (a lock holder changes `num_links` and calls
  `inode_sync(ctx, inode, true)`), and `inode_put`, which either drops
  `rc` or, for the last reference to an unlinked inode, clears the inode,
  marks it `INODE_INVALID` on disk and frees the struct (`Reclaim`).
- The constant `UnloadedPut` says whether a client may put an inode it
  never locked.
- The global file table of `file.c` is composed in. A `struct file` of
  type `FD_INODE` holds an inode reference (`f->ip`) exactly as a thread
  does, so `ref` maps threads and files alike and `rc` counts both.
  - `file_open` is `file_alloc` with its caller's part: the first entry
    with `ref == 0` gets `ref = 1` and takes over the caller's inode
    reference.
  - `file_dup` adds one to `f->ref` only while it is below `NFILE`, as
    the code does.
  - `file_close` drops `f->ref`. At zero it calls `inode_put` with the
    file as the holder, in the same step, because everything runs under
    `ftable.lock`.
  - Pipes and file offsets are left out.

**`InodeTable.tla`** is the abstract promise of the inode layer
(`spec.md`, 4.4, the inode lifecycle). It holds only which inode number
each client holds (`holds`, 0 for none) and the on-disk type and link
count. Its actions are `Alloc`, `Get`, `Share`, `Transfer` (a thread's
reference taken over by a file), `SetLinks` and `Put`. `Put` releases the
inode on disk exactly when its link count is 0 and no other client holds
it. There are no structs, no list, no locks and no memory. `InodeCache`
maps each thread and each file to the number of the `Inode` it references
(`InodeOf`). `InodeLifecycle == Table!Spec` checks that the cache, the
allocator and the file table together implement this promise. The
struct a reference goes through, and which struct `kalloc` hands out,
make no difference to it.

**`FileBlocks.tla`** models the file data of `inode.c` over the bitmap of
`cache.c`.
- State: the bitmap, block contents seen as bytes (`data`) or as an
  `IndirectBlock` (`addrs`), each file's in-memory entry and its on-disk
  copy (`dentry`).
- `cache_alloc`, `inode_map` (direct block, indirect block, indirect slot,
  each allocated on demand) and the loops of `inode_read` and
  `inode_write` are operators over a record of that state. The loops are
  `RECURSIVE`.
- Actions: `inode_write`, which runs the loop, grows `num_bytes` and syncs
  the entry, and `inode_clear`, which frees every block through
  `cache_free` (it clears the block's bitmap bit). Each runs inside
  one op with the inode locked, so it is one step. When `cache_alloc`
  PANICs, the step does not happen.
- Directories: the inodes in `Dirs` are written only by `inode_insert`
  and `inode_remove`. `sizeof(DirEntry)` divides `BLOCK_SIZE`, so one
  `DirEntry` record is one unit of `data`. The all-zero unit (a zeroed
  byte, or the entry `inode_remove` memsets) is the model value `Zero`.
  - `inode_lookup` reads the entries through `inode_read` and returns the
    first live one with the name, as the loop does.
  - `inode_insert` is refused when lookup finds the name. Otherwise it
    appends through `inode_write` at `num_bytes`, so a full disk or a full
    directory (the `inode_write` ASSERT) stops it.
  - `inode_remove` writes `Zero` over one entry. Its tombstone is never
    reused.
  - `namex` is an unimplemented stub in the source (it returns 0), so
    `namei`, `nameiparent` and `skipelem` are not modelled.

**`FileStore.tla`** is what the inode layer promises about file data: a
file is a byte sequence that a write overwrites and extends, and a clear
empties. `FileBlocks` maps each regular file to what `inode_read` returns
for it, and `FileData == Store!Spec` checks the refinement.

**`Directory.tla`** is what `inode.h` promises of a directory: a map from
names to inode numbers. An insert adds an absent name, a remove drops a
present one, and a clear empties the map. `FileBlocks` maps each directory
to the map its live entries give. That mapping reads the entries itself and
does not call `inode_lookup`. `DirectoryMap == Dir!Spec` checks the
refinement.

**`Sched.tla`** models the scheduler of `sched.c`.
- State: each proc's `state`, the `runnable_queue` in list order, and
  each CPU's `thisproc` (`Idle` for its idle proc).
- Actions: `activate` (`_activate_proc`, with `onalert` for `alert_proc`)
  and `sched` (`simple_sched`: `update_this_state`, then `pick_next`, then
  the picked proc runs). `interrupt` is `sched(c, RUNNABLE)`, the timer
  handler. Sleeping (`wait_sem`) and exiting are `sched` with `SLEEPING`,
  `DEEPSLEEPING` or `ZOMBIE`. Each action runs under the one sched lock,
  so each is one step.
- `common/list.c` is not in the repository, so `_insert_into_list` may
  link a proc at either end of the list.

**`ProcTree.tla`** models the process tree of `proc.c`.
- State: each proc slot's `state` (`st`), `parent`, `pid` and `killed`,
  the `childexit` semaphore as a count (`sem`), the pid bitmap as a set
  (`pidMap`) with `last_pid`, the program point of `exit` and `wait`
  (`pc`), and the proc a creator holds between `create_proc` and
  `start_proc` (`made`).
- `get_pid` is the next-fit scan from `last_pid + 1` with its wrap to 0,
  written with the `RECURSIVE` operator `ScanPid`; `NextFitRef` is a
  set-based reference definition of the same choice.
- Actions: `create_proc` (with `init_proc` and `get_pid`),
  `set_parent_to_this`, `start_proc` (a parentless proc goes to
  `root_proc`), `exit` as two steps (`exit_tree` under `treelock`:
  reparent the children to root, post root once per zombie child, post the
  parent; then `exit_sched`, the `_sched(ZOMBIE)`), `wait` as four steps
  (`wait_check`, `wait_sem`, `wait_reap` which frees the zombie and its
  pid, `wait_panic`), and `kill`, which finds the pid with the recursive
  `Subtree` (`dfs_tree`).
- `wait_sem` returns false for a killed waiter; `wait` only logs that and
  scans its children anyway, as the code does.
- A PANIC halts the kernel: every action is disabled once a proc is at
  `panic`.

## Runs

| Run | Config | Expect | What it shows |
|---|---|---|---|
| `wal_safety` | `MC_WAL.cfg` | pass | See below. About 240k states. |
| `wal_write_through` | `MC_WAL_writethrough.cfg` | violation | Under `SpecWT`, `cache_sync(NULL, b)` from `inode_read` writes a pinned, uncommitted block home. After a crash the disk holds half an op. |
| `cache_pinned` | `MC_BlockCache.cfg` | pass | Eviction and reuse never drop or rename a pinned block (an action property). |
| `cache_identity` | `MC_BlockCache_BlockIdentity.cfg` | violation | The cache's identity contract (one copy per block number, and a holder holds that copy) breaks. TLC's shortest trace is the `acquired` flag: a release clears it under a second holder and the block is reused for another number while held. Two concurrent misses on one number (the new-block path drops the spinlock before listing the block) break the same invariant through its other conjunct. |
| `sd_stale_answer` | `MC_SDQueue.cfg` | violation | `AnswerMatchesBuf`: `sd_intr` completes a buf only on the answer to that buf's own command. TLC finds a 13-step trace. A push falls between `sd_intr`'s pop and its restart, so `sd_intr` starts and completes b2 before b2's own `sdrw` gets `sdlock` and starts it again on the idle card. b3 is then pushed, and the stale answer completes b3 with b2's block (line 200). |
| `sd_return_early` | `MC_SDQueue_return.cfg` | violation | `sdrw` returns before its I/O is done when the queue was not empty (line 283). |
| `inode_cache` | `MC_InodeCache.cfg` | pass | Clients that lock before they put, and that open, dup and close files. `rc` equals the number of holders (threads and open files), one `Inode` per number, a loaded entry matches the disk, and a linked inode is never freed. `InodeLifecycle`: the whole implements `InodeTable`, so an on-disk inode is released exactly when the last reference to an unlinked inode is put. `ChunksAccounted`: every block of a carved page is on the free list exactly once or is a listed `Inode`, never both, and no block of an uncarved page is used. About 118k states. |
| `use_after_free` | `MC_InodeCache_unloaded.cfg` | violation | `NoUseAfterFree`: nothing a client can still reach is freed. Two bugs each violate it, and each was also checked alone. (1) `inode_get` then `inode_put` without a lock: `inode_put` reads a `num_links` that was never loaded (zero) and frees the linked root inode. TLC reports this one, the shorter. (2) With `NFILE = 1` and two holders, `file_dup` stops counting, so `file_close` frees a file the other thread still holds. |
| `file_blocks` | `MC_FileBlocks.cfg` | pass | A regular file and a directory share the disk. The file reads back as FileStore says. The directory's inserts and removes behave as a name-to-inode map (`DirectoryMap`). Every block is owned once and the bitmap agrees, and the on-disk entry stays current. |
| `proc_tree` | `MC_ProcTree.cfg` | pass | Create, start, exit, wait and kill in any order, up to the wait PANIC. `get_pid` agrees with a set-based next-fit definition, pids are unique and the pid map holds exactly the pids of allocated procs, and an allocated proc's parent is root or a live proc not yet exiting. About 1.6M states. |
| `sched_starvation` | `MC_Sched_starvation.cfg` | violation | One CPU, three procs. `pick_next` returns the first RUNNABLE proc of the list (it breaks before its `cnt` comparison), and a proc interrupted by its timer keeps its place, so it is re-picked every time and the procs behind it never run. With the interrupted proc moved to the tail of the list instead, the same configuration satisfies `StarvationFree`. |
| `proc_wait_panic` | `MC_ProcTree_panic.cfg` | violation | `exit` posts the parent's `childexit` (line 114) before `_sched(ZOMBIE)` (117). The parent's `wait` wakes, finds no zombie and PANICs (153). |

`wal_safety` covers two threads, two crashes and every commit phase. It
checks the following:
- every commit is all or nothing across crashes (refinement of
  AtomicStore);
- the header plus the reserved quota never exceeds `LOG_MAX_SIZE`;
- no op runs during a commit;
- a block is pinned exactly while it awaits installation;
- unpinned cached blocks equal the disk.

Every property of a passing run has a mutant in `PROJECT.json`. The mutant
is an operator defined just before the action it replaces, and it mimics a
plausible bug: a dropped quota reservation, an ignored `committing`, a pin
never cleared, an install never written, a log copy taken from the disk
instead of the cache, eviction of a pinned block, a struct never looked up, a
missing load, a scan one bit past the bitmap, a chunk copied to the wrong
offset. TLC finds the property violated under
the run's own configuration.

## Bounds

**WAL**
- Two threads and three blocks.
- Two values per block.
- `LOG_MAX_SIZE = 4` with `OP_MAX_NUM_BLOCKS = 2`: two ops can be admitted
  together, and a third must wait.
- Two crashes: enough to crash during recovery after a crash during a
  commit.

**BlockCache**
- Two threads and two block numbers.
- Four slots with `EVICTION_THRESHOLD = 1`, so all three acquire paths
  occur and eviction happens.
- One pinned block at a time.

**SDQueue**
- Three bufs, one request each. Two bufs make a push between pop and
  restart possible, which starts the same buf twice (`sd.c` 279). The
  third is the buf that the stale answer completes.
- There is no SD pass run. With the card modelled as the code drives it,
  every bound at which two callers overlap reaches a PANIC or a stale
  answer. So properties such as "requests complete in push order" or
  "every waiting caller is woken" would only restate the model, or they
  fail on those two bugs first.

**InodeCache**
- Two threads, two file-table entries and three inode numbers (inode 1
  starts linked). Two threads and two files are four holders, so three
  `Inode` structs can be live at once. The `Inode` class has two pages of
  two blocks (`NPages`, `ChunksPerPage`), so the list runs empty while
  the first page's blocks are in use, a second page is carved, and a
  freed struct is reused for another number. With three threads and
  three entries the run reaches 2.2M states, and checking the refinement
  there takes about 14 minutes. It passes at that size too, but that is
  too slow for a routine run.
  The real 256-byte class holds 15 blocks per page. Two suffice, because
  a carve happens only when the list is empty, whatever the page size.
- `MaxRequest = 2048`: the largest size for which `SizeClassExact` holds.
- `num_links` up to 1: enough to link and unlink.
- `NFILE = 2` in the pass run: as many entries as threads, so every
  thread can open its own file, and `file_dup`'s cap is never reached.
  At the cap, `f->ref` stops counting holders (`file.c` 48). The pass run
  therefore states nothing about `f->ref` on its own. The violation run
  `use_after_free` uses `NFILE = 1` with two threads, where the cap is
  reached and a held file is freed.

**ProcTree**
- Root and three procs, `MAX_PID = 4` and at most five creations: enough
  for a grandchild to be reparented to root when its parent exits, for
  pids to be released and reused, and for `get_pid` to wrap.
- The PANIC run uses one proc and two pids, the smallest case where the
  early post happens.
- `MAX_PID` exceeds the number of procs, as it does in the kernel, so
  `get_pid` never returns -1.

**Sched**
- One CPU and three procs: more runnable procs than CPUs, which is when
  `pick_next`'s choice matters. The state space is finite without
  bounds (256 states).

**FileBlocks**
- Two files: `f1` regular, with two byte values, and `f2` a directory,
  with one name and two inode numbers. One name suffices for the
  directory's hazard: an entry, a removal, a re-insert after the tombstone
  and a duplicate that a short lookup would let in. Two names took 12
  minutes, because the refinement mapping reads every directory per name.
  Four units fill the directory, so a full directory is reached.
- `BLOCK_SIZE = 2`, one direct and one indirect address: 4 bytes per file,
  so writes cross blocks and reach the indirect block.
- Four blocks, one reserved: three blocks fill one file, and two files run
  the disk out, so `cache_alloc` PANICs and freed blocks are reused.
- At most 2 bytes per write.

## Fairness

- `Sched` assumes weak fairness of each CPU's timer interrupt:
  `update_this_proc` arms the picked proc's timer (the idle proc's too),
  so a running CPU is always interrupted again. Nothing else is fair.
  Activations come from other components (start_proc, post_sem, kill).
- `WAL`, `BlockCache`, `InodeCache`, `FileBlocks` and `ProcTree` state
  safety only,
  so they assume no fairness.
- `SDQueue` checks safety only, so it assumes no fairness. Its
  configurations turn deadlock checking off, because the driver really
  stops once its bounded callers are done, and a PANIC stops it too.

## Not modelled (yet), and the plan

The order below is by how much of the system's correctness depends on each
part:

1. **WAL liveness.** Add to the WAL run: group commit should commit
   eventually under fairness of `end_op`.
2. **Directories.** Done in `FileBlocks` and `Directory`. The path walk
   (`namex`) is a stub in the source. No run asks whether an insert
   succeeds while tombstones are free, because reclaim is a policy the
   spec leaves open.
3. **Composition.** The inode layer's writes going through the WAL's
   `sync` inside one op (the op size of `inode_write` against
   `OP_MAX_NUM_BLOCKS`).
4. **Processes.** Done in `ProcTree`, except: the lost wakeup of
   `exit` (a child that posted its old parent but is not yet a zombie is
   handed to root without a post, line 107) is a liveness hazard with the
   same cause as the PANIC and has no run of its own; `fork` is an empty
   TODO in the source; the scheduler is the separate `Sched` module, and the two are not
   composed.
5. **Pipes.** `pipeWrite` and `pipeRead` sleep in `wait_sem` while holding
   `pi->lock`.
6. **File table.** `file_alloc`, `file_dup` and `file_close` are part of
   `InodeCache`. Still open: `file_read` and `file_write` update `f->off`
   outside any lock; `file_close` calls `begin_op` under the ftable
   spinlock; `file_write` puts `n` bytes into one op (the composition
   with the log).
7. **Console.** The console input ring indices (`console_read` reads
   `r+1`).
8. **Memory allocator.** `KAlloc` and `InodeCache` model one size class,
   and the `Inode` structs allocated from it. Still open:
   - The other classes and their users. The `Block` structs were composed
     into `BlockCache`. That composition cannot be a pass run:
     `cache_acquire`'s hit path sets `acquired` without waiting. So a
     concurrent `cache_release` can evict and kfree a block that the
     hitting thread then releases and kfrees again. `kfree` does not detect
     this, the struct is handed to two blocks, and the free list grows
     without bound. The race itself is the `cache_identity` finding.
   - Requests over 2048 bytes, where `SizeClassExact` fails. Whether any
     caller makes one depends on `sizeof(struct proc)`, which embeds
     `struct oftable` from `file.h`. That header is not in the repository.
   - `alloc_page_cnt` and the page refcounts (`ref_page`, `kfree_page`),
     which serve only paging, and paging is not modelled.

Not planned:
- page-table walking in `pt.c`, which is address arithmetic over 512-entry
  tables;
- syscall dispatch, which is a table lookup;
- the EMMC register protocol and `sd_init`, which are a sequential
  hardware bring-up.

Out of scope: the sleep lock, semaphore and spinlock implementations, which
are not under `src/`. They are taken to behave as their names say. The one
exceptions are the double `_release_spinlock(&sdlock)` at `sd.c`
243/251 and the double release of `treelock` by `dfs_tree` and `kill`
(`proc.c` 165/188), which are recorded as hazards.
