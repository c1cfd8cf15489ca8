-------------------------------- MODULE WAL --------------------------------
(***************************************************************************)
(* The write-ahead log of src/fs/cache.c: cache_begin_op, cache_sync,      *)
(* cache_end_op, commit, recover_from_log and init_bcache, with crashes    *)
(* between any two device writes.                                          *)
(*                                                                         *)
(* The block cache is abstracted to one in-memory copy per home block      *)
(* (`cache`) plus its `pinned` flag; eviction of an unpinned block and its *)
(* reload from disk is a no-op at this level, which CacheCoherent checks.  *)
(* A cached log block always holds what was last written to that log slot *)
(* on disk (commit writes it through at once), so `diskLog` stands for it. *)
(* A client step sync(t, b, v) is the caller's pattern                     *)
(* acquire(b); modify data; cache_sync(ctx, b); release(b).                *)
(***************************************************************************)
EXTENDS Naturals, Sequences, SequencesExt, FiniteSets

CONSTANTS
  Threads,            \* kernel threads running file-system operations
  Blocks,             \* home block numbers written through the log
  Vals,               \* block contents, abstracted to a small set
  V0,                 \* contents of every block of a freshly made disk
  LOG_MAX_SIZE,       \* entries of LogHeader.block_no
  OP_MAX_NUM_BLOCKS,  \* log quota of one op (OpContext.rm)
  MaxCrashes          \* bound on crashes in one behaviour

ASSUME /\ V0 \in Vals
       /\ OP_MAX_NUM_BLOCKS \in 1..LOG_MAX_SIZE
       /\ MaxCrashes \in Nat

LogSlots == 0 .. LOG_MAX_SIZE - 1   \* slot i lives at log_start + 1 + i

VARIABLES
  diskHome,     \* on disk: home location of every block
  diskLog,      \* on disk: log data blocks
  diskHdr,      \* on disk: the log header (block_no[0..num_blocks))
  cache,        \* in memory: cached contents of every home block
  pinned,       \* in memory: Block.pinned
  header,       \* in memory: the static LogHeader header
  outstanding,  \* log.outstanding
  committing,   \* log.committing
  phase,        \* where the committer (or boot-time recovery) is
  tail,         \* loop index of commit / recover_from_log
  pc,           \* per thread: "idle" or inside an op
  rm,           \* per thread: OpContext.rm
  crashes       \* crashes so far (bounded by MaxCrashes)

vars == <<diskHome, diskLog, diskHdr, cache, pinned, header, outstanding,
          committing, phase, tail, pc, rm, crashes>>

Phases == {"none", "copy", "install", "replay"}

TypeOK ==
  /\ diskHome \in [Blocks -> Vals]
  /\ diskLog \in [LogSlots -> Vals]
  /\ diskHdr \in BoundedSeq(Blocks, LOG_MAX_SIZE)
  /\ cache \in [Blocks -> Vals]
  /\ pinned \in [Blocks -> BOOLEAN]
  /\ header \in BoundedSeq(Blocks, LOG_MAX_SIZE)
  /\ outstanding \in 0 .. Cardinality(Threads)
  /\ committing \in BOOLEAN
  /\ phase \in Phases
  /\ tail \in 0 .. LOG_MAX_SIZE
  /\ pc \in [Threads -> {"idle", "op"}]
  /\ rm \in [Threads -> 0 .. OP_MAX_NUM_BLOCKS]
  /\ crashes \in 0 .. MaxCrashes

-----------------------------------------------------------------------------
(* Volatile state as init_bcache leaves it before recover_from_log: the    *)
(* cache empty (every block reads from disk), header read from disk.       *)
BootMemory ==
  /\ cache' = diskHome
  /\ pinned' = [b \in Blocks |-> FALSE]
  /\ header' = diskHdr
  /\ outstanding' = 0
  /\ committing' = FALSE
  /\ phase' = "replay"
  /\ tail' = 0
  /\ pc' = [t \in Threads |-> "idle"]
  /\ rm' = [t \in Threads |-> 0]

\* A freshly made disk (zeroed header) being mounted.
Init ==
  /\ diskHome = [b \in Blocks |-> V0]
  /\ diskLog = [i \in LogSlots |-> V0]
  /\ diskHdr = <<>>
  /\ cache = diskHome
  /\ pinned = [b \in Blocks |-> FALSE]
  /\ header = diskHdr
  /\ outstanding = 0
  /\ committing = FALSE
  /\ phase = "replay"
  /\ tail = 0
  /\ pc = [t \in Threads |-> "idle"]
  /\ rm = [t \in Threads |-> 0]
  /\ crashes = 0

Logged(b) == b \in Range(header)

(* Mutation-testing variants of begin_op: the admission check without the *)
(* slot reserved for the new op, and without the wait for a commit.       *)
begin_op_no_reserve(t) ==
  /\ pc[t] = "idle"
  /\ phase # "replay"
  /\ ~committing
  /\ Len(header) + outstanding * OP_MAX_NUM_BLOCKS <= LOG_MAX_SIZE
  /\ outstanding' = outstanding + 1
  /\ rm' = [rm EXCEPT ![t] = OP_MAX_NUM_BLOCKS]
  /\ pc' = [pc EXCEPT ![t] = "op"]
  /\ UNCHANGED <<diskHome, diskLog, diskHdr, cache, pinned, header,
                 committing, phase, tail, crashes>>

begin_op_ignores_commit(t) ==
  /\ pc[t] = "idle"
  /\ phase # "replay"
  /\ Len(header) + (outstanding + 1) * OP_MAX_NUM_BLOCKS <= LOG_MAX_SIZE
  /\ outstanding' = outstanding + 1
  /\ rm' = [rm EXCEPT ![t] = OP_MAX_NUM_BLOCKS]
  /\ pc' = [pc EXCEPT ![t] = "op"]
  /\ UNCHANGED <<diskHome, diskLog, diskHdr, cache, pinned, header,
                 committing, phase, tail, crashes>>

(* cache_begin_op: admitted once no commit runs and the quota fits.       *)
begin_op(t) ==
  /\ pc[t] = "idle"
  /\ phase # "replay"
  /\ ~committing
  /\ Len(header) + (outstanding + 1) * OP_MAX_NUM_BLOCKS <= LOG_MAX_SIZE
  /\ outstanding' = outstanding + 1
  /\ rm' = [rm EXCEPT ![t] = OP_MAX_NUM_BLOCKS]
  /\ pc' = [pc EXCEPT ![t] = "op"]
  /\ UNCHANGED <<diskHome, diskLog, diskHdr, cache, pinned, header,
                 committing, phase, tail, crashes>>

(* Mutation-testing variant of sync: no quota check before using quota.   *)
sync_unchecked_quota(t, b, v) ==
  /\ pc[t] = "op"
  /\ cache' = [cache EXCEPT ![b] = v]
  /\ pinned' = [pinned EXCEPT ![b] = TRUE]
  /\ IF Logged(b)
       THEN UNCHANGED <<header, rm>>
       ELSE /\ header' = Append(header, b)
            /\ rm' = [rm EXCEPT ![t] = @ - 1]
  /\ UNCHANGED <<diskHome, diskLog, diskHdr, outstanding, committing,
                 phase, tail, pc, crashes>>

(* The client writes v into block b, then cache_sync(ctx, b): pin it, and  *)
(* unless the header already names b (absorption) append b, using quota.   *)
(* Callers stay within their quota (else ASSERT(0) at line 281).           *)
sync(t, b, v) ==
  /\ pc[t] = "op"
  /\ Logged(b) \/ rm[t] > 0
  /\ cache' = [cache EXCEPT ![b] = v]
  /\ pinned' = [pinned EXCEPT ![b] = TRUE]
  /\ IF Logged(b)
       THEN UNCHANGED <<header, rm>>
       ELSE /\ header' = Append(header, b)
            /\ rm' = [rm EXCEPT ![t] = @ - 1]
  /\ UNCHANGED <<diskHome, diskLog, diskHdr, outstanding, committing,
                 phase, tail, pc, crashes>>

(* cache_end_op: the last op out becomes the committer.                    *)
end_op(t) ==
  /\ pc[t] = "op"
  /\ outstanding' = outstanding - 1
  /\ pc' = [pc EXCEPT ![t] = "idle"]
  /\ IF outstanding = 1
       THEN /\ committing' = TRUE
            /\ phase' = "copy"
            /\ tail' = 0
       ELSE UNCHANGED <<committing, phase, tail>>
  /\ UNCHANGED <<diskHome, diskLog, diskHdr, cache, pinned, header, rm,
                 crashes>>

(* Mutation-testing variant of commit_copy: the log slot gets the home    *)
(* block as it is on disk instead of its cached (written) contents.       *)
commit_copy_from_disk ==
  /\ phase = "copy"
  /\ tail < Len(header)
  /\ diskLog' = [diskLog EXCEPT ![tail] = diskHome[header[tail + 1]]]
  /\ tail' = tail + 1
  /\ UNCHANGED <<diskHome, diskHdr, cache, pinned, header, outstanding,
                 committing, phase, pc, rm, crashes>>

(* commit, first loop: copy the cached home block of entry `tail` into log *)
(* slot `tail` and write that log block to the device.                     *)
commit_copy ==
  /\ phase = "copy"
  /\ tail < Len(header)
  /\ diskLog' = [diskLog EXCEPT ![tail] = cache[header[tail + 1]]]
  /\ tail' = tail + 1
  /\ UNCHANGED <<diskHome, diskHdr, cache, pinned, header, outstanding,
                 committing, phase, pc, rm, crashes>>

(* commit: write_header(), the commit point.                               *)
commit_header ==
  /\ phase = "copy"
  /\ tail = Len(header)
  /\ diskHdr' = header
  /\ phase' = "install"
  /\ tail' = 0
  /\ UNCHANGED <<diskHome, diskLog, cache, pinned, header, outstanding,
                 committing, pc, rm, crashes>>

(* Body shared by the install loops of commit and recover_from_log: copy   *)
(* log slot `tail` over the cached home block and write it to the device.  *)
InstallEntry ==
  LET b == header[tail + 1] IN
  /\ cache' = [cache EXCEPT ![b] = diskLog[tail]]
  /\ diskHome' = [diskHome EXCEPT ![b] = diskLog[tail]]
  /\ tail' = tail + 1

(* Mutation-testing variants of commit_install: the pin is never cleared; *)
(* the home block is updated in the cache but not written to the device.  *)
commit_install_keeps_pin ==
  /\ phase = "install"
  /\ tail < Len(header)
  /\ InstallEntry
  /\ UNCHANGED <<pinned, diskLog, diskHdr, header, outstanding, committing,
                 phase, pc, rm, crashes>>

commit_install_no_write ==
  LET b == header[tail + 1] IN
  /\ phase = "install"
  /\ tail < Len(header)
  /\ cache' = [cache EXCEPT ![b] = diskLog[tail]]
  /\ tail' = tail + 1
  /\ pinned' = [pinned EXCEPT ![b] = FALSE]
  /\ UNCHANGED <<diskHome, diskLog, diskHdr, header, outstanding, committing,
                 phase, pc, rm, crashes>>

(* commit, second loop: install entry `tail` and unpin its home block.     *)
commit_install ==
  /\ phase = "install"
  /\ tail < Len(header)
  /\ InstallEntry
  /\ pinned' = [pinned EXCEPT ![header[tail + 1]] = FALSE]
  /\ UNCHANGED <<diskLog, diskHdr, header, outstanding, committing, phase,
                 pc, rm, crashes>>

(* commit: zero and write the header; cache_end_op then clears committing  *)
(* and wakes the waiters of begin_op.                                      *)
commit_clear ==
  /\ phase = "install"
  /\ tail = Len(header)
  /\ header' = <<>>
  /\ diskHdr' = <<>>
  /\ committing' = FALSE
  /\ phase' = "none"
  /\ tail' = 0
  /\ UNCHANGED <<diskHome, diskLog, cache, pinned, outstanding, pc, rm,
                 crashes>>

(* recover_from_log: install every entry of the header read at boot.       *)
recover_install ==
  /\ phase = "replay"
  /\ tail < Len(header)
  /\ InstallEntry
  /\ UNCHANGED <<diskLog, diskHdr, pinned, header, outstanding, committing,
                 phase, pc, rm, crashes>>

(* recover_from_log: zero the header and write it.                         *)
recover_clear ==
  /\ phase = "replay"
  /\ tail = Len(header)
  /\ header' = <<>>
  /\ diskHdr' = <<>>
  /\ phase' = "none"
  /\ tail' = 0
  /\ UNCHANGED <<diskHome, diskLog, cache, pinned, outstanding, committing,
                 pc, rm, crashes>>

(* Power loss at any point, then the reboot into init_bcache.             *)
Crash ==
  /\ crashes < MaxCrashes
  /\ crashes' = crashes + 1
  /\ BootMemory
  /\ UNCHANGED <<diskHome, diskLog, diskHdr>>

Next ==
  \/ \E t \in Threads : begin_op(t) \/ end_op(t)
  \/ \E t \in Threads, b \in Blocks, v \in Vals : sync(t, b, v)
  \/ commit_copy \/ commit_header \/ commit_install \/ commit_clear
  \/ recover_install \/ recover_clear
  \/ Crash

Spec == Init /\ [][Next]_vars

-----------------------------------------------------------------------------
(* What a reboot would find on disk: the home blocks with the entries of   *)
(* the on-disk header replayed over them (the last entry for a block wins, *)
(* as the install loop runs in order).                                     *)
Replayed(hdr, log, home) ==
  [b \in Blocks |->
     LET at == {i \in 1 .. Len(hdr) : hdr[i] = b}
     IN  IF at = {} THEN home[b] ELSE log[Max(at) - 1]]

Durable == Replayed(diskHdr, diskLog, diskHome)

\* What the clients see: the cache, or during recovery what it will hold.
Latest == IF phase = "replay" THEN Durable ELSE cache

Store == INSTANCE AtomicStore
         WITH durable <- Durable, latest <- Latest, sealed <- committing

(* Refinement: whatever the interleaving of ops, commit steps, crashes and *)
(* recoveries, the disk as a reboot would recover it moves only from all   *)
(* of the old contents to all of what the clients had written (commit and  *)
(* recover_from_log of cache.c implement an atomic store).                 *)
AtomicDurability == Store!Spec

(* The log never overflows: the entries already in the header plus the     *)
(* quota still held by admitted ops fit in LOG_MAX_SIZE, so no cache_sync  *)
(* can index header.block_no past its end (admission in cache_begin_op).   *)
LogFits ==
  Len(header) + MapThenSumSet(LAMBDA t : rm[t], {t \in Threads : pc[t] = "op"})
    <= LOG_MAX_SIZE

(* No op is live while a commit runs, so cache_end_op's PANIC on           *)
(* log.committing is unreachable and no block changes under commit.        *)
OpsExcludeCommit == (\E t \in Threads : pc[t] = "op") => ~committing

\* Entries of the header whose home block commit has not yet installed.
Pending ==
  {header[i] : i \in (IF phase = "install" THEN tail ELSE 0) + 1 .. Len(header)}

(* Outside recovery a cached block is pinned exactly while the log still  *)
(* owes it an install: cache_sync pins what it logs and commit unpins only *)
(* what it has installed, so the cache can never evict a logged block.     *)
PinnedIffPending == phase # "replay" => \A b \in Blocks : pinned[b] <=> b \in Pending

(* An unpinned cached block equals its home on disk, so evicting it and   *)
(* reading it back (cache_release / cache_acquire) loses nothing.          *)
CacheCoherent == \A b \in Blocks : ~pinned[b] => cache[b] = diskHome[b]
=============================================================================
