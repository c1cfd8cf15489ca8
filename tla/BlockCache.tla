----------------------------- MODULE BlockCache -----------------------------
(***************************************************************************)
(* The block cache of src/fs/cache.c: cache_acquire and cache_release over *)
(* the LRU list `head`, with the spinlock `lock` around list and flags and *)
(* a sleep lock per Block.  Block structs are the memory `Slots`: a slot   *)
(* is allocated while it is on the list (or being set up by a thread that  *)
(* has just kalloc'ed it) and free otherwise.                              *)
(*                                                                         *)
(* A thread step under the spinlock is one action; the code drops the      *)
(* spinlock before it sleeps on a block's sleep lock, and cache_release    *)
(* drops the sleep lock before it takes the spinlock, so those are         *)
(* separate steps.  Device reads are folded into the step that holds the   *)
(* sleep lock.  Holders may pin a block (cache_sync with a ctx) and unpin  *)
(* it (the install loop of commit), as the log does.                       *)
(***************************************************************************)
EXTENDS Naturals, Sequences, SequencesExt, FiniteSets

CONSTANTS
  Threads,             \* kernel threads calling acquire / release
  Blocks,              \* block numbers they ask for (0 excluded)
  NSlots,              \* Block structs the allocator can hand out
  EVICTION_THRESHOLD,  \* blocks init_bcache allocates; eviction bound
  MaxPinned,           \* pinned blocks at once (the log's LOG_MAX_SIZE)
  None                 \* no thread / no slot

ASSUME /\ 0 \notin Blocks
       /\ EVICTION_THRESHOLD \in 1 .. NSlots
       /\ None \notin Threads

Slots == 1 .. NSlots

VARIABLES
  lru,       \* the list from head.next (MRU) to head.prev (LRU)
  blockno,   \* Block.block_no per slot
  acquired,  \* Block.acquired
  valid,     \* Block.valid
  pinned,    \* Block.pinned
  owner,     \* holder of the Block's sleep lock, or None
  pc,        \* per thread: where it is in acquire / release
  want,      \* per thread: the block_no it asked for
  slot       \* per thread: the Block it is working on, or None

vars == <<lru, blockno, acquired, valid, pinned, owner, pc, want, slot>>

PCs == {"idle", "lock_hit", "lock_miss", "lock_new", "hold", "relink"}

TypeOK ==
  /\ lru \in BoundedSeq(Slots, NSlots)
  /\ blockno \in [Slots -> Blocks \cup {0}]
  /\ acquired \in [Slots -> BOOLEAN]
  /\ valid \in [Slots -> BOOLEAN]
  /\ pinned \in [Slots -> BOOLEAN]
  /\ owner \in [Slots -> Threads \cup {None}]
  /\ pc \in [Threads -> PCs]
  /\ want \in [Threads -> Blocks \cup {0}]
  /\ slot \in [Threads -> Slots \cup {None}]

\* init_bcache: EVICTION_THRESHOLD fresh blocks (init_block) on the list.
Init ==
  /\ lru = [i \in 1 .. EVICTION_THRESHOLD |-> i]
  /\ blockno = [s \in Slots |-> 0]
  /\ acquired = [s \in Slots |-> FALSE]
  /\ valid = [s \in Slots |-> FALSE]
  /\ pinned = [s \in Slots |-> FALSE]
  /\ owner = [s \in Slots |-> None]
  /\ pc = [t \in Threads |-> "idle"]
  /\ want = [t \in Threads |-> 0]
  /\ slot = [t \in Threads |-> None]

\* Memory kalloc may hand out: neither listed nor being set up.
FreeSlots ==
  Slots \ (Range(lru) \cup {slot[t] : t \in {u \in Threads : pc[u] = "lock_new"}})

\* Positions on the list of the blocks cached for b, MRU first.
Hits(b) == {i \in 1 .. Len(lru) : blockno[lru[i]] = b}

\* Positions of blocks the miss path may reuse.
Reusable == {i \in 1 .. Len(lru) : ~acquired[lru[i]] /\ ~pinned[lru[i]]}

(* cache_acquire up to dropping the spinlock: a hit takes the first match  *)
(* from head.next; a miss reuses the reusable block nearest head.prev;     *)
(* failing both it kalloc's and init_block's a new one, not yet listed.    *)
acquire(t, b) ==
  /\ pc[t] = "idle"
  /\ want' = [want EXCEPT ![t] = b]
  /\ CASE Hits(b) # {} ->
            LET s == lru[Min(Hits(b))] IN
            /\ acquired' = [acquired EXCEPT ![s] = TRUE]
            /\ slot' = [slot EXCEPT ![t] = s]
            /\ pc' = [pc EXCEPT ![t] = "lock_hit"]
            /\ UNCHANGED <<blockno, valid, pinned>>
       [] Reusable # {} ->
            LET s == lru[Max(Reusable)] IN
            /\ blockno' = [blockno EXCEPT ![s] = b]
            /\ acquired' = [acquired EXCEPT ![s] = TRUE]
            /\ valid' = [valid EXCEPT ![s] = FALSE]
            /\ slot' = [slot EXCEPT ![t] = s]
            /\ pc' = [pc EXCEPT ![t] = "lock_miss"]
            /\ UNCHANGED pinned
       [] OTHER ->
            \E s \in FreeSlots :
            /\ blockno' = [blockno EXCEPT ![s] = b]
            /\ acquired' = [acquired EXCEPT ![s] = TRUE]
            /\ valid' = [valid EXCEPT ![s] = FALSE]
            /\ pinned' = [pinned EXCEPT ![s] = FALSE]
            /\ slot' = [slot EXCEPT ![t] = s]
            /\ pc' = [pc EXCEPT ![t] = "lock_new"]
  /\ UNCHANGED <<lru, owner>>

(* Hit path: take the sleep lock, read the block if it is neither valid    *)
(* nor pinned.                                                             *)
lock_hit(t) ==
  LET s == slot[t] IN
  /\ pc[t] = "lock_hit"
  /\ owner[s] = None
  /\ owner' = [owner EXCEPT ![s] = t]
  /\ valid' = [valid EXCEPT ![s] = @ \/ ~pinned[s]]
  /\ pc' = [pc EXCEPT ![t] = "hold"]
  /\ UNCHANGED <<lru, blockno, acquired, pinned, want, slot>>

\* Reuse path: take the sleep lock and read the block.
lock_miss(t) ==
  LET s == slot[t] IN
  /\ pc[t] = "lock_miss"
  /\ owner[s] = None
  /\ owner' = [owner EXCEPT ![s] = t]
  /\ valid' = [valid EXCEPT ![s] = TRUE]
  /\ pc' = [pc EXCEPT ![t] = "hold"]
  /\ UNCHANGED <<lru, blockno, acquired, pinned, want, slot>>

(* New-block path: take its sleep lock, retake the spinlock, read it and   *)
(* insert it after head.prev, the LRU end.                                 *)
lock_new(t) ==
  LET s == slot[t] IN
  /\ pc[t] = "lock_new"
  /\ owner[s] = None
  /\ owner' = [owner EXCEPT ![s] = t]
  /\ valid' = [valid EXCEPT ![s] = TRUE]
  /\ lru' = Append(lru, s)
  /\ pc' = [pc EXCEPT ![t] = "hold"]
  /\ UNCHANGED <<blockno, acquired, pinned, want, slot>>

(* The holder logs the block: cache_sync(ctx, b) sets pinned.  Each pinned *)
(* block has a log header entry, so at most MaxPinned are pinned.          *)
pin(t) ==
  /\ pc[t] = "hold"
  /\ Cardinality({s \in Slots : pinned[s]}) < MaxPinned
  /\ pinned' = [pinned EXCEPT ![slot[t]] = TRUE]
  /\ UNCHANGED <<lru, blockno, acquired, valid, owner, pc, want, slot>>

\* The holder installs the block (commit): pinned is cleared.
unpin(t) ==
  /\ pc[t] = "hold"
  /\ pinned' = [pinned EXCEPT ![slot[t]] = FALSE]
  /\ UNCHANGED <<lru, blockno, acquired, valid, owner, pc, want, slot>>

\* cache_release, first: drop the sleep lock.
release(t) ==
  /\ pc[t] = "hold"
  /\ owner' = [owner EXCEPT ![slot[t]] = None]
  /\ pc' = [pc EXCEPT ![t] = "relink"]
  /\ UNCHANGED <<lru, blockno, acquired, valid, pinned, want, slot>>

\* get_num_cached_blocks: the length of the list from head.
get_num_cached_blocks(l) == Len(l)

(* Mutation-testing variants of relink: eviction without the pinned test; *)
(* reinsertion without detaching the block first.                        *)
relink_evicts_pinned(t) ==
  LET s    == slot[t]
      rest == SelectSeq(lru, LAMBDA x : x # s)
  IN
  /\ pc[t] = "relink"
  /\ acquired' = [acquired EXCEPT ![s] = FALSE]
  /\ lru' = IF get_num_cached_blocks(rest) > EVICTION_THRESHOLD THEN rest ELSE <<s>> \o rest
  /\ pc' = [pc EXCEPT ![t] = "idle"]
  /\ slot' = [slot EXCEPT ![t] = None]
  /\ UNCHANGED <<blockno, valid, pinned, owner, want>>

relink_no_detach(t) ==
  LET s == slot[t] IN
  /\ pc[t] = "relink"
  /\ acquired' = [acquired EXCEPT ![s] = FALSE]
  /\ lru' = IF ~pinned[s] /\ get_num_cached_blocks(lru) > EVICTION_THRESHOLD
              THEN lru
              ELSE <<s>> \o lru
  /\ pc' = [pc EXCEPT ![t] = "idle"]
  /\ slot' = [slot EXCEPT ![t] = None]
  /\ UNCHANGED <<blockno, valid, pinned, owner, want>>

(* cache_release, under the spinlock: clear acquired, detach; kfree the    *)
(* block if it is unpinned and more than EVICTION_THRESHOLD others remain, *)
(* else reinsert it at head.next.                                          *)
relink(t) ==
  LET s    == slot[t]
      rest == SelectSeq(lru, LAMBDA x : x # s)
  IN
  /\ pc[t] = "relink"
  /\ acquired' = [acquired EXCEPT ![s] = FALSE]
  /\ lru' = IF ~pinned[s] /\ get_num_cached_blocks(rest) > EVICTION_THRESHOLD
              THEN rest
              ELSE <<s>> \o rest
  /\ pc' = [pc EXCEPT ![t] = "idle"]
  /\ slot' = [slot EXCEPT ![t] = None]
  /\ UNCHANGED <<blockno, valid, pinned, owner, want>>

Next ==
  \E t \in Threads :
    \/ \E b \in Blocks : acquire(t, b)
    \/ lock_hit(t) \/ lock_miss(t) \/ lock_new(t)
    \/ pin(t) \/ unpin(t) \/ release(t) \/ relink(t)

Spec == Init /\ [][Next]_vars

-----------------------------------------------------------------------------
(* What cache_acquire promises (cache.h, spec 4.2): the caller gets the    *)
(* cached block for the number it asked for, allocated, valid, with its    *)
(* sleep lock held, for as long as it holds it.                            *)
HolderOwnsBlock ==
  \A t \in Threads : pc[t] = "hold" =>
    LET s == slot[t] IN
    /\ s \in Range(lru)
    /\ blockno[s] = want[t]
    /\ valid[s]
    /\ owner[s] = t

(* At most one cached copy of any block: otherwise two threads modify two *)
(* copies and one update is lost.                                         *)
OneCopyPerBlock ==
  \A i, j \in 1 .. Len(lru) :
    i # j /\ blockno[lru[i]] \in Blocks => blockno[lru[i]] # blockno[lru[j]]

(* The identity contract of the cache, both of the above: a block number *)
(* has at most one cached copy, and a thread holding a block holds that   *)
(* copy.  cache_acquire's hit path (a flag for `acquired`) and its        *)
(* new-block path (the spinlock dropped before the block is listed) each  *)
(* break it when two threads interleave.                                   *)
BlockIdentity == HolderOwnsBlock /\ OneCopyPerBlock

(* A pinned block stays on the list under its block number: neither the   *)
(* eviction in cache_release nor the reuse in cache_acquire touches it.   *)
PinnedStaysCached ==
  [][\A s \in Range(lru) :
       pinned[s] => s \in Range(lru') /\ blockno'[s] = blockno[s]]_vars
=============================================================================
