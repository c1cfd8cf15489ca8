----------------------------- MODULE InodeCache -----------------------------
(***************************************************************************)
(* The in-memory inode table of src/fs/inode.c: inode_alloc, inode_get,    *)
(* inode_share, inode_lock, inode_unlock, inode_sync and inode_put, under  *)
(* the spinlock `lock` (one action per critical section) and the inodes'   *)
(* sleep locks.                                                            *)
(*                                                                         *)
(* Inode structs come from kalloc(sizeof(Inode)) of src/kernel/mem.c      *)
(* (module KAlloc): the slots `Slots` are the blocks of the Inode class on *)
(* the pages the class takes.  kalloc pops the head of the class's LIFO    *)
(* free list, carving a fresh page onto it first when it is empty, and     *)
(* kfree pushes onto it; neither clears the memory, and a fresh page comes *)
(* zeroed from kalloc_page.                                                *)
(* init_inode resets the lock, rc, inode_no and valid, not `entry`, so an  *)
(* inode that was never loaded still holds whatever its chunk held.        *)
(*                                                                         *)
(* The on-disk entry of each inode (as the block cache holds it) is its   *)
(* type and num_links; block addresses and sizes are left to FileBlocks.  *)
(* Clients call the API in any order its contract allows: they get an      *)
(* inode they found linked or allocated, lock before they read or change   *)
(* the entry, and put their reference when done.  Whether a client may put *)
(* an inode it never locked is the constant UnloadedPut.                   *)
(*                                                                         *)
(* The global file table of src/fs/file.c is composed with it: a struct    *)
(* file of type FD_INODE holds an inode reference (f->ip) as a thread      *)
(* does, so `ref` maps threads and files alike, and file_close ends in     *)
(* inode_put.  Pipes (FD_PIPE) are left out.                               *)
(***************************************************************************)
EXTENDS Naturals, Sequences, SequencesExt, FiniteSets, KAlloc

CONSTANTS
  Threads,      \* clients of the inode layer
  MaxInode,     \* inode numbers are 1 .. MaxInode (num_inodes - 1)
  MaxLinks,     \* num_links a client sets, at most
  UnloadedPut,  \* may a client put an inode it never locked?
  NFILE,        \* entries of ftable.files, and file_dup's cap on f->ref
  None

InodeNos == 1 .. MaxInode
Slots == Chunks                    \* blocks of the Inode class
Types == {"invalid", "file"}
Files == 1 .. NFILE                \* ftable.files[i] is file i + 1

VARIABLES
  dtype,        \* on-disk InodeEntry.type
  dlinks,       \* on-disk InodeEntry.num_links
  free,         \* memory_table[class of Inode], head first
  pages,        \* pages of the queue `pages` the class has not carved
  listed,       \* Inode structs on the list `head`
  inodeNo,      \* Inode.inode_no
  rc,           \* Inode.rc.count
  valid,        \* Inode.valid
  etype,        \* Inode.entry.type (memory, possibly stale)
  elinks,       \* Inode.entry.num_links (memory, possibly stale)
  owner,        \* holder of Inode.lock, or None
  ref,          \* per thread or file: the Inode it holds a reference to
  mine,         \* per thread: inode number inode_alloc gave it, or 0
  fref,         \* per file: struct file.ref
  fd            \* per thread: the struct file it holds, or None

vars == <<dtype, dlinks, free, pages, listed, inodeNo, rc, valid, etype, elinks,
          owner, ref, mine, fref, fd>>

TypeOK ==
  /\ dtype \in [InodeNos -> Types]
  /\ dlinks \in [InodeNos -> 0 .. MaxLinks]
  /\ free \in Seq(Slots)
  /\ pages \subseteq Pages
  /\ listed \subseteq Slots
  /\ inodeNo \in [Slots -> InodeNos \cup {0}]
  /\ rc \in [Slots -> 0 .. Cardinality(Threads) + NFILE]
  /\ valid \in [Slots -> BOOLEAN]
  /\ etype \in [Slots -> Types]
  /\ elinks \in [Slots -> 0 .. MaxLinks]
  /\ owner \in [Slots -> Threads \cup {None}]
  /\ ref \in [Threads \cup Files -> Slots \cup {None}]
  /\ mine \in [Threads -> InodeNos \cup {0}]
  /\ fref \in [Files -> -Cardinality(Threads) .. NFILE]
  /\ fd \in [Threads -> Files \cup {None}]

(* A formatted disk whose inode 1 is linked (the root directory);          *)
(* memory_table is empty and every page is in the queue, zeroed.           *)
Init ==
  /\ dtype = [i \in InodeNos |-> IF i = 1 THEN "file" ELSE "invalid"]
  /\ dlinks = [i \in InodeNos |-> IF i = 1 THEN 1 ELSE 0]
  /\ free = <<>>
  /\ pages = Pages
  /\ listed = {}
  /\ inodeNo = [s \in Slots |-> 0]
  /\ rc = [s \in Slots |-> 0]
  /\ valid = [s \in Slots |-> FALSE]
  /\ etype = [s \in Slots |-> "invalid"]
  /\ elinks = [s \in Slots |-> 0]
  /\ owner = [s \in Slots |-> None]
  /\ ref = [h \in Threads \cup Files |-> None]
  /\ mine = [t \in Threads |-> 0]
  /\ fref = [f \in Files |-> 0]
  /\ fd = [t \in Threads |-> None]

\* Inode numbers a client can name: linked on disk, or allocated by it.
Reachable(t) == {i \in InodeNos : dtype[i] = "file" /\ (dlinks[i] > 0 \/ mine[t] = i)}

\* The listed Inode for number i, if any.
Cached(i) == {s \in listed : inodeNo[s] = i}

(* inode_alloc: under the spinlock, the first inode whose on-disk type is  *)
(* INODE_INVALID is zeroed and given a type (PANIC if there is none).      *)
inode_alloc(t) ==
  LET freeNos == {i \in InodeNos : dtype[i] = "invalid"} IN
  /\ ref[t] = None /\ mine[t] = 0
  /\ freeNos # {}
  /\ LET i == Min(freeNos) IN
     /\ dtype' = [dtype EXCEPT ![i] = "file"]
     /\ dlinks' = [dlinks EXCEPT ![i] = 0]
     /\ mine' = [mine EXCEPT ![t] = i]
  /\ UNCHANGED <<free, pages, listed, inodeNo, rc, valid, etype, elinks, owner, ref>>

\* The page kalloc_page fetches when memory_table[class] is empty.
FetchedPage == IF free = <<>> THEN Min(pages) ELSE 0

\* memory_table[class] as kalloc pops it; its head is the Inode returned.
KallocFree == KallocList(free, FetchedPage)

(* kalloc(sizeof(Inode)) up to its return.  kalloc_page on an empty queue  *)
(* faults (memset of NULL), so the step needs a free block or a page.      *)
kalloc ==
  /\ free # <<>> \/ pages # {}
  /\ free' = pop_memory(KallocFree)
  /\ pages' = IF free = <<>> THEN pages \ {FetchedPage} ELSE pages

(* Mutation-testing variant of inode_get: no search of the list.           *)
inode_get_always_new(t, i) ==
  LET s == Head(KallocFree) IN
  /\ ref[t] = None
  /\ i \in Reachable(t)
  /\ kalloc
  /\ listed' = listed \cup {s}
  /\ inodeNo' = [inodeNo EXCEPT ![s] = i]
  /\ rc' = [rc EXCEPT ![s] = 1]
  /\ valid' = [valid EXCEPT ![s] = FALSE]
  /\ ref' = [ref EXCEPT ![t] = s]
  /\ mine' = [mine EXCEPT ![t] = IF @ = i THEN 0 ELSE @]
  /\ UNCHANGED <<dtype, dlinks, etype, elinks, owner>>

(* inode_get: under the spinlock, a listed Inode for i gets rc + 1;        *)
(* otherwise kalloc + init_inode (entry left as the chunk holds it),       *)
(* rc = 1, inserted into the list.                                         *)
inode_get(t, i) ==
  /\ ref[t] = None
  /\ i \in Reachable(t)
  /\ mine' = [mine EXCEPT ![t] = IF @ = i THEN 0 ELSE @]
  /\ IF Cached(i) # {}
       THEN LET s == CHOOSE x \in Cached(i) : TRUE IN
            /\ rc' = [rc EXCEPT ![s] = @ + 1]
            /\ ref' = [ref EXCEPT ![t] = s]
            /\ UNCHANGED <<free, pages, listed, inodeNo, valid>>
       ELSE LET s == Head(KallocFree) IN
            /\ kalloc
            /\ listed' = listed \cup {s}
            /\ inodeNo' = [inodeNo EXCEPT ![s] = i]
            /\ rc' = [rc EXCEPT ![s] = 1]
            /\ valid' = [valid EXCEPT ![s] = FALSE]
            /\ ref' = [ref EXCEPT ![t] = s]
  /\ UNCHANGED <<dtype, dlinks, etype, elinks, owner>>

(* Mutation-testing variant of inode_share: rc is not incremented.         *)
inode_share_no_increment(t, u) ==
  /\ ref[t] # None /\ ref[u] = None /\ t # u
  /\ ref' = [ref EXCEPT ![u] = ref[t]]
  /\ UNCHANGED <<dtype, dlinks, free, pages, listed, inodeNo, rc, valid, etype,
                 elinks, owner, mine>>

(* inode_share: thread t hands u a new reference to its inode (rc + 1      *)
(* under the spinlock).                                                    *)
inode_share(t, u) ==
  /\ ref[t] # None /\ ref[u] = None /\ t # u
  /\ rc' = [rc EXCEPT ![ref[t]] = @ + 1]
  /\ ref' = [ref EXCEPT ![u] = ref[t]]
  /\ UNCHANGED <<dtype, dlinks, free, pages, listed, inodeNo, valid, etype, elinks,
                 owner, mine>>

(* Mutation-testing variant of inode_lock: valid is set without copying    *)
(* the on-disk entry.                                                      *)
inode_lock_no_load(t) ==
  LET s == ref[t] IN
  /\ s # None
  /\ owner[s] = None
  /\ owner' = [owner EXCEPT ![s] = t]
  /\ valid' = [valid EXCEPT ![s] = TRUE]
  /\ UNCHANGED <<dtype, dlinks, free, pages, listed, inodeNo, rc, etype, elinks,
                 ref, mine>>

(* inode_lock: take the sleep lock; if the inode is not valid, copy its    *)
(* on-disk entry in and set valid.                                         *)
inode_lock(t) ==
  LET s == ref[t] IN
  /\ s # None
  /\ owner[s] = None
  /\ owner' = [owner EXCEPT ![s] = t]
  /\ valid' = [valid EXCEPT ![s] = TRUE]
  /\ IF valid[s]
       THEN UNCHANGED <<etype, elinks>>
       ELSE /\ etype' = [etype EXCEPT ![s] = dtype[inodeNo[s]]]
            /\ elinks' = [elinks EXCEPT ![s] = dlinks[inodeNo[s]]]
  /\ UNCHANGED <<dtype, dlinks, free, pages, listed, inodeNo, rc, ref, mine>>

\* inode_unlock: release the sleep lock.
inode_unlock(t) ==
  LET s == ref[t] IN
  /\ s # None
  /\ owner[s] = t
  /\ owner' = [owner EXCEPT ![s] = None]
  /\ UNCHANGED <<dtype, dlinks, free, pages, listed, inodeNo, rc, valid, etype,
                 elinks, ref, mine>>

(* Mutation-testing variant of set_links: the count is off by one.       *)
set_links_off_by_one(t, n) ==
  LET s == ref[t] IN
  /\ s # None
  /\ owner[s] = t
  /\ elinks' = [elinks EXCEPT ![s] = n + 1]
  /\ dtype' = [dtype EXCEPT ![inodeNo[s]] = etype[s]]
  /\ dlinks' = [dlinks EXCEPT ![inodeNo[s]] = n + 1]
  /\ UNCHANGED <<free, pages, listed, inodeNo, rc, valid, etype, owner, ref, mine>>

(* A lock holder links or unlinks the inode (entry.num_links = n) and      *)
(* calls inode_sync(ctx, inode, true), which copies the entry to disk.     *)
set_links(t, n) ==
  LET s == ref[t] IN
  /\ s # None
  /\ owner[s] = t
  /\ elinks' = [elinks EXCEPT ![s] = n]
  /\ dtype' = [dtype EXCEPT ![inodeNo[s]] = etype[s]]
  /\ dlinks' = [dlinks EXCEPT ![inodeNo[s]] = n]
  /\ UNCHANGED <<free, pages, listed, inodeNo, rc, valid, etype, owner, ref, mine>>

(* inode_put, last reference to an inode whose entry says num_links == 0:  *)
(* inode_clear (which ends in inode_sync(ctx, inode, true): the in-memory  *)
(* entry is written to disk), then the on-disk type is set to             *)
(* INODE_INVALID; the Inode is unlisted and kfree'd.                       *)
Reclaim(t, s) ==
  /\ dtype' = [dtype EXCEPT ![inodeNo[s]] = "invalid"]
  /\ dlinks' = [dlinks EXCEPT ![inodeNo[s]] = elinks[s]]
  /\ valid' = [valid EXCEPT ![s] = FALSE]
  /\ rc' = [rc EXCEPT ![s] = 0]
  /\ listed' = listed \ {s}
  /\ free' = kfree(free, s)
  /\ UNCHANGED pages
  /\ ref' = [ref EXCEPT ![t] = None]

\* The caller may put: it holds a reference and not the sleep lock.
MayPut(t) ==
  /\ ref[t] # None
  /\ owner[ref[t]] # t
  /\ UnloadedPut \/ valid[ref[t]]

(* Mutation-testing variants of inode_put: reclaim whatever num_links      *)
(* says; reclaim whenever num_links == 0, shared or not.                   *)
inode_put_ignores_links(t) ==
  LET s == ref[t] IN
  /\ MayPut(t)
  /\ IF rc[s] = 1
       THEN Reclaim(t, s)
       ELSE /\ rc' = [rc EXCEPT ![s] = @ - 1]
            /\ ref' = [ref EXCEPT ![t] = None]
            /\ UNCHANGED <<dtype, dlinks, valid, listed, free, pages>>
  /\ UNCHANGED <<inodeNo, etype, elinks, owner, mine>>

inode_put_ignores_rc(t) ==
  LET s == ref[t] IN
  /\ MayPut(t)
  /\ IF elinks[s] = 0
       THEN Reclaim(t, s)
       ELSE /\ rc' = [rc EXCEPT ![s] = @ - 1]
            /\ ref' = [ref EXCEPT ![t] = None]
            /\ UNCHANGED <<dtype, dlinks, valid, listed, free, pages>>
  /\ UNCHANGED <<inodeNo, etype, elinks, owner, mine>>

(* inode_put: under the spinlock, read entry.num_links (loaded or not) and *)
(* rc; reclaim at the last reference to an unlinked inode, else rc - 1.    *)
inode_put(t) ==
  LET s == ref[t] IN
  /\ MayPut(t)
  /\ IF elinks[s] = 0 /\ rc[s] = 1
       THEN Reclaim(t, s)
       ELSE /\ rc' = [rc EXCEPT ![s] = @ - 1]
            /\ ref' = [ref EXCEPT ![t] = None]
            /\ UNCHANGED <<dtype, dlinks, valid, listed, free, pages>>
  /\ UNCHANGED <<inodeNo, etype, elinks, owner, mine>>

inodeVars == <<dtype, dlinks, free, pages, listed, inodeNo, rc, valid, etype,
               elinks, owner, ref, mine>>

(* file_alloc, as its caller uses it: under ftable.lock the first entry    *)
(* with ref == 0 gets ref = 1, and the caller makes it FD_INODE with its   *)
(* inode reference as f->ip.  The caller has locked the inode (sys_open    *)
(* reads its type), so it is valid.  With no entry free file_alloc        *)
(* returns 0 and nothing changes.                                          *)
file_open(t) ==
  LET freeFiles == {f \in Files : fref[f] = 0} IN
  /\ fd[t] = None
  /\ ref[t] # None /\ owner[ref[t]] # t /\ valid[ref[t]]
  /\ freeFiles # {}
  /\ LET f == Min(freeFiles) IN
     /\ fref' = [fref EXCEPT ![f] = 1]
     /\ ref' = [ref EXCEPT ![f] = ref[t], ![t] = None]
     /\ fd' = [fd EXCEPT ![t] = f]
  /\ UNCHANGED <<dtype, dlinks, free, pages, listed, inodeNo, rc, valid, etype,
                 elinks, owner, mine>>

(* file_dup: under ftable.lock, f->ref + 1 unless it has reached NFILE;    *)
(* f is returned either way, here as thread u's new reference.             *)
file_dup(t, u) ==
  LET f == fd[t] IN
  /\ f # None /\ t # u /\ fd[u] = None /\ ref[u] = None
  /\ fref' = [fref EXCEPT ![f] = IF @ < NFILE THEN @ + 1 ELSE @]
  /\ fd' = [fd EXCEPT ![u] = f]
  /\ UNCHANGED inodeVars

(* file_close: under ftable.lock, --f->ref; when that makes it 0 the      *)
(* FD_INODE file puts its inode inside an op (inode_put with the file as   *)
(* the holder) and becomes FD_NONE.                                        *)
file_close(t) ==
  LET f == fd[t] IN
  /\ f # None
  /\ fd' = [fd EXCEPT ![t] = None]
  /\ fref' = [fref EXCEPT ![f] = @ - 1]
  /\ IF fref[f] = 1 THEN inode_put(f) ELSE UNCHANGED inodeVars

(* A thread holding a struct file uses the inode through it, so it takes  *)
(* part in the inode API only when it holds no file.                       *)
InodeStep ==
  /\ \E t \in Threads :
       /\ fd[t] = None
       /\ \/ inode_alloc(t)
          \/ \E i \in InodeNos : inode_get(t, i)
          \/ \E u \in Threads : fd[u] = None /\ inode_share(t, u)
          \/ inode_lock(t) \/ inode_unlock(t)
          \/ \E n \in 0 .. MaxLinks : set_links(t, n)
          \/ inode_put(t)
  /\ UNCHANGED <<fref, fd>>

Next ==
  \/ InodeStep
  \/ \E t \in Threads :
       \/ file_open(t) \/ file_close(t)
       \/ \E u \in Threads : file_dup(t, u)

Spec == Init /\ [][Next]_vars

-----------------------------------------------------------------------------
\* The threads and files holding a reference to Inode s.
Holders(s) == {h \in Threads \cup Files : ref[h] = s}

(* inode_get, inode_share and inode_put keep rc equal to the references   *)
(* actually held, by threads and by open files, and nobody holds a         *)
(* reference to an Inode that inode_put has kfree'd.                       *)
RefCountExact ==
  \A s \in Slots :
    IF s \in listed THEN rc[s] = Cardinality(Holders(s)) ELSE Holders(s) = {}

(* inode_get finds the cached Inode before it allocates one, so no inode   *)
(* number has two Inodes (two sleep locks, two copies of the entry).       *)
OneInodePerNumber ==
  \A s1, s2 \in listed : s1 # s2 => inodeNo[s1] # inodeNo[s2]

(* A valid Inode's entry is the on-disk entry: inode_lock loads it, and    *)
(* every change under the lock is written back by inode_sync.              *)
LoadedEntryMatchesDisk ==
  \A s \in listed :
    valid[s] => etype[s] = dtype[inodeNo[s]] /\ elinks[s] = dlinks[inodeNo[s]]

(* inode_put never frees on disk an inode that a directory still links:   *)
(* an inode with num_links > 0 on disk stays allocated.                    *)
LinkedInodesSurvive ==
  [][\A i \in InodeNos :
       dtype[i] = "file" /\ dlinks[i] > 0 => dtype'[i] = "file"]_vars

(* kalloc, kfree and the inode table account for every Inode block: a     *)
(* block of a page kalloc_page has handed out is on memory_table exactly   *)
(* once or is a listed Inode, never both, so inode_get never gets a block  *)
(* that is in use and inode_put never frees one twice; no block of a page  *)
(* still in the queue is in use.                                           *)
ChunksAccounted ==
  /\ IsInjective(free)
  /\ \A c \in Slots :
       IF PageOf(c) \in pages THEN c \notin Range(free) \cup listed
       ELSE (c \in Range(free)) # (c \in listed)

\* The inode number a thread or file holds through its Inode, or 0.
InodeOf(h) == IF ref[h] = None THEN 0 ELSE inodeNo[ref[h]]

Table == INSTANCE InodeTable
           WITH Clients <- Threads \cup Files,
                holds <- [h \in Threads \cup Files |-> InodeOf(h)]

(* The inode table, its structs, the kalloc'ed memory and the file table   *)
(* together implement the lifecycle spec.md promises: a client holds an    *)
(* inode by number, and inode_put releases it on disk exactly at the last  *)
(* reference of an inode without links, whichever struct the references    *)
(* went through.                                                           *)
InodeLifecycle == Table!Spec

\* Every struct file a thread holds is still allocated in the table.
HeldFilesOpen == \A t \in Threads : fd[t] # None => fref[fd[t]] > 0

(* Nothing a client can still reach is freed: inode_put never frees on     *)
(* disk an inode a directory links, and file_close never frees a struct    *)
(* file (ref 0, FD_NONE, its inode put) that a thread still holds.         *)
NoUseAfterFree == LinkedInodesSurvive /\ []HeldFilesOpen
=============================================================================
