------------------------------- MODULE KAlloc -------------------------------
(***************************************************************************)
(* The small-object allocator of src/kernel/mem.c.  kalloc rounds a        *)
(* request up to a power-of-two class (get_lowest_pow, pow) and pops a     *)
(* block from memory_table[class], a LIFO list threaded through the free   *)
(* blocks.  When that list is empty, kalloc_page takes a zeroed page from  *)
(* the queue `pages`, and kalloc pushes the page's blocks (after a 64-byte *)
(* PageHeader holding the block size) one by one, lowest address first.   *)
(* kfree reads the class from the page header and pushes the block back;   *)
(* a page never returns to `pages`.                                        *)
(*                                                                         *)
(* The free list of one class is a sequence of chunk names, head first.    *)
(* Chunk (pg - 1) * ChunksPerPage + k is the k-th block of page pg.        *)
(* Modules that allocate from one class keep the list and the uncarved     *)
(* pages as variables and use the operators below.                         *)
(***************************************************************************)
EXTENDS Naturals, Sequences

CONSTANTS
  NPages,         \* pages of the queue the class may take
  ChunksPerPage,  \* blocks the carving loop puts on one page of the class
  MaxRequest      \* largest size the kernel passes to kalloc

PAGE_SIZE == 4096
PageHeaderSize == 64    \* kalloc starts carving at pagestart + 64
MaxClass == 12          \* memory_table has 13 entries, classes 0 .. 12

Pages == 1 .. NPages
Chunks == 1 .. NPages * ChunksPerPage
PageOf(c) == (c - 1) \div ChunksPerPage + 1
Chunk(pg, k) == (pg - 1) * ChunksPerPage + k

-----------------------------------------------------------------------------
(* pow(a, b): square-and-multiply, as the while loop computes it.          *)
RECURSIVE pow_loop(_, _, _)
pow_loop(ans, a, b) ==
  IF b = 0 THEN ans
  ELSE pow_loop(IF b % 2 = 1 THEN ans * a ELSE ans, a * a, b \div 2)

pow(a, b) == pow_loop(1, a, b)

(* The loop of get_lowest_pow: halve size until it is 0, counting the      *)
(* halvings, and give up at MaxClass.                                      *)
RECURSIVE lowest_pow_loop(_, _)
lowest_pow_loop(size, i) ==
  IF i > MaxClass THEN MaxClass
  ELSE IF size = 0 THEN i
  ELSE lowest_pow_loop(size \div 2, i + 1)

(* Mutation-testing variant of get_lowest_pow: no `size -= 1`.             *)
get_lowest_pow_no_decrement(size) ==
  IF size <= 0 THEN 0 ELSE lowest_pow_loop(size, 0)

(* get_lowest_pow: the class of a block of `size` bytes.                   *)
get_lowest_pow(size) ==
  IF size <= 0 THEN 0 ELSE lowest_pow_loop(size - 1, 0)

(* kalloc's block size for a request: at least 8 bytes, rounded up to the  *)
(* class.                                                                  *)
BlockSizeOf(size_input) ==
  pow(2, get_lowest_pow(IF size_input < 8 THEN 8 ELSE size_input))

(* The offsets in a page at which kalloc's carving loop places blocks of   *)
(* size bs: from 64 on, while the block ends within the page.              *)
CarvedOffsets(bs) ==
  {p \in {PageHeaderSize + k * bs : k \in 0 .. PAGE_SIZE \div bs} :
     p + bs <= PAGE_SIZE}

-----------------------------------------------------------------------------
(* add_memory: p->next = memory_table[k].next; memory_table[k].next = p.   *)
add_memory(l, p) == <<p>> \o l

(* kfree: the class is the block size in the page header                  *)
(* (get_page_header), so the block goes back on that class's list.         *)
kfree(l, p) == add_memory(l, p)

(* Mutation-testing variant of pop_memory: the list head is not advanced. *)
pop_memory_no_advance(l) == l

(* pop_memory: memory_table[k].next = memory_table[k].next->next; the      *)
(* block returned is Head(l).                                              *)
pop_memory(l) == Tail(l)

(* kalloc_page's page pg, carved by kalloc's loop: add_memory for each     *)
(* block in address order, so the highest block ends up first.             *)
Carve(l, pg) ==
  LET RECURSIVE carve(_, _)
      carve(m, k) == IF k > ChunksPerPage THEN m
                     ELSE carve(add_memory(m, Chunk(pg, k)), k + 1)
  IN  carve(l, 1)

(* The list kalloc pops from: memory_table[class] itself, or, when it is   *)
(* NULL, the blocks of the page pg kalloc_page fetched.                    *)
KallocList(l, pg) == IF l = <<>> THEN Carve(l, pg) ELSE l

-----------------------------------------------------------------------------
(* get_lowest_pow and pow against their reference definition: for every  *)
(* request size up to MaxRequest, kalloc uses the least power-of-two class *)
(* that holds the request and 8 bytes, and its carving loop puts at least  *)
(* one block of that class on a fresh page, so pop_memory never pops an    *)
(* empty memory_table entry.                                               *)
SizeClassExact ==
  \A size \in 1 .. MaxRequest :
    LET bs == BlockSizeOf(size) IN
    /\ bs >= size /\ bs >= 8
    /\ bs = 8 \/ bs \div 2 < size
    /\ CarvedOffsets(bs) # {}

\* TLC evaluates the size classes once, when it starts a run of a module
\* that extends this one.
ASSUME SizeClassExact
=============================================================================
