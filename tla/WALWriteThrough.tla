--------------------------- MODULE WALWriteThrough ---------------------------
(***************************************************************************)
(* The log of WAL with one more client: inode_map, when inode_read calls   *)
(* it with a NULL context, ends its indirect-block path with               *)
(* cache_sync(NULL, b) on the existing indirect block (inode.c 320), which *)
(* a running op may have written.  That call bypasses the log.             *)
(***************************************************************************)
EXTENDS WAL

(* cache_sync(NULL, b): the cached block is written straight to its home   *)
(* location (the ctx == NULL branch), whether or not a running op has      *)
(* written and pinned it.                                                  *)
sync_no_ctx(b) ==
  /\ phase # "replay"
  /\ diskHome' = [diskHome EXCEPT ![b] = cache[b]]
  /\ UNCHANGED <<diskLog, diskHdr, cache, pinned, header, outstanding,
                 committing, phase, tail, pc, rm, crashes>>

NextWT == Next \/ \E b \in Blocks : sync_no_ctx(b)

SpecWT == Init /\ [][NextWT]_vars
=============================================================================
