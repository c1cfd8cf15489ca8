---------------------------- MODULE AtomicStore ----------------------------
(***************************************************************************)
(* What the write-ahead log of fs/cache.c promises its clients, stated     *)
(* without a log: a store of blocks with a volatile view `latest` (what    *)
(* the clients have written) and a durable view `durable` (what survives   *)
(* a crash).  Writes are refused while the store is `sealed` for a commit; *)
(* a sealed store makes the whole of its volatile view durable in one      *)
(* step, and a crash throws the volatile view away.  No state in between   *)
(* is ever durable.                                                        *)
(***************************************************************************)
CONSTANTS Blocks, Vals, V0

VARIABLES durable, latest, sealed

vars == <<durable, latest, sealed>>

Init ==
  /\ durable = [b \in Blocks |-> V0]
  /\ latest = durable
  /\ sealed = FALSE

\* A client overwrites one block.
Write(b, v) ==
  /\ ~sealed
  /\ latest' = [latest EXCEPT ![b] = v]
  /\ UNCHANGED <<durable, sealed>>

\* Writing stops so that what was written can be committed.
Seal ==
  /\ ~sealed
  /\ sealed' = TRUE
  /\ UNCHANGED <<durable, latest>>

\* Everything written so far becomes durable at once.
Commit ==
  /\ sealed
  /\ durable' = latest
  /\ UNCHANGED <<latest, sealed>>

\* Writing resumes once the commit has taken effect.
Unseal ==
  /\ sealed
  /\ durable = latest
  /\ sealed' = FALSE
  /\ UNCHANGED <<durable, latest>>

\* A crash forgets what was not made durable.
Crash ==
  /\ latest' = durable
  /\ sealed' = FALSE
  /\ UNCHANGED durable

Next ==
  \/ \E b \in Blocks, v \in Vals : Write(b, v)
  \/ Seal \/ Commit \/ Unseal \/ Crash

Spec == Init /\ [][Next]_vars
=============================================================================
