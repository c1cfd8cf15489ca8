------------------------------- MODULE MC_WAL -------------------------------
(* Instantiation of WAL for TLC: two threads, three home blocks, two       *)
(* contents, a log of four entries and a quota of two per op, so that two  *)
(* ops can share a group commit and a third admission has to wait.         *)
EXTENDS WALWriteThrough

MC_Blocks == {1, 2, 3}
MC_Vals == {0, 1}
=============================================================================
