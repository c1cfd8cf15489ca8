--------------------------- MODULE MC_BlockCache ---------------------------
(* Instantiation of BlockCache for TLC.                                    *)
EXTENDS BlockCache

MC_Blocks == {1, 2}
=============================================================================
