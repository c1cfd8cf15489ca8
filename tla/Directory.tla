----------------------------- MODULE Directory ------------------------------
(***************************************************************************)
(* What inode.h promises of a directory: a map from names to inode         *)
(* numbers, 0 meaning absent.  insert adds a name that is absent (and is   *)
(* refused otherwise), remove drops a present name, and clearing the      *)
(* inode (inode_clear, when it is freed) empties it.                       *)
(***************************************************************************)
CONSTANTS Dirs, Names, InodeNos

VARIABLE dir

Init == dir = [d \in Dirs |-> [n \in Names |-> 0]]

\* Steps from map m to map m2.
Insert(m, m2, d, n, i) == m[d][n] = 0 /\ m2 = [m EXCEPT ![d][n] = i]

Remove(m, m2, d, n) == m[d][n] # 0 /\ m2 = [m EXCEPT ![d][n] = 0]

Clear(m, m2, d) == m2 = [m EXCEPT ![d] = [n \in Names |-> 0]]

Next ==
  LET m == dir
      m2 == dir'
  IN  \E d \in Dirs :
        \/ Clear(m, m2, d)
        \/ \E n \in Names :
              \/ Remove(m, m2, d, n)
              \/ \E i \in InodeNos : Insert(m, m2, d, n, i)

Spec == Init /\ [][Next]_dir
=============================================================================
