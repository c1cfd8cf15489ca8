----------------------------- MODULE FileStore -----------------------------
(***************************************************************************)
(* What the inode layer promises about file data (inode.h): each file is a *)
(* sequence of bytes.  inode_write at an offset no greater than the size   *)
(* overwrites the bytes there and extends the file past its end; inode_clear *)
(* empties it.  Nothing else changes a file's bytes.  A write carries at  *)
(* most MaxWrite bytes.                                                    *)
(***************************************************************************)
EXTENDS Naturals, Sequences

CONSTANTS Files, Vals, MaxBytes, MaxWrite

VARIABLE content

\* content after writing `data` at `off`.
Overwrite(c, off, data) ==
  [k \in 1 .. IF off + Len(data) > Len(c) THEN off + Len(data) ELSE Len(c) |->
     IF k > off /\ k <= off + Len(data) THEN data[k - off] ELSE c[k]]

Init == content = [f \in Files |-> <<>>]

Write(f, off, data) ==
  /\ off <= Len(content[f])
  /\ off + Len(data) <= MaxBytes
  /\ content' = [content EXCEPT ![f] = Overwrite(@, off, data)]

Clear(f) == content' = [content EXCEPT ![f] = <<>>]

Next == \E f \in Files :
          \/ Clear(f)
          \/ \E off \in 0 .. MaxBytes, n \in 1 .. MaxWrite :
               \E data \in [1 .. n -> Vals] : Write(f, off, data)

Spec == Init /\ [][Next]_content
=============================================================================
