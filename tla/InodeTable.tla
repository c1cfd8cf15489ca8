----------------------------- MODULE InodeTable -----------------------------
(***************************************************************************)
(* What the inode layer promises its clients (spec.md, section 4.4,        *)
(* Lifecycle): a holder gets an inode by number, shares it, changes its    *)
(* link count and puts it; the on-disk inode is released exactly when the  *)
(* last reference to an inode with no links is put.  There are no structs, *)
(* no list, no locks and no memory: only who holds which inode number.     *)
(***************************************************************************)
EXTENDS Naturals

CONSTANTS
  Clients,    \* threads and open files
  InodeNos,   \* inode numbers
  MaxLinks

VARIABLES
  holds,      \* per holder: the inode number it holds, or 0
  dtype,      \* on-disk type of each inode: "invalid" or "file"
  dlinks      \* on-disk num_links of each inode

vars == <<holds, dtype, dlinks>>

Init ==
  /\ holds = [h \in Clients |-> 0]
  /\ dtype = [i \in InodeNos |-> IF i = 1 THEN "file" ELSE "invalid"]
  /\ dlinks = [i \in InodeNos |-> IF i = 1 THEN 1 ELSE 0]

\* alloc: a free on-disk inode becomes a file with no links.
Alloc(i) ==
  /\ dtype[i] = "invalid"
  /\ dtype' = [dtype EXCEPT ![i] = "file"]
  /\ dlinks' = [dlinks EXCEPT ![i] = 0]
  /\ UNCHANGED holds

\* get: a holder with no inode takes a reference to an allocated one.
Get(h, i) ==
  /\ holds[h] = 0 /\ dtype[i] = "file"
  /\ holds' = [holds EXCEPT ![h] = i]
  /\ UNCHANGED <<dtype, dlinks>>

\* share: a second holder gets the same inode.
Share(h, u) ==
  /\ holds[h] # 0 /\ holds[u] = 0
  /\ holds' = [holds EXCEPT ![u] = holds[h]]
  /\ UNCHANGED <<dtype, dlinks>>

\* A holder hands its reference to another (a file opened on it).
Transfer(h, u) ==
  /\ holds[h] # 0 /\ holds[u] = 0 /\ h # u
  /\ holds' = [holds EXCEPT ![u] = holds[h], ![h] = 0]
  /\ UNCHANGED <<dtype, dlinks>>

\* A holder sets the link count of its inode on disk.
SetLinks(h, n) ==
  /\ holds[h] # 0
  /\ dlinks' = [dlinks EXCEPT ![holds[h]] = n]
  /\ UNCHANGED <<holds, dtype>>

(* put: the reference is dropped; the inode is released on disk if it was *)
(* the last one and the inode has no links.                               *)
Put(h) ==
  LET i == holds[h] IN
  /\ i # 0
  /\ holds' = [holds EXCEPT ![h] = 0]
  /\ IF dlinks[i] = 0 /\ \A u \in Clients \ {h} : holds[u] # i
       THEN dtype' = [dtype EXCEPT ![i] = "invalid"]
       ELSE UNCHANGED dtype
  /\ UNCHANGED dlinks

Next ==
  \/ \E i \in InodeNos : Alloc(i)
  \/ \E h \in Clients :
       \/ \E i \in InodeNos : Get(h, i)
       \/ \E u \in Clients : Share(h, u) \/ Transfer(h, u)
       \/ \E n \in 0 .. MaxLinks : SetLinks(h, n)
       \/ Put(h)

Spec == Init /\ [][Next]_vars
=============================================================================
