------------------------------ MODULE ProcTree ------------------------------
(***************************************************************************)
(* The process tree of src/kernel/proc.c: pid allocation (get_pid,        *)
(* release_pid), create_proc/init_proc, set_parent_to_this, start_proc,    *)
(* exit, wait and kill, over the spinlock `treelock`.  Each critical       *)
(* section of treelock is one step; exit's _sched(ZOMBIE), which runs      *)
(* after treelock is released, and wait's wait_sem are steps of their own. *)
(*                                                                         *)
(* proc structs are the slots {Root} \cup Procs; a slot is FREE when not   *)
(* kalloc'ed.  A started process that is not a zombie is "RUNNABLE"        *)
(* (runnable, running or asleep: the scheduler is not modelled here).     *)
(* childexit is a counting semaphore; a wait_sem that kill's alert_proc    *)
(* interrupts returns false (line 137) and wait goes on to its scan.       *)
(* Client code is not under src/: every process may create, start, wait,   *)
(* exit or kill in any order the API allows, up to MaxSpawn creations.     *)
(***************************************************************************)
EXTENDS Naturals, Integers, FiniteSets, FiniteSetsExt

CONSTANTS
  Root,      \* root_proc
  Procs,     \* the other proc structs kalloc can hand out
  MAX_PID,   \* pids are 0 .. MAX_PID - 1
  MaxSpawn,  \* create_proc calls, at most
  None       \* NULL

Slots == {Root} \cup Procs
Pids == 0 .. MAX_PID - 1
States == {"FREE", "UNUSED", "RUNNABLE", "ZOMBIE"}
PCs == {"run", "exiting", "waiting", "scan", "panic", "done"}

VARIABLES
  st,       \* proc.state (FREE: not allocated)
  parent,   \* proc.parent
  pid,      \* proc.pid
  pidMap,   \* pid_alloc.pid_map: the pids in use
  lastPid,  \* pid_alloc.last_pid
  sem,      \* proc.childexit's count
  killed,   \* proc.killed
  pc,       \* where a process is in exit / wait
  made,     \* per process: the proc it created and has not started yet
  spawned   \* create_proc calls so far

vars == <<st, parent, pid, pidMap, lastPid, sem, killed, pc, made, spawned>>

TypeOK ==
  /\ st \in [Slots -> States]
  /\ parent \in [Slots -> Slots \cup {None}]
  /\ pid \in [Slots -> Pids \cup {-1}]
  /\ pidMap \subseteq Pids
  /\ lastPid \in Pids \cup {-1}
  /\ sem \in [Slots -> Nat]
  /\ killed \in [Slots -> BOOLEAN]
  /\ pc \in [Slots -> PCs]
  /\ made \in [Slots -> Procs \cup {None}]
  /\ spawned \in 0 .. MaxSpawn

-----------------------------------------------------------------------------
(* get_pid: the first pid not in the map, searching from last_pid + 1 to  *)
(* MAX_PID - 1 and then from 0; -1 when every pid is taken.                *)
RECURSIVE ScanPid(_, _, _)
ScanPid(map, q, hi) ==
  IF q >= hi THEN -1 ELSE IF q \notin map THEN q ELSE ScanPid(map, q + 1, hi)

\* Mutation-testing variant of get_pid: the wrap-around loop is missing.
get_pid_no_wrap(map, last) == ScanPid(map, (last + 1) % MAX_PID, MAX_PID)

get_pid(map, last) ==
  LET off == (last + 1) % MAX_PID
      hi  == ScanPid(map, off, MAX_PID)
  IN IF hi # -1 THEN hi ELSE ScanPid(map, 0, off)

\* The processes on p's children list (start_proc, set_parent_to_this and
\* exit keep the list and the parent pointers equal).
Children(p) == {c \in Procs : st[c] # "FREE" /\ parent[c] = p}

\* A process that runs code: started and not a zombie.
Live(p) == st[p] = "RUNNABLE"

\* PANIC() halts the kernel.
Halted == \E q \in Slots : pc[q] = "panic"

\* p is free to call into the process API.
Ready(p) == Live(p) /\ pc[p] = "run" /\ made[p] = None /\ ~Halted

\* define_init(root_proc): init_proc(&root_proc), parent = itself, started.
Init ==
  /\ st = [q \in Slots |-> IF q = Root THEN "RUNNABLE" ELSE "FREE"]
  /\ parent = [q \in Slots |-> IF q = Root THEN Root ELSE None]
  /\ pid = [q \in Slots |-> IF q = Root THEN 0 ELSE -1]
  /\ pidMap = {0}
  /\ lastPid = 0
  /\ sem = [q \in Slots |-> 0]
  /\ killed = [q \in Slots |-> FALSE]
  /\ pc = [q \in Slots |-> "run"]
  /\ made = [q \in Slots |-> None]
  /\ spawned = 0

-----------------------------------------------------------------------------
(* create_proc: kalloc a proc and init_proc it under treelock (state      *)
(* UNUSED, no parent, a fresh pid, childexit = 0).  get_pid's -1 is stored *)
(* as it is.                                                               *)
create_proc(p, c) ==
  /\ Ready(p)
  /\ spawned < MaxSpawn
  /\ st[c] = "FREE"
  /\ LET n == get_pid(pidMap, lastPid) IN
     /\ pid' = [pid EXCEPT ![c] = n]
     /\ pidMap' = IF n = -1 THEN pidMap ELSE pidMap \cup {n}
     /\ lastPid' = IF n = -1 THEN lastPid ELSE n
  /\ st' = [st EXCEPT ![c] = "UNUSED"]
  /\ parent' = [parent EXCEPT ![c] = None]
  /\ sem' = [sem EXCEPT ![c] = 0]
  /\ killed' = [killed EXCEPT ![c] = FALSE]
  /\ pc' = [pc EXCEPT ![c] = "run"]
  /\ made' = [made EXCEPT ![p] = c, ![c] = None]
  /\ spawned' = spawned + 1

\* set_parent_to_this(c), whose caller ensures c->parent is NULL.
set_parent_to_this(p) ==
  LET c == made[p] IN
  /\ c # None /\ Live(p) /\ ~Halted
  /\ parent[c] = None
  /\ parent' = [parent EXCEPT ![c] = p]
  /\ UNCHANGED <<st, pid, pidMap, lastPid, sem, killed, pc, made, spawned>>

(* start_proc: under treelock, a proc without a parent becomes a child of *)
(* root_proc; then activate_proc moves it from UNUSED to RUNNABLE.         *)
start_proc(p) ==
  LET c == made[p] IN
  /\ c # None /\ Live(p) /\ ~Halted
  /\ parent' = [parent EXCEPT ![c] = IF @ = None THEN Root ELSE @]
  /\ st' = [st EXCEPT ![c] = "RUNNABLE"]
  /\ made' = [made EXCEPT ![p] = None]
  /\ UNCHANGED <<pid, pidMap, lastPid, sem, killed, pc, spawned>>

(* Mutation-testing variant of exit_tree: children are not handed to      *)
(* root_proc.                                                              *)
exit_no_reparent(p) ==
  /\ Ready(p) /\ p # Root
  /\ sem' = [sem EXCEPT ![parent[p]] = @ + 1]
  /\ pc' = [pc EXCEPT ![p] = "exiting"]
  /\ UNCHANGED <<st, parent, pid, pidMap, lastPid, killed, made, spawned>>

(* exit, lines 97-115 under treelock: every child gets root_proc as its   *)
(* parent, root_proc's childexit is posted once per child that is already *)
(* a zombie, the children join root_proc's list, and the parent's         *)
(* childexit is posted.  (kstack and pgdir are freed here too.)            *)
exit_tree(p) ==
  LET C  == Children(p)
      nz == Cardinality({c \in C : st[c] = "ZOMBIE"})
  IN
  /\ Ready(p) /\ p # Root
  /\ parent' = [q \in Slots |-> IF q \in C THEN Root ELSE parent[q]]
  /\ sem' = [q \in Slots |-> sem[q] + (IF q = Root THEN nz ELSE 0)
                                    + (IF q = parent[p] THEN 1 ELSE 0)]
  /\ pc' = [pc EXCEPT ![p] = "exiting"]
  /\ UNCHANGED <<st, pid, pidMap, lastPid, killed, made, spawned>>

\* exit, lines 116-117: _sched(ZOMBIE) under the sched lock.
exit_sched(p) ==
  /\ pc[p] = "exiting" /\ ~Halted
  /\ st' = [st EXCEPT ![p] = "ZOMBIE"]
  /\ pc' = [pc EXCEPT ![p] = "done"]
  /\ UNCHANGED <<parent, pid, pidMap, lastPid, sem, killed, made, spawned>>

(* wait, lines 129-135: with children, drop treelock and go to wait_sem.  *)
(* (Without children wait returns -1 and nothing changes.)                 *)
wait_check(p) ==
  /\ Ready(p)
  /\ Children(p) # {}
  /\ pc' = [pc EXCEPT ![p] = "waiting"]
  /\ UNCHANGED <<st, parent, pid, pidMap, lastPid, sem, killed, made, spawned>>

\* Mutation-testing variant of wait_sem: it does not block at zero.
wait_sem_no_block(p) ==
  /\ pc[p] = "waiting" /\ ~Halted
  /\ sem' = [sem EXCEPT ![p] = @ - 1]
  /\ pc' = [pc EXCEPT ![p] = "scan"]
  /\ UNCHANGED <<st, parent, pid, pidMap, lastPid, killed, made, spawned>>

(* wait, line 136: wait_sem(&childexit) takes a post, or returns false    *)
(* when kill has alerted the process.                                      *)
wait_sem(p) ==
  /\ pc[p] = "waiting" /\ ~Halted
  /\ \/ /\ sem[p] > 0
        /\ sem' = [sem EXCEPT ![p] = @ - 1]
     \/ /\ killed[p]
        /\ UNCHANGED sem
  /\ pc' = [pc EXCEPT ![p] = "scan"]
  /\ UNCHANGED <<st, parent, pid, pidMap, lastPid, killed, made, spawned>>

\* The zombies on p's children list.
Zombies(p) == {c \in Children(p) : st[c] = "ZOMBIE"}

\* Mutation-testing variant of wait_reap: the pid is not released.
wait_reap_keeps_pid(p) ==
  /\ pc[p] = "scan" /\ ~Halted
  /\ \E c \in Zombies(p) :
       /\ st' = [st EXCEPT ![c] = "FREE"]
       /\ parent' = [parent EXCEPT ![c] = None]
  /\ pc' = [pc EXCEPT ![p] = "run"]
  /\ UNCHANGED <<pid, pidMap, lastPid, sem, killed, made, spawned>>

(* wait, lines 138-149 under treelock: a zombie child (the first on the   *)
(* list; any, as list order is not modelled) is detached, its pid         *)
(* released and the proc kfree'd; wait returns its pid.                    *)
wait_reap(p) ==
  /\ pc[p] = "scan" /\ ~Halted
  /\ \E c \in Zombies(p) :
       /\ st' = [st EXCEPT ![c] = "FREE"]
       /\ parent' = [parent EXCEPT ![c] = None]
       /\ pidMap' = pidMap \ {pid[c]}
  /\ pc' = [pc EXCEPT ![p] = "run"]
  /\ UNCHANGED <<pid, lastPid, sem, killed, made, spawned>>

\* wait, lines 151-153: no zombie child after the wake-up: PANIC().
wait_panic(p) ==
  /\ pc[p] = "scan" /\ ~Halted
  /\ Zombies(p) = {}
  /\ pc' = [pc EXCEPT ![p] = "panic"]
  /\ UNCHANGED <<st, parent, pid, pidMap, lastPid, sem, killed, made, spawned>>

\* The procs dfs_tree visits from q: its children lists, n levels deep.
RECURSIVE Subtree(_, _)
Subtree(q, n) ==
  IF n = 0 THEN {} ELSE UNION {{c} \cup Subtree(c, n - 1) : c \in Children(q)}

(* kill(k), under treelock: dfs_tree from root_proc finds a proc with pid *)
(* k that is not UNUSED, sets killed and alerts it.  (No such proc: kill  *)
(* returns -1 and nothing changes.)                                        *)
kill(p, k) ==
  /\ Ready(p)
  /\ \E c \in Subtree(Root, Cardinality(Procs)) :
       /\ pid[c] = k /\ st[c] # "UNUSED"
       /\ killed' = [killed EXCEPT ![c] = TRUE]
  /\ UNCHANGED <<st, parent, pid, pidMap, lastPid, sem, pc, made, spawned>>

Next ==
  \/ \E p \in Slots :
       \/ \E c \in Procs : create_proc(p, c)
       \/ set_parent_to_this(p) \/ start_proc(p)
       \/ exit_tree(p) \/ exit_sched(p)
       \/ wait_check(p) \/ wait_sem(p) \/ wait_reap(p) \/ wait_panic(p)
       \/ \E k \in Pids : kill(p, k)

Spec == Init /\ [][Next]_vars

-----------------------------------------------------------------------------
(* get_pid's two loops find the next free pid after last_pid, wrapping    *)
(* around to 0: the least free pid at or above last_pid + 1 if there is   *)
(* one, else the least free pid, else -1.  Checked in every reachable     *)
(* state, on the pid map and last_pid that create_proc would use.          *)
NextFitRef(map, last) ==
  LET fr == Pids \ map
      up == {q \in fr : q >= (last + 1) % MAX_PID}
  IN IF fr = {} THEN -1 ELSE IF up # {} THEN Min(up) ELSE Min(fr)

GetPidNextFit == get_pid(pidMap, lastPid) = NextFitRef(pidMap, lastPid)

(* Pids are unique and never leak: across create_proc and wait's reaping *)
(* by other processes, the pid map holds exactly the pids of allocated    *)
(* procs, and no two allocated procs share a pid.                          *)
Allocated == {q \in Slots : st[q] # "FREE"}

PidsUnique ==
  /\ pidMap = {pid[q] : q \in Allocated}
  /\ \A q1, q2 \in Allocated : q1 # q2 => pid[q1] # pid[q2]

(* The tree stays connected: every allocated proc that has a parent has   *)
(* root_proc or a live process that has not begun exit as its parent, so *)
(* exit's hand-over of children happens before the parent can be reaped  *)
(* and kfree'd, and no proc points at freed memory.                        *)
TreeIntact ==
  \A c \in Allocated \ {Root} :
    parent[c] # None => parent[c] = Root \/ (Live(parent[c]) /\ pc[parent[c]] # "exiting")

(* wait never PANICs: once wait_sem returns, the process has a zombie     *)
(* child to reap (wait's comment: "if any child exits, clean it up and   *)
(* return its pid").                                                       *)
NoWaitPanic == \A q \in Slots : pc[q] # "panic"
====
