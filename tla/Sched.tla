------------------------------- MODULE Sched -------------------------------
(***************************************************************************)
(* The scheduler of kernel/sched.c: the runnable queue, _activate_proc and *)
(* simple_sched (update_this_state, pick_next, update_this_proc) on NCPU   *)
(* CPUs.  Every one of these runs under the one sched lock (runlock), so   *)
(* each is a single step.  A CPU that runs its idle proc has thisproc =    *)
(* Idle.                                                                   *)
(*                                                                         *)
(* The list operations of common/list.c are not part of the repository.   *)
(* _insert_into_list is taken to link the node at one end of the list;    *)
(* the model lets it be either end.                                        *)
(***************************************************************************)
EXTENDS Naturals, Sequences, SequencesExt

CONSTANTS
    CPUS,       \* the CPUs (NCPU)
    Procs,      \* the proc structs that the scheduler sees
    Idle        \* stands for a CPU's own idle proc (cpus[i].sched.idle)

VARIABLES
    state,      \* p->state
    queue,      \* runnable_queue, in list order from its head
    thisproc    \* cpus[i].sched.thisproc

vars == <<state, queue, thisproc>>

ProcStates ==
    {"UNUSED", "RUNNABLE", "RUNNING", "SLEEPING", "DEEPSLEEPING", "ZOMBIE"}

TypeOK ==
    /\ state \in [Procs -> ProcStates]
    /\ queue \in Seq(Procs)
    /\ thisproc \in [CPUS -> Procs \cup {Idle}]

(* define_init(idle): every CPU starts on its idle proc; procs created by  *)
(* create_proc are UNUSED and not yet linked into the runnable queue.      *)
Init ==
    /\ state = [p \in Procs |-> "UNUSED"]
    /\ queue = <<>>
    /\ thisproc = [c \in CPUS |-> Idle]

(* _insert_into_list(&runnable_queue, &p->schinfo.runnable_queue).         *)
InsertIntoList(q, p) == {<<p>> \o q, Append(q, p)}

(* _activate_proc(p, onalert): a SLEEPING or UNUSED proc, or a            *)
(* DEEPSLEEPING one unless the call is an alert, becomes RUNNABLE and is   *)
(* linked into the queue.  Every other case returns false and changes      *)
(* nothing.  activate_proc (start_proc, post_sem) passes onalert = FALSE,  *)
(* alert_proc (kill) passes TRUE.                                          *)
activate(p, onalert) ==
    /\ \/ state[p] \in {"SLEEPING", "UNUSED"}
       \/ state[p] = "DEEPSLEEPING" /\ ~onalert
    /\ state' = [state EXCEPT ![p] = "RUNNABLE"]
    /\ \E q \in InsertIntoList(queue, p) : queue' = q
    /\ UNCHANGED thisproc

(* update_this_state: a proc that sleeps or exits leaves the queue; one    *)
(* that yields stays where it is.  The idle proc is never in the queue.    *)
QueueAfter(this, new_state) ==
    IF this # Idle /\ new_state \in {"SLEEPING", "DEEPSLEEPING", "ZOMBIE"}
    THEN Remove(queue, this)
    ELSE queue

StateAfter(this, new_state) ==
    IF this = Idle THEN state ELSE [state EXCEPT ![this] = new_state]

(* pick_next: the loop takes the first RUNNABLE proc of the list and       *)
(* breaks at once, so the comparison of schinfo.cnt is never reached (and  *)
(* cnt, which only that comparison reads, is left out).  With no RUNNABLE  *)
(* proc it returns this CPU's idle proc.                                   *)
pick_next(st, q) ==
    LET i == SelectInSeq(q, LAMBDA p : st[p] = "RUNNABLE")
    IN  IF i = 0 THEN Idle ELSE q[i]

(* simple_sched(new_state) on CPU c: update_this_state, pick_next,         *)
(* update_this_proc, and the picked proc becomes RUNNING.  The idle proc   *)
(* only ever yields (new_state = RUNNABLE); a proc may yield (the timer's  *)
(* interrupt, yield), sleep (wait_sem, unalertable_wait_sem) or exit.      *)
sched(c, new_state) ==
    LET this == thisproc[c]
        st   == StateAfter(this, new_state)
        q    == QueueAfter(this, new_state)
        next == pick_next(st, q)
    IN  /\ this = Idle => new_state = "RUNNABLE"
        /\ queue' = q
        /\ thisproc' = [thisproc EXCEPT ![c] = next]
        /\ state' = IF next = Idle THEN st ELSE [st EXCEPT ![next] = "RUNNING"]

(* interrupt(t): the timer handler of the running proc calls               *)
(* _sched(RUNNABLE).                                                       *)
interrupt(c) == sched(c, "RUNNABLE")

Next ==
    \/ \E p \in Procs, onalert \in BOOLEAN : activate(p, onalert)
    \/ \E c \in CPUS : interrupt(c)
    \/ \E c \in CPUS, ns \in {"SLEEPING", "DEEPSLEEPING", "ZOMBIE"} :
           thisproc[c] # Idle /\ sched(c, ns)

(* update_this_proc arms the picked proc's timer (set_cpu_timer), the idle *)
(* proc's included, so every CPU is interrupted again after ELAPSE ticks:  *)
(* weak fairness of each CPU's interrupt.                                  *)
Spec == Init /\ [][Next]_vars /\ \A c \in CPUS : WF_vars(interrupt(c))

-----------------------------------------------------------------------------
(* The timer interrupt exists so that runnable procs share the CPUs: a     *)
(* proc that is RUNNABLE (linked in the queue, picked by pick_next) must   *)
(* eventually run.  pick_next re-picks the first RUNNABLE proc of the list *)
(* every time, including the proc that has just been interrupted, so with  *)
(* more runnable procs than CPUs a proc further down the list waits for    *)
(* every proc in front of it to sleep.                                     *)
StarvationFree ==
    \A p \in Procs : state[p] = "RUNNABLE" ~> state[p] = "RUNNING"

=============================================================================
