------------------------------ MODULE SDQueue ------------------------------
(***************************************************************************)
(* The block-device request queue of src/driver/sd.c: sdrw, sd_start and  *)
(* the interrupt handler sd_intr, over one SD card.                        *)
(*                                                                         *)
(* Each caller owns one buf and calls sdrw on it at most MaxRounds times,  *)
(* as a read or a write.  sdrw tests and pushes under the queue's own lock *)
(* (queue_lock), while sd_intr pops and restarts under sdlock, so the     *)
(* handler is two steps: pop-and-post, then start-the-next-head, and a     *)
(* caller's push can fall between them.                                   *)
(*                                                                         *)
(* The card serves one command at a time.  It answers a read with          *)
(* INT_READ_RDY (then INT_DATA_DONE, which sd_intr polls for) and a write  *)
(* with INT_DATA_DONE (sd_start itself polls INT_WRITE_RDY and pushes the  *)
(* data).  The answer stays in EMMC_INTERRUPT until sd_intr reads and      *)
(* clears it.  sd_start PANICs if an interrupt is still pending; what      *)
(* sdSendCommandA does on a card that is still busy is not in the          *)
(* repository; the model lets it fail, so sd_start PANICs (lines 135-138), *)
(* and never lets a second command overtake the first.  Block numbers and data words are not modelled: a        *)
(* command is the buf it was sent for and whether it writes.               *)
(***************************************************************************)
EXTENDS Naturals, Sequences, SequencesExt

CONSTANTS
  Bufs,       \* the callers' bufs
  MaxRounds   \* sdrw calls per buf

VARIABLES
  queue,      \* buf_queue, front first
  card,       \* the command the card is serving, or NoCmd
  irq,        \* EMMC_INTERRUPT: NoIrq, or the answer to a command
  flags,      \* buf.flags: subset of {"DIRTY", "VALID"}
  done,       \* buf.done, the semaphore sdrw waits on
  pc,         \* per buf: where its caller is in sdrw
  rounds,     \* sdrw calls made per buf
  intr,       \* "idle", or "next": sd_intr between pop and restart
  panicked,   \* a PANIC() stopped the kernel
  answeredBy  \* history: <<b, c>> when sd_intr completed b on c's answer

vars == <<queue, card, irq, flags, done, pc, rounds, intr, panicked,
          answeredBy>>

Cmd == [buf : Bufs, write : BOOLEAN]
NoCmd == [buf |-> "none", write |-> FALSE]
Irq == [kind : {"READ_RDY", "DATA_DONE"}, cmd : Cmd]
NoIrq == [kind |-> "none"]

TypeOK ==
  /\ queue \in Seq(Bufs)
  /\ card \in Cmd \cup {NoCmd}
  /\ irq \in Irq \cup {NoIrq}
  /\ flags \in [Bufs -> SUBSET {"DIRTY", "VALID"}]
  /\ done \in [Bufs -> 0 .. MaxRounds]
  /\ pc \in [Bufs -> {"idle", "start", "wait", "ret"}]
  /\ rounds \in [Bufs -> 0 .. MaxRounds]
  /\ intr \in {"idle", "next"}
  /\ panicked \in BOOLEAN
  /\ answeredBy \subseteq Bufs \X Bufs

\* sd_init leaves the queue empty and the card idle.
Init ==
  /\ queue = <<>>
  /\ card = NoCmd
  /\ irq = NoIrq
  /\ flags = [b \in Bufs |-> {}]
  /\ done = [b \in Bufs |-> 0]
  /\ pc = [b \in Bufs |-> "idle"]
  /\ rounds = [b \in Bufs |-> 0]
  /\ intr = "idle"
  /\ panicked = FALSE
  /\ answeredBy = {}

(* sd_start(b), caller holding sdlock: PANIC if EMMC_INTERRUPT is set,    *)
(* else send the read or write command for b (write = flags & B_DIRTY).   *)
(* f is b's flags and pending whether EMMC_INTERRUPT is set, as sd_start  *)
(* reads them.                                                             *)
sd_start(b, f, pending) ==
  IF pending
    THEN /\ panicked' = TRUE /\ UNCHANGED card
  ELSE IF card # NoCmd
    THEN /\ panicked' = TRUE /\ UNCHANGED card     \* sdSendCommandA fails
    ELSE /\ card' = [buf |-> b, write |-> "DIRTY" \in f]
         /\ UNCHANGED panicked

(* The caller sets the buf up as a read (flags = 0) or a write (B_DIRTY),  *)
(* then sdrw: under queue_lock note whether the queue was empty and push.  *)
(* Only a caller that found it empty goes on to start and wait; the other  *)
(* returns from sdrw at once.                                              *)
sdrw_push(b) ==
  /\ ~panicked
  /\ pc[b] = "idle"
  /\ rounds[b] < MaxRounds
  /\ \E write \in BOOLEAN : flags' = [flags EXCEPT ![b] = IF write THEN {"DIRTY"} ELSE {}]
  /\ queue' = Append(queue, b)
  /\ rounds' = [rounds EXCEPT ![b] = @ + 1]
  /\ pc' = [pc EXCEPT ![b] = IF queue = <<>> THEN "start" ELSE "ret"]
  /\ UNCHANGED <<card, irq, done, intr, panicked, answeredBy>>

\* sdrw: acquire sdlock (free unless sd_intr is between its steps), sd_start(b).
sdrw_start(b) ==
  /\ ~panicked
  /\ pc[b] = "start"
  /\ intr = "idle"
  /\ sd_start(b, flags[b], irq # NoIrq)
  /\ pc' = [pc EXCEPT ![b] = "wait"]
  /\ UNCHANGED <<queue, irq, flags, done, rounds, intr, answeredBy>>

\* sdrw: wait_sem(&b->done).
sdrw_wait(b) ==
  /\ ~panicked
  /\ pc[b] = "wait"
  /\ done[b] > 0
  /\ done' = [done EXCEPT ![b] = @ - 1]
  /\ pc' = [pc EXCEPT ![b] = "ret"]
  /\ UNCHANGED <<queue, card, irq, flags, rounds, intr, panicked, answeredBy>>

\* The caller goes on after sdrw returned.
sdrw_return(b) ==
  /\ ~panicked
  /\ pc[b] = "ret"
  /\ pc' = [pc EXCEPT ![b] = "idle"]
  /\ UNCHANGED <<queue, card, irq, flags, done, rounds, intr, panicked, answeredBy>>

\* The card finishes its command and raises the interrupt that answers it.
card_answer ==
  /\ ~panicked
  /\ card # NoCmd
  /\ irq = NoIrq
  /\ irq' = [kind |-> IF card.write THEN "DATA_DONE" ELSE "READ_RDY", cmd |-> card]
  /\ card' = NoCmd
  /\ UNCHANGED <<queue, flags, done, pc, rounds, intr, panicked, answeredBy>>

(* sd_intr on the front buf b, answered by c: set or clear a flag, pop,   *)
(* post b's semaphore; the restart of the next head is the next step.      *)
Finish(b, c, f) ==
  /\ flags' = [flags EXCEPT ![b] = f]
  /\ queue' = Tail(queue)
  /\ done' = [done EXCEPT ![b] = @ + 1]
  /\ answeredBy' = answeredBy \cup {<<b, c.buf>>}
  /\ intr' = "next"
  /\ UNCHANGED <<card, panicked>>

(* sd_intr: under sdlock, read and clear EMMC_INTERRUPT; with an empty    *)
(* queue return; else act on the front buf whichever command the answer   *)
(* is for: a read answer completes a buf that is neither DIRTY nor VALID, *)
(* a write answer completes a DIRTY buf and restarts a buf that is not    *)
(* VALID, and anything else is skipped.                                    *)
sd_intr ==
  /\ ~panicked
  /\ irq # NoIrq
  /\ intr = "idle"
  /\ irq' = NoIrq
  /\ IF queue = <<>>
       THEN UNCHANGED <<queue, card, flags, done, intr, panicked, answeredBy>>
     ELSE LET b == Head(queue) IN
       CASE irq.kind = "READ_RDY" /\ flags[b] = {} ->
              Finish(b, irq.cmd, {"VALID"})
         [] irq.kind = "DATA_DONE" /\ "DIRTY" \in flags[b] ->
              Finish(b, irq.cmd, flags[b] \ {"DIRTY"})
         [] irq.kind = "DATA_DONE" /\ "VALID" \notin flags[b] ->
              /\ sd_start(b, flags[b], FALSE)
              /\ UNCHANGED <<queue, flags, done, intr, answeredBy>>
         [] OTHER ->
              UNCHANGED <<queue, card, flags, done, intr, panicked, answeredBy>>
  /\ UNCHANGED <<pc, rounds>>

\* sd_intr, still under sdlock: if the queue is not empty, start its front.
sd_intr_next ==
  /\ ~panicked
  /\ intr = "next"
  /\ IF queue # <<>> THEN sd_start(Head(queue), flags[Head(queue)], irq # NoIrq)
                     ELSE UNCHANGED <<card, panicked>>
  /\ intr' = "idle"
  /\ UNCHANGED <<queue, irq, flags, done, pc, rounds, answeredBy>>

Next ==
  \/ \E b \in Bufs : sdrw_push(b) \/ sdrw_start(b) \/ sdrw_wait(b) \/ sdrw_return(b)
  \/ card_answer \/ sd_intr \/ sd_intr_next

Spec == Init /\ [][Next]_vars

-----------------------------------------------------------------------------
(* sd_intr completes a buf only on the answer to that buf's own command   *)
(* (spec 4.1: the handler drains "the block's words" into the head).  A    *)
(* stale answer, to a command sd_start sent twice or for a buf already     *)
(* popped, would hand the front buf another block's data, or report its   *)
(* write done when it was never sent.                                      *)
AnswerMatchesBuf == \A p \in answeredBy : p[1] = p[2]

(* sdrw returns only once its I/O is done (spec 4.1, "blocks until I/O    *)
(* completes"): the buf has left the queue and, if it was a write, its    *)
(* DIRTY flag is cleared.                                                  *)
CompletedOnReturn ==
  \A b \in Bufs : pc[b] = "ret" =>
    /\ b \notin Range(queue)
    /\ "DIRTY" \notin flags[b]
====
