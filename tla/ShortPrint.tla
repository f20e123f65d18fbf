----------------------------- MODULE ShortPrint -----------------------------
(***************************************************************************)
(* The output side of the printer driver ldd3-master/shortprint.  Writers  *)
(* fill a circular page under a mutex; a workqueue hands it to the printer *)
(* byte by byte, once at the start of the output and then once for every   *)
(* interrupt; a timer stands in for interrupts that are lost; a release    *)
(* waits for the end of the output.  Sections of shortp_out_lock are       *)
(* single steps, the writer's head and the tests of shortp_output_active   *)
(* outside the lock steps of their own.                                    *)
(***************************************************************************)
EXTENDS Integers, FiniteSets

CONSTANTS
  Writers,   \* processes with the device open
  Page,      \* PAGE_SIZE
  Counts,    \* sizes of a write
  MaxBytes   \* bound: bytes copied in by all of them

VARIABLES
  shortp_out_head, shortp_out_tail, page,
  shortp_out_mutex, shortp_output_active,
  sp_at, left,              \* of each process: its place, bytes to write
  outWaiters, emptyWaiters, \* shortp_out_queue and shortp_empty_queue
  work, worker,             \* shortp_work is queued; where its function is
  timer, timeout,           \* shortp_timer is pending; where its function is
  busy, irq,                \* the printer, and its interrupt line
  copied, printed,          \* how many bytes have gone in and out
  bug                       \* add_timer was called on a pending timer

ring == <<shortp_out_head, shortp_out_tail, page, copied, printed>>
callers == <<shortp_out_mutex, sp_at, left>>
queues == <<outWaiters, emptyWaiters>>
output == <<shortp_output_active, work, timer, bug>>
printer == <<busy, irq>>
printVars == <<ring, callers, queues, output, worker, timeout, printer>>

MinSpace == Page \div 2   \* SP_MIN_SPACE

Init ==
  /\ shortp_out_head = 0 /\ shortp_out_tail = 0
  /\ page = [i \in 0 .. Page - 1 |-> 0]
  /\ shortp_out_mutex = {} /\ shortp_output_active = FALSE
  /\ sp_at = [w \in Writers |-> "open"] /\ left = [w \in Writers |-> 0]
  /\ outWaiters = {} /\ emptyWaiters = {}
  /\ work = FALSE /\ worker = "idle"
  /\ timer = FALSE /\ timeout = "idle"
  /\ busy = FALSE /\ irq = FALSE
  /\ copied = 0 /\ printed = 0
  /\ bug = FALSE

Go(w, place) == sp_at' = [sp_at EXCEPT ![w] = place]
Min2(a, b) == IF a < b THEN a ELSE b

\* Fault: a ring that starts at the tail may be filled up to its last byte.
shortp_out_space_Whole ==
  IF shortp_out_head >= shortp_out_tail
  THEN Page - shortp_out_head
  ELSE shortp_out_tail - shortp_out_head - 1

\* Contiguous space, and one byte less than would make the ring look empty
shortp_out_space ==
  IF shortp_out_head >= shortp_out_tail
  THEN Page - shortp_out_head - (IF shortp_out_tail = 0 THEN 1 ELSE 0)
  ELSE shortp_out_tail - shortp_out_head - 1

\* shortp_incr_out_bp
Incr(bp, incr) == (bp + incr) % Page

-----------------------------------------------------------------------------
(* Writers *)

\* shortp_write takes the mutex for the whole call.
Lock(w, n) ==
  /\ sp_at[w] = "open" /\ shortp_out_mutex = {} /\ copied + n <= MaxBytes
  /\ shortp_out_mutex' = {w}
  /\ left' = [left EXCEPT ![w] = n]
  /\ Go(w, "space")
  /\ UNCHANGED <<ring, queues, output, worker, timeout, printer>>

Unlock(w) ==
  /\ shortp_out_mutex' = {}
  /\ left' = [left EXCEPT ![w] = 0]
  /\ Go(w, "open")

Room(n) == shortp_out_head .. shortp_out_head + n - 1

\* The first test of the space, and that of wait_event after joining the
\* queue; the bytes are copied before the head is moved.
Space(w) ==
  /\ sp_at[w] \in {"space", "retest"}
  /\ \/ /\ shortp_out_space > 0
        /\ LET n == Min2(shortp_out_space, left[w]) IN
           /\ page' = [i \in DOMAIN page |->
                IF i \in Room(n) THEN copied + 1 + i - shortp_out_head ELSE page[i]]
           /\ copied' = copied + n
           /\ shortp_out_head' = Incr(shortp_out_head, n)
           /\ left' = [left EXCEPT ![w] = @ - n]
        /\ Go(w, "start")
        /\ outWaiters' = outWaiters \ {w}
        /\ UNCHANGED shortp_out_mutex
     \/ /\ shortp_out_space <= 0 /\ sp_at[w] = "space"
        /\ outWaiters' = outWaiters \cup {w}
        /\ Go(w, "retest")
        /\ UNCHANGED <<page, copied, shortp_out_head, left, shortp_out_mutex>>
     \/ /\ shortp_out_space <= 0 /\ sp_at[w] = "retest"
        /\ Go(w, "asleep")
        /\ UNCHANGED <<page, copied, shortp_out_head, outWaiters, left, shortp_out_mutex>>
  /\ UNCHANGED <<shortp_out_tail, printed, emptyWaiters, output, worker, timeout, printer>>

\* A signal ends the wait, and the write with the bytes it has put in so far.
Signalled(w) ==
  /\ sp_at[w] \in {"retest", "asleep"} /\ shortp_out_space <= 0
  /\ outWaiters' = outWaiters \ {w}
  /\ Unlock(w)
  /\ UNCHANGED <<ring, emptyWaiters, output, worker, timeout, printer>>

\* copy_from_user fails, and the write with it: what it leaves in the page,
\* here zeros, is not part of the output, as the head stays.
CopyFails(w) ==
  /\ sp_at[w] \in {"space", "retest"} /\ shortp_out_space > 0
  /\ page' = [i \in DOMAIN page |->
                IF i \in Room(Min2(shortp_out_space, left[w])) THEN 0 ELSE page[i]]
  /\ outWaiters' = outWaiters \ {w}
  /\ Unlock(w)
  /\ UNCHANGED <<shortp_out_head, shortp_out_tail, copied, printed, emptyWaiters, output,
                 worker, timeout, printer>>

Woken(w) ==
  /\ sp_at[w] = "asleep" /\ w \notin outWaiters
  /\ Go(w, "space")
  /\ UNCHANGED <<ring, shortp_out_mutex, left, queues, output, worker, timeout, printer>>

\* add_timer, which must not find the timer pending
AddTimer == timer' = TRUE /\ bug' = (bug \/ timer)

\* shortp_start_output, under the lock, and the end of a turn of the loop
Start(w) ==
  /\ sp_at[w] = "start"
  /\ IF shortp_output_active
     THEN UNCHANGED output
     ELSE shortp_output_active' = TRUE /\ AddTimer /\ work' = TRUE
  /\ IF left[w] = 0 THEN Unlock(w)
     ELSE Go(w, "space") /\ UNCHANGED <<left, shortp_out_mutex>>
  /\ UNCHANGED <<ring, queues, worker, timeout, printer>>

\* shortp_release: a signal ends the wait for the printer.  An open changes
\* nothing, so that the next file may be in use at once.
shortp_release(w) ==
  /\ \/ /\ sp_at[w] = "open"
        /\ Go(w, "drain") /\ emptyWaiters' = emptyWaiters \cup {w}
     \/ /\ sp_at[w] = "drain"
        /\ IF shortp_output_active
           THEN Go(w, "draining") /\ UNCHANGED emptyWaiters
           ELSE Go(w, "open") /\ emptyWaiters' = emptyWaiters \ {w}
     \/ /\ sp_at[w] = "draining" /\ w \notin emptyWaiters
        /\ Go(w, "drain") /\ emptyWaiters' = emptyWaiters \cup {w}
     \/ /\ sp_at[w] \in {"drain", "draining"}
        /\ Go(w, "open") /\ emptyWaiters' = emptyWaiters \ {w}
  /\ UNCHANGED <<ring, shortp_out_mutex, left, outWaiters, output, worker, timeout, printer>>

-----------------------------------------------------------------------------
(* The output *)

\* The work's function starts, off the queue, and waits for the printer.
Begin ==
  /\ work /\ worker = "idle"
  /\ work' = FALSE /\ worker' = "waiting"
  /\ UNCHANGED <<ring, callers, queues, shortp_output_active, timer, bug, timeout, printer>>

\* shortp_do_work under the lock: the end of the output, or the next byte,
\* which sets the timer again; writers are woken over half a page of space,
\* which an empty page does not count as.
shortp_do_work ==
  /\ worker = "waiting" /\ ~busy
  /\ worker' = "idle"
  /\ IF shortp_out_head = shortp_out_tail
     THEN /\ shortp_output_active' = FALSE /\ timer' = FALSE
          /\ emptyWaiters' = {}
          /\ UNCHANGED <<shortp_out_tail, printed, busy>>
     ELSE /\ shortp_out_tail' = Incr(shortp_out_tail, 1)
          /\ printed' = page[shortp_out_tail]
          /\ timer' = TRUE
          /\ busy' = TRUE
          /\ UNCHANGED <<shortp_output_active, emptyWaiters>>
  /\ outWaiters' = IF (Page + shortp_out_tail' - shortp_out_head) % Page > MinSpace
                   THEN {} ELSE outWaiters
  /\ UNCHANGED <<shortp_out_head, page, copied, callers, work, bug, timeout, irq>>

\* The printer has taken the byte; its interrupt may be missed.
Done ==
  /\ busy /\ busy' = FALSE
  /\ irq' \in {irq, TRUE}
  /\ UNCHANGED <<ring, callers, queues, output, worker, timeout>>

shortp_interrupt ==
  /\ irq /\ irq' = FALSE
  /\ work' = (work \/ shortp_output_active)
  /\ UNCHANGED <<ring, callers, queues, shortp_output_active, timer, bug, worker, timeout, busy>>

\* shortp_timeout: the test outside the lock, the section, and the call of
\* the interrupt handler
Expire ==
  /\ timer /\ timeout = "idle"
  /\ timer' = FALSE
  /\ timeout' = IF shortp_output_active THEN "lock" ELSE "idle"
  /\ UNCHANGED <<ring, callers, queues, shortp_output_active, work, bug, worker, printer>>

shortp_timeout(ack) ==
  \/ /\ timeout = "lock"
     /\ IF busy \/ ack
        THEN AddTimer /\ timeout' = "idle"
        ELSE timeout' = "dropped" /\ UNCHANGED <<timer, bug>>
     /\ UNCHANGED <<ring, callers, queues, shortp_output_active, work, worker, printer>>
  \/ /\ timeout = "dropped"
     /\ timeout' = "idle"
     /\ work' = (work \/ shortp_output_active)
     /\ UNCHANGED <<ring, callers, queues, shortp_output_active, timer, bug, worker, printer>>

Process(w) == Space(w) \/ Woken(w) \/ Start(w)
Output == Begin \/ shortp_do_work \/ Done \/ shortp_interrupt

Next ==
  /\ ~bug
  /\ \/ \E w \in Writers : \/ shortp_release(w) \/ Process(w)
                           \/ Signalled(w) \/ CopyFails(w)
                           \/ \E n \in Counts : Lock(w, n)
     \/ Output \/ Expire
     \/ \E ack \in BOOLEAN : shortp_timeout(ack)

\* What has begun goes on, be there a signal or not: a writer in the driver, the workqueue and the
\* printer, the timer, and its function, which does not find the acknowledge
\* line set for ever.
Writing(w) == ~bug /\ Process(w)
Printing == ~bug /\ Output
Expires == ~bug /\ Expire
Answered == ~bug /\ shortp_timeout(FALSE)

-----------------------------------------------------------------------------
(* Properties *)

\* What is printed is what was written, in order and without a gap: the page
\* holds the bytes between, and never looks empty when it is full.
PrintsInOrder ==
  LET n == (Page + shortp_out_head - shortp_out_tail) % Page IN
  /\ copied - printed = n
  /\ \A i \in 0 .. n - 1 : page[(shortp_out_tail + i) % Page] = printed + 1 + i

\* While there is something to print, the output goes on: it is active, or
\* its writer is about to make it so.
OutputGoesOn ==
  shortp_out_head # shortp_out_tail =>
    shortp_output_active \/ \E w \in Writers : sp_at[w] = "start"

\* Active output always has a next step: work to do, a byte in the printer
\* whose interrupt or time will come.
NeverStuck ==
  shortp_output_active =>
    work \/ worker = "waiting" \/ irq \/ timer \/ timeout # "idle"

\* Time and again, all that was written is printed, although interrupts are
\* lost, and no writer sleeps on a page with room; unless the timer is added
\* twice.
AllPrinted == bug \/ (copied = printed /\ \A w \in Writers : sp_at[w] # "asleep")
=============================================================================
