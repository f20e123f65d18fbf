------------------------------ MODULE ShortIrq ------------------------------
(***************************************************************************)
(* The interrupt node of ldd3-master/short/short.c.  Every interrupt is    *)
(* recorded by a line with its time in a circular page that processes      *)
(* read; with a bottom half, a tasklet or a work, the handler only stores  *)
(* the time in a circular array, which the bottom half prints.  No lock is *)
(* held anywhere, and a slow reader may be overrun.                        *)
(*                                                                         *)
(* Times count the interrupts, and the page holds the number of each line. *)
(***************************************************************************)
EXTENDS Integers, FiniteSets

CONSTANTS
  Readers,      \* processes that read the device
  Lines,        \* lines in a page
  NR_TIMEVAL,   \* times in the array
  MaxIrqs       \* bound: interrupts

VARIABLES
  bh,                           \* a tasklet or a work is used
  si_page, short_head, short_tail, short_queue,
  tv_data, tv_head, tv_tail,
  bh_scheduled, bh_at,          \* the bottom half is due; where it is
  si_at, si_count,              \* of each reader: place, lines to copy
  irqs, lines, time, lastRead,  \* interrupts, lines, last time and line out
  si_trouble                    \* what has gone wrong, and what came of it

buffer == <<si_page, short_head, lines>>
array == <<tv_data, tv_head, tv_tail>>
reading == <<short_tail, si_at, si_count, lastRead>>
shortVars == <<bh, buffer, array, short_queue, bh_scheduled, bh_at, reading,
               irqs, time, si_trouble>>

Init ==
  /\ bh \in BOOLEAN
  /\ si_page = [i \in 0 .. Lines - 1 |-> 0]
  /\ short_head = 0 /\ short_tail = 0 /\ short_queue = {}
  /\ tv_data = [i \in 0 .. NR_TIMEVAL - 1 |-> 0] /\ tv_head = 0 /\ tv_tail = 0
  /\ bh_scheduled = FALSE /\ bh_at = "idle"
  /\ si_at = [r \in Readers |-> "idle"] /\ si_count = [r \in Readers |-> 0]
  /\ irqs = 0 /\ lines = 0 /\ time = 0 /\ lastRead = 0
  /\ si_trouble = {}

Go(r, place) == si_at' = [si_at EXCEPT ![r] = place]

\* short_incr_tv
short_incr_tv(i) == IF i = NR_TIMEVAL - 1 THEN 0 ELSE i + 1

\* short_incr_bp: a step that reaches the end starts again
short_incr_bp(i, n) == IF i + n >= Lines THEN 0 ELSE i + n

If(what, when) == IF when THEN {what} ELSE {}

\* sprintf to the head of the page, of a line with time t or of another one
PutLine(t) ==
  /\ si_page' = [si_page EXCEPT ![short_head] = lines + 1]
  /\ lines' = lines + 1
  /\ short_head' = short_incr_bp(short_head, 1)
  /\ time' = IF t = 0 THEN time ELSE t

\* The head has come round to the tail.
Overrun == If("overrun", short_head' = short_tail)

-----------------------------------------------------------------------------
(* Interrupts *)

\* short_interrupt
short_interrupt ==
  /\ ~bh /\ irqs < MaxIrqs
  /\ irqs' = irqs + 1
  /\ PutLine(irqs')
  /\ short_queue' = {}
  /\ si_trouble' = si_trouble \cup Overrun
  /\ UNCHANGED <<bh, array, bh_scheduled, bh_at, reading>>

\* short_wq_interrupt and short_tl_interrupt
short_tl_interrupt ==
  /\ bh /\ irqs < MaxIrqs
  /\ irqs' = irqs + 1
  /\ tv_data' = [tv_data EXCEPT ![tv_head] = irqs']
  /\ tv_head' = short_incr_tv(tv_head)
  /\ bh_scheduled' = TRUE
  /\ si_trouble' = si_trouble \cup If("array full", tv_head' = tv_tail)
  /\ UNCHANGED <<bh, buffer, tv_tail, short_queue, bh_at, reading, time>>

\* short_do_tasklet, which is no longer scheduled when it begins; the first
\* line is the number of interrupts
Begin ==
  /\ bh_scheduled /\ bh_at = "idle"
  /\ bh_scheduled' = FALSE /\ bh_at' = "loop"
  /\ PutLine(0)
  /\ si_trouble' = si_trouble \cup Overrun \cup If("nothing new", tv_tail = tv_head)
  /\ UNCHANGED <<bh, array, short_queue, reading, irqs>>

\* Fault: the end of the array is looked for before the tail is moved.
AtHead_Early == tv_tail = tv_head
AtHead == short_incr_tv(tv_tail) = tv_head

\* One turn of its loop, which tests for the head at the end
Loop ==
  /\ bh_at = "loop"
  /\ PutLine(tv_data[tv_tail])
  /\ tv_tail' = short_incr_tv(tv_tail)
  /\ bh_at' = IF AtHead THEN "wake" ELSE "loop"
  /\ si_trouble' = si_trouble \cup Overrun
                  \cup If("misprint", tv_data[tv_tail] # time + 1)
  /\ UNCHANGED <<bh, tv_data, tv_head, short_queue, bh_scheduled, reading, irqs>>

WakeUp ==
  /\ bh_at = "wake"
  /\ bh_at' = "idle" /\ short_queue' = {}
  /\ UNCHANGED <<bh, buffer, array, bh_scheduled, reading, irqs, time, si_trouble>>

-----------------------------------------------------------------------------
(* short_i_read *)

Empty == short_head = short_tail

\* The tests of an empty page
Test(r) ==
  /\ \/ si_at[r] = "idle" /\ ~Empty /\ Go(r, "count") /\ UNCHANGED short_queue
     \/ si_at[r] = "idle" /\ Empty /\ Go(r, "queued") /\ short_queue' = short_queue \cup {r}
     \/ /\ si_at[r] = "queued"
        /\ Go(r, IF Empty THEN "asleep" ELSE "idle")
        /\ short_queue' = IF Empty THEN short_queue ELSE short_queue \ {r}
     \/ /\ si_at[r] = "asleep" /\ r \notin short_queue
        /\ Go(r, "idle") /\ UNCHANGED short_queue
  /\ UNCHANGED <<bh, buffer, array, bh_scheduled, bh_at, short_tail, si_count, irqs,
                 time, lastRead, si_trouble>>

\* A signal ends the wait, and the read.
Signalled(r) ==
  /\ si_at[r] \in {"queued", "asleep"}
  /\ Go(r, "idle") /\ short_queue' = short_queue \ {r}
  /\ UNCHANGED <<bh, buffer, array, bh_scheduled, bh_at, short_tail, si_count, irqs,
                 time, lastRead, si_trouble>>

\* Contiguous lines up to the head, or up to the end of the page
Readable ==
  IF short_head >= short_tail THEN short_head - short_tail ELSE Lines - short_tail

Count(r, wanted) ==
  /\ si_at[r] = "count"
  /\ si_count' = [si_count EXCEPT ![r] = IF Readable < wanted THEN Readable ELSE wanted]
  /\ si_trouble' = si_trouble \cup
       If("two readers", \E q \in Readers \ {r} : si_at[q] \in {"copy", "advance"})
  /\ Go(r, "copy")
  /\ UNCHANGED <<bh, buffer, array, short_queue, bh_scheduled, bh_at, short_tail, irqs, time, lastRead>>

\* copy_to_user
Copy(r) ==
  LET n == si_count[r] IN
  /\ si_at[r] = "copy"
  /\ si_trouble' = si_trouble \cup
       If("misread", \E i \in 0 .. n - 1 : short_tail + i >= Lines
                        \/ si_page[(short_tail + i) % Lines] # lastRead + 1 + i)
  /\ lastRead' = lastRead + n
  /\ Go(r, "advance")
  /\ UNCHANGED <<bh, buffer, array, short_queue, bh_scheduled, bh_at, short_tail, si_count, irqs, time>>

\* copy_to_user fails: the tail stays, and the lines are there to be read.
CopyFails(r) ==
  /\ si_at[r] = "copy"
  /\ si_count' = [si_count EXCEPT ![r] = 0]
  /\ Go(r, "idle")
  /\ UNCHANGED <<bh, buffer, array, short_queue, bh_scheduled, bh_at, short_tail, irqs,
                 time, lastRead, si_trouble>>

Advance(r) ==
  /\ si_at[r] = "advance"
  /\ short_tail' = short_incr_bp(short_tail, si_count[r])
  /\ si_count' = [si_count EXCEPT ![r] = 0]
  /\ Go(r, "idle")
  /\ UNCHANGED <<bh, buffer, array, short_queue, bh_scheduled, bh_at, irqs, time, lastRead, si_trouble>>

Causes == {"overrun", "array full", "nothing new", "two readers"}

\* A behaviour ends with the first thing that goes wrong because of one.
Healthy == si_trouble \subseteq Causes

BottomHalf == Healthy /\ (Begin \/ Loop \/ WakeUp)
Reading(r) ==
  Healthy /\ (Test(r) \/ Copy(r) \/ Advance(r) \/ \E n \in {1, Lines} : Count(r, n))

Next ==
  \/ Healthy /\ (short_interrupt \/ short_tl_interrupt)
  \/ BottomHalf
  \/ \E r \in Readers : \/ Reading(r)
                        \/ Healthy /\ (Signalled(r) \/ CopyFails(r))

-----------------------------------------------------------------------------
(* Properties *)

\* The bottom half prints every time once and in order, "equivalent to the
\* previous" handler (line 339), unless it is due again although it has
\* already printed all, and then prints the whole array; or the array is full.
TimesInOrder ==
  "misprint" \in si_trouble => {"nothing new", "array full"} \cap si_trouble # {}

\* A read returns the lines that follow those read before, unless the page
\* has been overrun, or two processes read at a time.
LinesInOrder ==
  "misread" \in si_trouble => {"overrun", "two readers"} \cap si_trouble # {}

\* Time and again, every interrupt is printed, and no reader sleeps in front of
\* a line.
EveryIrqSeen ==
  \/ si_trouble # {}
  \/ time = irqs /\ ~bh_scheduled
     /\ (Empty \/ \A r \in Readers : si_at[r] # "asleep")
=============================================================================
