----------------------------- MODULE DeferredWork -----------------------------
(***************************************************************************)
(* Reads that wait for what a timer, a tasklet or a work prints, of        *)
(* ldd3-master/misc-modules.                                               *)
(*                                                                         *)
(* jit.c, /proc/jitimer and /proc/jitasklet: the timer or tasklet prints a *)
(* number of lines into the reader's page, one each time it runs, and      *)
(* wakes the reader with the last one.  Every read has a structure of its  *)
(* own, so that one read stands for all; it is the function and its reader *)
(* that meet in it.                                                        *)
(*                                                                         *)
(* jiq.c, /proc/jiqwq, jiqwqdelay, jiqtasklet and jiqtimer: the first      *)
(* three are due again until the page is full, the timer runs once.  All   *)
(* reads share jiq_data and one wait queue.                                *)
(***************************************************************************)
EXTENDS Integers, FiniteSets

CONSTANT JIT_ASYNC_LOOPS   \* lines to print

VARIABLES
  loops,       \* lines still to be printed
  freed,       \* the structure has been freed
  jt_due,      \* the timer or tasklet is pending
  fn_at,       \* where its function is
  reader_at,   \* where the reader is
  queued,      \* the reader is on the wait queue
  printed_lines,
  jt_trouble

jitVars == <<loops, freed, jt_due, fn_at, reader_at, queued, printed_lines, jt_trouble>>

JitInit ==
  /\ loops = JIT_ASYNC_LOOPS /\ freed = FALSE
  /\ jt_due = FALSE /\ fn_at = "idle"
  /\ reader_at = "start" /\ queued = FALSE
  /\ printed_lines = 0
  /\ jt_trouble = {}

If(what, when) == IF when THEN {what} ELSE {}
Gone == reader_at \in {"returned", "interrupted"}

-----------------------------------------------------------------------------
(* The function of jit *)

\* jit_timer_fn and jit_tasklet_fn: print a line,
PrintLines ==
  /\ jt_due /\ fn_at = "idle"
  /\ jt_due' = FALSE
  /\ fn_at' = "count"
  /\ printed_lines' = printed_lines + 1
  /\ jt_trouble' = jt_trouble \cup If("data freed", freed) \cup If("page gone", Gone)
  /\ UNCHANGED <<loops, freed, reader_at, queued>>

\* Fault: the function stops a line early, and leaves the count at one.
Last_Early == loops = 2

Last == loops - 1 = 0

\* count it, and be due again,
Count ==
  /\ fn_at = "count"
  /\ loops' = loops - 1
  /\ IF Last
     THEN fn_at' = "wake" /\ UNCHANGED jt_due
     ELSE fn_at' = "idle" /\ jt_due' = TRUE
  /\ jt_trouble' = jt_trouble \cup If("data freed", freed)
  /\ UNCHANGED <<freed, reader_at, queued, printed_lines>>

\* or wake the reader: the queue is in the structure.
Wake ==
  /\ fn_at = "wake"
  /\ fn_at' = "idle"
  /\ queued' = FALSE
  /\ jt_trouble' = jt_trouble \cup If("late wake", freed)
  /\ UNCHANGED <<loops, freed, jt_due, reader_at, printed_lines>>

-----------------------------------------------------------------------------
(* jit_timer and jit_tasklet *)

Start ==
  /\ reader_at = "start"
  /\ \/ reader_at' = "test" /\ jt_due' = TRUE
     \/ reader_at' = "returned" /\ UNCHANGED jt_due   \* -ENOMEM
  /\ UNCHANGED <<loops, freed, fn_at, queued, printed_lines, jt_trouble>>

\* wait_event_interruptible: test, join the queue, test again, and sleep
Wait ==
  /\ \/ /\ reader_at \in {"test", "retest"} /\ loops = 0
        /\ reader_at' = "done" /\ queued' = FALSE
     \/ /\ reader_at = "test" /\ loops # 0
        /\ reader_at' = "retest" /\ queued' = TRUE
     \/ /\ reader_at = "retest" /\ loops # 0
        /\ reader_at' = "asleep" /\ UNCHANGED queued
     \/ /\ reader_at = "asleep" /\ ~queued
        /\ reader_at' = "test" /\ UNCHANGED queued
  /\ UNCHANGED <<loops, freed, jt_due, fn_at, printed_lines, jt_trouble>>

\* A signal, wherever it arrives: the structure is not freed.
Signal ==
  /\ reader_at \in {"retest", "asleep", "done"}
  /\ reader_at' = "interrupted" /\ queued' = FALSE
  /\ UNCHANGED <<loops, freed, jt_due, fn_at, printed_lines, jt_trouble>>

Free ==
  /\ reader_at = "done"
  /\ freed' = TRUE /\ reader_at' = "returned"
  /\ UNCHANGED <<loops, jt_due, fn_at, queued, printed_lines, jt_trouble>>

JitFunction == PrintLines \/ Count \/ Wake
JitReader == Wait \/ Free
JitNext == JitFunction \/ Start \/ JitReader \/ Signal

-----------------------------------------------------------------------------
(* Properties of jit *)

\* "Allocate everything to allow concurrency" (line 156): the function never
\* prints to a page or counts in a structure that is gone, unless the read was
\* interrupted; only its last wake-up may come after the structure was freed.
PrintsIntoOwnPage ==
  /\ "data freed" \notin jt_trouble
  /\ "page gone" \in jt_trouble => reader_at = "interrupted"
  /\ "late wake" \in jt_trouble => ~jt_due /\ fn_at = "idle"

\* A read that returns has all its lines, and nothing is left to run but that
\* wake-up; one that fails has none.
ReturnsAllLines ==
  freed => printed_lines = JIT_ASYNC_LOOPS /\ ~jt_due /\ fn_at \in {"idle", "wake"}

\* A read returns.
ReadReturns == reader_at = "start" \/ Gone

-----------------------------------------------------------------------------
(* jiq *)

CONSTANTS
  Readers,   \* processes that read one of the files
  LIMIT,     \* lines that fit
  MaxReads   \* bound: reads begun

VARIABLES
  jiq_data,   \* lines printed, and the reader whose page it is
  jiq_wait,   \* readers on the queue
  due,        \* functions that are scheduled: "wq", "delayed", "tasklet", "timer"
  jq_at,      \* of each reader: its place
  file,       \* of each reader: the file it reads
  reads,      \* reads begun
  jq_trouble

jiqVars == <<jiq_data, jiq_wait, due, jq_at, file, reads, jq_trouble>>

Works == {"wq", "delayed"}
Kinds == Works \cup {"tasklet", "timer"}
None == "none"

JiqInit ==
  /\ jiq_data = [len |-> 0, buf |-> None]
  /\ jiq_wait = {} /\ due = {}
  /\ jq_at = [r \in Readers |-> "out"] /\ file = [r \in Readers |-> None]
  /\ reads = 0
  /\ jq_trouble = {}

Go(r, place) == jq_at' = [jq_at EXCEPT ![r] = place]
Inside == {r \in Readers : jq_at[r] # "out"}

-----------------------------------------------------------------------------
(* The functions of jiq *)

\* jiq_print: a line, into a page that may be gone
PrintLine ==
  /\ jiq_data' = [jiq_data EXCEPT !.len = @ + 1]
  /\ jq_trouble' = jq_trouble \cup If("page gone", jiq_data.buf \notin Inside)

\* The page is full: the reader is woken.
Full == jiq_data.len > LIMIT

\* jiq_print_wq, jiq_print_wq_delayed and jiq_print_tasklet
Function(kind) ==
  /\ kind \in due /\ kind # "timer"
  /\ IF Full
     THEN /\ jiq_wait' = {} /\ due' = due \ {kind}
          /\ UNCHANGED <<jiq_data, jq_trouble>>
     ELSE PrintLine /\ UNCHANGED <<jiq_wait, due>>
  /\ UNCHANGED <<jq_at, file, reads>>

\* jiq_timedout
jiq_timedout ==
  /\ "timer" \in due
  /\ due' = due \ {"timer"}
  /\ IF Full THEN UNCHANGED <<jiq_data, jq_trouble>> ELSE PrintLine
  /\ jiq_wait' = {}
  /\ UNCHANGED <<jq_at, file, reads>>

-----------------------------------------------------------------------------
(* The readers of jiq *)

\* A read up to the schedule of the function: those with a work are on the queue
\* by then.
Read(r, kind) ==
  /\ jq_at[r] = "out" /\ reads < MaxReads
  /\ reads' = reads + 1
  /\ file' = [file EXCEPT ![r] = kind]
  /\ jiq_data' = [len |-> IF kind = "timer" THEN 1 ELSE 0, buf |-> r]
  /\ due' = due \cup {kind}
  /\ jiq_wait' = IF kind \in Works THEN jiq_wait \cup {r} ELSE jiq_wait
  /\ Go(r, IF kind \in Works THEN "asleep" ELSE "due")
  /\ jq_trouble' = jq_trouble \cup If("two readers", Inside # {})
                     \cup If("initialised twice", kind = "timer" /\ "timer" \in due)

jiq_read_wq(r) == Read(r, "wq")
jiq_read_wq_delayed(r) == Read(r, "delayed")
jiq_read_tasklet(r) == Read(r, "tasklet")
jiq_read_run_timer(r) == Read(r, "timer")

\* interruptible_sleep_on
SleepOn(r) ==
  /\ jq_at[r] = "due"
  /\ jiq_wait' = jiq_wait \cup {r}
  /\ jq_trouble' = jq_trouble \cup If("woken before", due = {})
  /\ Go(r, "asleep")
  /\ UNCHANGED <<jiq_data, due, file, reads>>

\* Fault: the timer is not deleted.
Deleted_Not(r) == {}

\* del_timer_sync
Deleted(r) == IF file[r] = "timer" THEN {"timer"} ELSE {}

\* The reader has been woken, or a signal has come; its page goes with it.
Return(r, signalled) ==
  /\ jq_at[r] = "asleep" /\ (signalled \/ r \notin jiq_wait)
  /\ jiq_wait' = jiq_wait \ {r}
  /\ due' = due \ Deleted(r)
  /\ Go(r, "out")
  /\ jq_trouble' = jq_trouble \cup If("signal", signalled /\ file[r] # "timer")
  /\ UNCHANGED <<jiq_data, file, reads>>

\* What a kernel goes on with
Running ==
  \/ \E kind \in Kinds : Function(kind)
  \/ jiq_timedout
  \/ \E r \in Readers : SleepOn(r) \/ Return(r, FALSE)

\* A behaviour ends with its first fault.
Healthy == {"page gone", "initialised twice"} \cap jq_trouble = {}

JiqNext ==
  /\ Healthy
  /\ \/ Running
     \/ \E r \in Readers :
          \/ jiq_read_wq(r) \/ jiq_read_wq_delayed(r) \/ jiq_read_tasklet(r)
          \/ jiq_read_run_timer(r) \/ Return(r, TRUE)

-----------------------------------------------------------------------------
(* Properties of jiq *)

\* Nobody prints into the page of a reader that has left, and no timer is
\* initialised while it is pending, unless two read at a time, or a signal ended
\* a read that has no timer: jiqtimer deletes it, "in case a signal woke us up"
\* (line 228).
PagesOfReaders ==
  {"page gone", "initialised twice"} \cap jq_trouble # {} =>
    {"two readers", "signal"} \cap jq_trouble # {}

\* Nothing is scheduled when the last reader has left.
NothingLeftDue ==
  Inside = {} /\ due # {} => {"two readers", "signal"} \cap jq_trouble # {}

\* Every read ends: those of jiqwq and jiqwqdelay always, the others unless they are woken
\* before they sleep, the "RACE" of line 227, which jiqtasklet has as well.
ReadsEnd ==
  \/ {"two readers", "signal", "woken before"} \cap jq_trouble # {}
  \/ Inside = {}
=============================================================================
