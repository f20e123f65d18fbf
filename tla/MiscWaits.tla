------------------------------ MODULE MiscWaits ------------------------------
(***************************************************************************)
(* Processes that wait in the small modules of the book: readers of sleepy *)
(* for a flag, readers of complete for a completion, and readers of the    *)
(* four files of jit_fn for the jiffies, which go round.                   *)
(***************************************************************************)
EXTENDS Integers, FiniteSets

CONSTANTS
  MwReaders,
  MaxWrites,   \* bound
  Jiffies,     \* values of the counter; half of them count as later
  Delays       \* jiffies to wait

VARIABLES
  mw_kind,     \* "sleepy", "complete" or a file of jit
  flag,        \* of sleepy; comp.done of complete
  mw_at,       \* of each reader
  mw_write,    \* of the writer
  writes, returned,
  jiffies, delay, j1, elapsed,
  mw_trouble

waitVars == <<mw_kind, flag, mw_at, mw_write, writes, returned, jiffies, delay, j1,
              elapsed, mw_trouble>>
sleeping == <<flag, mw_at, mw_write, writes, returned>>
delaying == <<jiffies, delay, j1, elapsed>>

JitFiles == {"JIT_BUSY", "JIT_SCHED", "JIT_QUEUE", "JIT_SCHEDTO"}

Init ==
  /\ mw_kind \in {"sleepy", "complete"} \cup JitFiles
  /\ flag = 0 /\ mw_at = [r \in MwReaders |-> "out"] /\ mw_write = "out"
  /\ writes = 0 /\ returned = 0
  /\ jiffies = Jiffies - 1 /\ j1 = 0 /\ elapsed = 0
  /\ delay \in (IF mw_kind \in JitFiles THEN Delays ELSE {0})
  /\ mw_trouble = {}

Go(r, place) == mw_at' = [mw_at EXCEPT ![r] = place]
Asleep == {r \in MwReaders : mw_at[r] = "asleep"}
Woken(rs) == [r \in MwReaders |-> IF r \in rs THEN "test" ELSE mw_at[r]]
If(what, when) == IF when THEN {what} ELSE {}

-----------------------------------------------------------------------------
(* sleepy *)

\* wait_event_interruptible: who finds the flag down is on the queue by then.
Read(r) ==
  /\ mw_kind \in {"sleepy", "complete"} /\ mw_at[r] = "out"
  /\ Go(r, "test")
  /\ UNCHANGED <<mw_kind, flag, mw_write, writes, returned, delaying, mw_trouble>>

Test(r) ==
  /\ mw_kind = "sleepy" /\ mw_at[r] = "test"
  /\ Go(r, IF flag = 0 THEN "asleep" ELSE "clear")
  /\ UNCHANGED <<mw_kind, flag, mw_write, writes, returned, delaying, mw_trouble>>

\* A signal ends the wait too, and nobody looks at what it returned.
Signal(r) ==
  /\ mw_kind = "sleepy" /\ mw_at[r] = "asleep"
  /\ Go(r, "clear") /\ mw_trouble' = mw_trouble \cup {"signal"}
  /\ UNCHANGED <<mw_kind, flag, mw_write, writes, returned, delaying>>

\* The flag that is cleared may have been set again for others.
sleepy_read(r) ==
  /\ mw_kind = "sleepy" /\ mw_at[r] = "clear"
  /\ Go(r, "out") /\ flag' = 0
  /\ UNCHANGED <<mw_kind, mw_write, writes, returned, delaying, mw_trouble>>

\* Fault: sleepers are woken before the flag is set.
Order_Woken == <<"wake", "set">>

Order == <<"set", "wake">>

sleepy_write ==
  /\ mw_kind = "sleepy"
  /\ \/ /\ mw_write = "out" /\ writes < MaxWrites
        /\ writes' = writes + 1 /\ mw_write' = Order[1]
        /\ UNCHANGED <<flag, mw_at>>
     \/ /\ mw_write = "set" /\ flag' = 1
        /\ mw_write' = IF Order[1] = "set" THEN "wake" ELSE "out"
        /\ UNCHANGED <<mw_at, writes>>
     \/ /\ mw_write = "wake" /\ mw_at' = Woken(Asleep)
        /\ mw_write' = IF Order[1] = "set" THEN "out" ELSE "set"
        /\ UNCHANGED <<flag, writes>>
  /\ UNCHANGED <<mw_kind, returned, delaying, mw_trouble>>

-----------------------------------------------------------------------------
(* complete: both functions work under the lock of the completion's queue *)

complete_read(r) ==
  /\ mw_kind = "complete" /\ mw_at[r] = "test"
  /\ IF flag = 0
     THEN Go(r, "asleep") /\ UNCHANGED <<flag, returned>>
     ELSE Go(r, "out") /\ flag' = flag - 1 /\ returned' = returned + 1
  /\ UNCHANGED <<mw_kind, mw_write, writes, delaying, mw_trouble>>

\* One waits exclusively: one is woken.
complete_write ==
  /\ mw_kind = "complete" /\ writes < MaxWrites
  /\ writes' = writes + 1 /\ flag' = flag + 1
  /\ IF Asleep = {} THEN UNCHANGED mw_at ELSE \E r \in Asleep : mw_at' = Woken({r})
  /\ UNCHANGED <<mw_kind, mw_write, returned, delaying, mw_trouble>>

-----------------------------------------------------------------------------
(* jit_fn: one process *)

Me == CHOOSE r \in MwReaders : TRUE

Begin ==
  /\ mw_kind \in JitFiles /\ mw_at[Me] = "out"
  /\ j1' = (jiffies + delay) % Jiffies /\ elapsed' = 0
  /\ Go(Me, "wait") /\ mw_trouble' = If("too long", delay > Jiffies \div 2)
  /\ UNCHANGED <<mw_kind, flag, mw_write, writes, returned, jiffies, delay>>

\* time_before(jiffies, j1): the difference as a signed number
Before == (j1 - jiffies) % Jiffies \in 1 .. Jiffies \div 2

\* Two of the files look at the jiffies time and again; the kernel's timeouts
\* count for themselves, and a signal ends them.
jit_fn ==
  /\ mw_kind \in JitFiles /\ mw_at[Me] = "wait"
  /\ \/ mw_kind \in {"JIT_BUSY", "JIT_SCHED"} /\ ~Before /\ UNCHANGED mw_trouble
     \/ mw_kind \in {"JIT_QUEUE", "JIT_SCHEDTO"} /\ elapsed >= delay /\ UNCHANGED mw_trouble
     \/ /\ mw_kind \in {"JIT_QUEUE", "JIT_SCHEDTO"}
        /\ mw_trouble' = mw_trouble \cup {"signal"}
  /\ Go(Me, "printed")
  /\ UNCHANGED <<mw_kind, flag, mw_write, writes, returned, delaying>>

Printed ==
  /\ mw_kind \in JitFiles /\ mw_at[Me] = "printed" /\ Go(Me, "out")
  /\ UNCHANGED <<mw_kind, flag, mw_write, writes, returned, delaying, mw_trouble>>

\* Nobody is kept from the processor for half the range of the counter.
Tick ==
  /\ mw_kind \in JitFiles /\ mw_at[Me] # "printed"
  /\ mw_at[Me] = "wait" => elapsed < delay + Jiffies \div 2 - 1
  /\ jiffies' = (jiffies + 1) % Jiffies
  /\ elapsed' = IF mw_at[Me] = "wait" THEN elapsed + 1 ELSE 0
  /\ UNCHANGED <<mw_kind, sleeping, delay, j1, mw_trouble>>

Next ==
  \/ \E r \in MwReaders : \/ Read(r) \/ Test(r) \/ Signal(r) \/ sleepy_read(r)
                          \/ complete_read(r)
  \/ sleepy_write \/ complete_write
  \/ Begin \/ jit_fn \/ Printed \/ Tick

Waiting ==
  \/ \E r \in MwReaders : Test(r) \/ sleepy_read(r) \/ complete_read(r)
  \/ sleepy_write /\ mw_write # "out"
  \/ jit_fn \/ Printed \/ Tick

-----------------------------------------------------------------------------
(* Properties *)

\* Nobody sleeps while the flag is up, unless its writer is about to wake.
SleepersWoken ==
  mw_kind = "sleepy" /\ flag = 1 => Asleep = {} \/ mw_write = "wake"

\* Each write of complete lets one read return, and none sleeps that may.
OneForOne ==
  mw_kind = "complete" =>
    /\ returned + flag = writes
    /\ Asleep # {} => flag <= Cardinality({r \in MwReaders : mw_at[r] = "test"})

\* A delay lasts as long as it was told to, wherever the counter goes round,
\* unless a signal ends it or it is more than half the range of the counter.
DelayKept ==
  mw_kind \in JitFiles /\ mw_at[Me] = "printed" /\ mw_trouble = {} => elapsed >= delay

\* A read of jit ends, and a flag or a completion is taken if anybody waits.
WaitsEnd ==
  IF mw_kind \in JitFiles THEN mw_at[Me] = "out"
  ELSE flag = 0 \/ \A r \in MwReaders : mw_at[r] = "out"
=============================================================================
