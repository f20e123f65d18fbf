----------------------------- MODULE MCPrograms -----------------------------
(***************************************************************************)
(* The small programs that stand by themselves, each on a small instance:  *)
(* the first state says which one runs, and the variables of the others    *)
(* keep their first values.  The spin locks come from SpinLock itself.     *)
(***************************************************************************)
EXTENDS SpinLock

\* Each of the modules says what its own are.
CONSTANTS
  Word, Words, Wanted, Elements, Bytes, Capacity,   \* Allocators
  Callers, Users, Messages, MaxEntries,             \* Observers
  Procs,                                            \* ShareMem
  Clients, Traders, Instruments, MaxEach,           \* ProcessOrder
  MaxSent,                                          \* Signals
  Getters, Calls                                    \* OnceInit

\* Words have bits and objects have bytes, and the number of a slot is an
\* unsigned short.
ASSUME ProgramsAssumption ==
  /\ Word \in Nat \ {0} /\ Words \in Nat \ {0} /\ Wanted \subseteq Nat \ {0}
  /\ Elements \in Nat /\ Elements <= 65536 /\ Bytes \in [0 .. 1 -> Nat \ {0}] /\ Capacity \in Nat
  /\ MaxEntries \in Nat

\* No observer is the null pointer.
ASSUME UsersAssumption == "null" \notin Users

\* Slots of one and of three bytes
MCBytes == [o \in 0 .. 1 |-> 2 * o + 1]

VARIABLES
  program,
  mFreeBitMap, held,
  mFreeSlots, taken,
  FreeSlots, mSize, out,
  mObservables, entries, finish, op, subscribed, raced,
  cpc, ready, locked, merged,
  at, mutex, buffer_addr, pages_ptr_array, content, vm_area, mapped, user, written, oops, met,
  stage, messages, vEntryMsg, vAckMsg, vFillMsg, ActiveVector,
  LiquidityVector, ClientID2OrderEntry, TradesMap,
  run, lpc, committing, size, slot, mArray, queue, logged, dumper, todo, file,
  moved, damage, reader, got,
  installed, alive, sent, pending, handled, frames, gSignals, shown,
  method, oc_at, oc_tmp, calls, oc_mutex, mInstance, made, built, returned

Memory == INSTANCE Allocators
Observing == INSTANCE Observers
Waiting == INSTANCE CondWait
Sharing == INSTANCE ShareMem
Processing == INSTANCE ProcessOrder
Handling == INSTANCE Signals WITH gCount <- gSignals
Making == INSTANCE OnceInit
            WITH Callers <- Getters, Ordered <- TRUE, tmp <- oc_tmp

\* The binary log, with two binaries of one or two event classes
Logging == INSTANCE BinLog
             WITH Main <- "main", Workers <- {"worker"}, Events <- 2,
                  Known <- {1, 2}, Page <- 4, Follow <- FALSE,
                  MaxLog <- 2, MaxAll <- 2, MaxRuns <- 2

\* The same with a reader, who does not know the class of a third binary.
Following == INSTANCE BinLog
               WITH Main <- "main", Workers <- {"worker"}, Events <- 1,
                    Known <- {1, 2}, Page <- 4, Follow <- TRUE,
                    MaxLog <- 1, MaxAll <- 1, MaxRuns <- 2

Programs == {"locks", "bitmap", "stack", "orders", "observers", "waiters",
             "sharemem", "files", "binlog", "reader", "signals", "once"}

ProgramsInit ==
  /\ program \in Programs
  /\ Init /\ (program = "locks" \/ policy = "WILD")
  /\ Memory!BitmapInit /\ Memory!StackInit /\ Memory!PoolInit /\ Observing!Init
  /\ Waiting!Init /\ Sharing!Init /\ Processing!Init
  /\ Handling!Init /\ Making!Init /\ (program = "once" \/ method = "getInstance")
  /\ IF program = "reader" THEN Following!Init ELSE Logging!Init

bitmapVars == <<mFreeBitMap, held>>
stackVars == <<mFreeSlots, taken>>
poolVars == <<FreeSlots, mSize, out>>
observerVars == <<mObservables, entries, finish, op, subscribed, raced>>
condVars == <<cpc, ready, locked, merged>>
shareVars == <<at, mutex, buffer_addr, pages_ptr_array, content, vm_area, mapped,
               user, written, oops, met>>
orderVars == <<stage, messages, vEntryMsg, vAckMsg, vFillMsg, ActiveVector,
               LiquidityVector, ClientID2OrderEntry, TradesMap>>
logVars == <<run, lpc, committing, size, slot, mArray, queue, logged, dumper,
             todo, file, moved, damage, reader, got>>
signalVars == <<installed, alive, sent, pending, handled, frames, gSignals, shown>>
onceVars == <<method, oc_at, oc_tmp, calls, oc_mutex, mInstance, made, built, returned>>

Others ==
  /\ IF program = "locks" THEN TRUE ELSE UNCHANGED vars
  /\ IF program = "bitmap" THEN TRUE ELSE UNCHANGED bitmapVars
  /\ IF program = "stack" THEN TRUE ELSE UNCHANGED stackVars
  /\ IF program = "orders" THEN TRUE ELSE UNCHANGED poolVars
  /\ IF program = "observers" THEN TRUE ELSE UNCHANGED observerVars
  /\ IF program = "waiters" THEN TRUE ELSE UNCHANGED condVars
  /\ IF program = "sharemem" THEN TRUE ELSE UNCHANGED shareVars
  /\ IF program = "files" THEN TRUE ELSE UNCHANGED orderVars
  /\ IF program \in {"binlog", "reader"} THEN TRUE ELSE UNCHANGED logVars
  /\ IF program = "signals" THEN TRUE ELSE UNCHANGED signalVars
  /\ IF program = "once" THEN TRUE ELSE UNCHANGED onceVars

ProgramsNext ==
  /\ \/ program = "locks" /\ Next
     \/ program = "bitmap" /\ Memory!BitmapNext
     \/ program = "stack" /\ Memory!StackNext
     \/ program = "orders" /\ Memory!PoolNext
     \/ program = "observers" /\ Observing!Next
     \/ program = "waiters" /\ Waiting!Next
     \/ program = "sharemem" /\ Sharing!Next
     \/ program = "files" /\ Processing!Next
     \/ program = "binlog" /\ Logging!Next
     \/ program = "reader" /\ Following!Next
     \/ program = "signals" /\ Handling!Next
     \/ program = "once" /\ Making!Next
  /\ Others /\ UNCHANGED program

\* Threads are scheduled.  Processes may leave a driver alone, an allocator
\* may never be called again, and pthread_cond_wait need not return unasked.
ProgramsSpec ==
  /\ ProgramsInit
  /\ [][ProgramsNext]_<<program, vars, bitmapVars, stackVars, poolVars,
                        observerVars, condVars, shareVars, orderVars, logVars,
                        signalVars, onceVars>>
  /\ \A t \in Threads : WF_vars(program = "locks" /\ Thread(t))
  /\ \A t \in {"Waiter1", "Waiter2", "T3", "T4"} :
       WF_condVars(program = "waiters" /\ Waiting!Thread(t))
  /\ WF_condVars(program = "waiters" /\ (Waiting!Spin \/ Waiting!Round))
  /\ \A t \in {"main", "worker"} :
       WF_logVars(program = "binlog" /\ Logging!Register(t))
  /\ WF_logVars(program = "binlog" /\ (Logging!Section \/ Logging!Mark))
  /\ WF_logVars(program = "binlog" /\ Logging!Dump)
  /\ WF_logVars(program = "reader" /\ (Following!Section \/ Following!Mark))
  /\ WF_logVars(program = "reader" /\ Following!Dump)
  /\ WF_logVars(program = "reader" /\ Following!Reading)
  /\ WF_signalVars(program = "signals" /\ Handling!Running)
  /\ \A t \in Getters :
       WF_onceVars(program = "once" /\ Making!Thread(t))

-----------------------------------------------------------------------------
(* Properties *)

\* Every thread gets its turns, and no increment is lost on the way.
LocksCountAll == program = "locks" => []CountExact /\ AllDone

\* The three allocators hand out memory as a pool does: no two blocks overlap.
ArePools ==
  Memory!BitmapIsPool /\ Memory!StacksArePools /\ Memory!OrdersArePool

\* A notification reaches those who had subscribed, and both sides agree, where
\* subscriptions do not meet; no waiter leaves without a flag of its round; a signal reaches its handler,
\* which nothing interrupts that its mask keeps out.
Deliveries ==
  /\ Observing!ReachesSubscribed /\ Observing!SubscriptionsAgree
  /\ Waiting!FlagsMatch
  /\ program = "signals" =>
       Handling!MasksHold /\ Handling!SignalsCounted /\ Handling!IndexIsOwn

\* The processes share one page, unless two make one at once, and the threads one
\* object, made by the first of them; the bitmap is what is held, and the first fit is found.
MadeOnce ==
  /\ Sharing!OnePage
  /\ program = "once" => Making!OneInstance
  /\ program = "bitmap" => Memory!BitsAreHeld /\ Memory!FindsFirstFit

\* An order file yields the totals its messages say, or fails for a gap.
OrderFiles == Processing!ShowsTheTotals /\ Processing!FailsOnlyOnGaps

\* The log loses and reorders nothing, and whoever reads it while it is
\* written is given every entry once, whole and under its own class, across
\* restarts.
LogExact ==
  /\ program = "binlog" => Logging!NothingLost /\ Logging!SlotsWritten
  /\ program = "reader" =>
       /\ Following!NothingLost
       /\ Following!ReadsEntries /\ Following!ReadsTags
       /\ Following!KilledBehindDescriptions

\* Every round of waiters and wakers ends unless two wakers set one flag, what
\* is logged reaches the file and its reader, signals are handled, and calls for
\* an object return.
ComesToAnEnd ==
  /\ program = "waiters" => Waiting!RoundsEnd
  /\ program = "binlog" => Logging!ReachesFile
  /\ program = "reader" => Following!CatchesUp
  /\ program = "signals" => []<>Handling!SignalsHandled
  /\ program = "once" => <>Making!CallsEnd
=============================================================================
