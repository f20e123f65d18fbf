------------------------------ MODULE SpinLock ------------------------------
(***************************************************************************)
(* The spin locks of Utils/spinlock.hpp, used as Utils/test/spin_lock.cpp  *)
(* uses them: every thread increments gCount, a plain variable, under the  *)
(* lock, Loops times.  The alias SpinLock selects the policy: "WILD" is    *)
(* the test-and-set lock, "TICK" the ticket lock, whose two counters are   *)
(* ints and wrap around: Tickets is the number of their values.            *)
(*                                                                         *)
(* The increment is a load and a store.  The operations of the lock are    *)
(* atomic read-modify-writes, which the x86 build does not reorder with    *)
(* the accesses between lock() and unlock().                               *)
(***************************************************************************)
EXTENDS Naturals, FiniteSets, FiniteSetsExt

CONSTANTS
  Threads,
  Tickets,   \* 2^32 in the program
  Loops      \* gLoop_per_thread

ASSUME LockAssumption ==
  /\ IsFiniteSet(Threads)
  /\ Tickets \in Nat /\ Cardinality(Threads) <= Tickets
  /\ Loops \in Nat

VARIABLES
  policy,           \* of SpinLock: "WILD" or "TICK", never changed
  mLock,            \* WILD: the flag
  mNext, mOwner,    \* TICK: the next ticket, and the ticket served
  ticket,           \* nextOwner of each thread
  pc, tmp, loops,   \* each thread: position, gCount loaded, rounds done
  gCount

lockVars == <<mLock, mNext, mOwner, ticket>>
vars == <<policy, lockVars, pc, tmp, loops, gCount>>

Init ==
  /\ policy \in {"WILD", "TICK"}
  /\ mLock = FALSE
  /\ mNext = 0 /\ mOwner = 0
  /\ ticket = [t \in Threads |-> 0]
  /\ pc = [t \in Threads |-> "idle"]
  /\ tmp = [t \in Threads |-> 0]
  /\ loops = [t \in Threads |-> 0]
  /\ gCount = 0

Go(t, where) == pc' = [pc EXCEPT ![t] = where]

\* fetch_add(1) of a counter of limited width
Succ(n) == IF n = Tickets - 1 THEN 0 ELSE n + 1

-----------------------------------------------------------------------------
(* lock() *)

\* Fault: the counter is wider than the tickets of the threads.
Drawn_Wide == mNext + 1

\* mNext after the ticket has been drawn
Drawn == Succ(mNext)

\* TICK: draw a ticket.  WILD has nothing to do before it spins.
Draw(t) ==
  /\ pc[t] = "idle" /\ loops[t] < Loops
  /\ IF policy = "TICK"
     THEN ticket' = [ticket EXCEPT ![t] = mNext] /\ mNext' = Drawn
     ELSE UNCHANGED <<ticket, mNext>>
  /\ Go(t, "spin")
  /\ UNCHANGED <<policy, mLock, mOwner, tmp, loops, gCount>>

\* Fault: the spin ends as soon as the ticket has been passed.
Served_Passed(t) == ticket[t] <= mOwner

Served(t) == ticket[t] = mOwner

\* Fault: the value test_and_set returns is not looked at.
Clear_Ignored == TRUE

Clear == ~mLock

\* The last iteration of the spin; the others change nothing.
Lock(t) ==
  /\ pc[t] = "spin"
  /\ IF policy = "TICK" THEN Served(t) /\ UNCHANGED mLock
                        ELSE Clear /\ mLock' = TRUE
  /\ Go(t, "load")
  /\ UNCHANGED <<policy, mNext, mOwner, ticket, tmp, loops, gCount>>

-----------------------------------------------------------------------------
(* gCount++ under the lock *)

Load(t) ==
  /\ pc[t] = "load"
  /\ tmp' = [tmp EXCEPT ![t] = gCount]
  /\ Go(t, "store")
  /\ UNCHANGED <<policy, lockVars, loops, gCount>>

Store(t) ==
  /\ pc[t] = "store"
  /\ gCount' = tmp[t] + 1
  /\ Go(t, "unlock")
  /\ UNCHANGED <<policy, lockVars, tmp, loops>>

Unlock(t) ==
  /\ pc[t] = "unlock"
  /\ IF policy = "TICK" THEN mOwner' = Succ(mOwner) /\ UNCHANGED mLock
                        ELSE mLock' = FALSE /\ UNCHANGED mOwner
  /\ loops' = [loops EXCEPT ![t] = @ + 1]
  /\ Go(t, "idle")
  /\ UNCHANGED <<policy, mNext, ticket, tmp, gCount>>

-----------------------------------------------------------------------------
Thread(t) == Draw(t) \/ Lock(t) \/ Load(t) \/ Store(t) \/ Unlock(t)
Next == \E t \in Threads : Thread(t)

Spec == Init /\ [][Next]_vars

\* Every thread is scheduled; a spin that may end keeps being tried.
FairSpec == Spec /\ \A t \in Threads : WF_vars(Thread(t))

-----------------------------------------------------------------------------
(* Properties *)

TicketValues == 0 .. Tickets - 1

\* Every variable stays in its type: the counters in the range of an int.
TypeOK ==
  /\ policy \in {"WILD", "TICK"}
  /\ mLock \in BOOLEAN
  /\ Threads # {} => mNext \in TicketValues /\ mOwner \in TicketValues
  /\ ticket \in [Threads -> Nat]
  /\ pc \in [Threads -> {"idle", "spin", "load", "store", "unlock"}]
  /\ tmp \in [Threads -> Nat] /\ loops \in [Threads -> Nat]
  /\ gCount \in Nat

Inside(t) == pc[t] \in {"load", "store", "unlock"}

\* One thread at a time is between lock() and unlock(), also after the ticket
\* counters have wrapped around and with as many threads as tickets.
MutualExclusion ==
  \A t, u \in Threads : Inside(t) /\ Inside(u) => t = u

\* No increment of gCount is lost: the test prints gCount / gLoop_per_thread
\* as the number of threads (spin_lock.cpp, line 80).
CountExact ==
  gCount = MapThenSumSet(LAMBDA t : loops[t], Threads)
             + Cardinality({t \in Threads : pc[t] = "unlock"})

\* The ticket lock serves the threads in the order of their tickets.
Asking(t) == pc[t] # "idle"
Distance(t) ==
  IF ticket[t] >= mOwner THEN ticket[t] - mOwner
                         ELSE ticket[t] - mOwner + Tickets
Askers == {t \in Threads : Asking(t)}
Before(t) == {u \in Askers : Distance(u) < Distance(t)}
Line ==
  [i \in 1 .. Cardinality(Askers) |->
     CHOOSE t \in Askers : Cardinality(Before(t)) = i - 1]

Ticking == policy = "TICK"
Fifo == INSTANCE FifoLock
          WITH line <- IF Ticking THEN Line ELSE <<>>,
               inside <- Ticking /\ \E t \in Threads : Inside(t)
IsFifoLock == Fifo!Spec

\* Every thread gets the lock as often as it asks for it.
AllDone == <>(\A t \in Threads : loops[t] = Loops)
=============================================================================
