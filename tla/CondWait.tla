------------------------------ MODULE CondWait ------------------------------
(***************************************************************************)
(* spurious_wakeup.cpp: two waiters and two wakers share one flag, ready,  *)
(* round after round.  Every access to ready is under cond.mMutex, and a   *)
(* section ends or goes to sleep without waiting, so a section is a step.  *)
(***************************************************************************)
VARIABLES
  cpc,      \* position of each thread
  ready,
  locked,   \* keeps Waiter2 spinning until a waker clears it
  merged    \* history: a waker has set the flag while it was set

condVars == <<cpc, ready, locked, merged>>

Waiters == {"Waiter1", "Waiter2"}
Wakers == {"T3", "T4"}

Starts == [t \in Waiters \union Wakers |->
             CASE t = "Waiter1" -> "test" [] t = "Waiter2" -> "spin" [] OTHER -> "set"]

Init == cpc = Starts /\ ready = FALSE /\ locked = TRUE /\ merged = FALSE

Go(t, where) == cpc' = [cpc EXCEPT ![t] = where]

Spin ==
  /\ cpc["Waiter2"] = "spin" /\ ~locked
  /\ Go("Waiter2", "test")
  /\ UNCHANGED <<ready, locked, merged>>

\* With the mutex, at first or again after pthread_cond_wait: take the flag
\* and leave, or sleep.
Test(w) ==
  /\ cpc[w] \in {"test", "woken"}
  /\ IF ready THEN ready' = FALSE /\ Go(w, "exit")
             ELSE Go(w, "asleep") /\ UNCHANGED ready
  /\ UNCHANGED <<locked, merged>>

\* pthread_cond_wait may return without a signal.
Spurious(w) ==
  cpc[w] = "asleep" /\ Go(w, "woken") /\ UNCHANGED <<ready, locked, merged>>

Set(k) ==
  /\ cpc[k] = "set"
  /\ ready' = TRUE
  /\ merged' = (merged \/ ready)
  /\ Go(k, "clear")
  /\ UNCHANGED locked

Clear(k) ==
  cpc[k] = "clear" /\ locked' = FALSE /\ Go(k, "signal") /\ UNCHANGED <<ready, merged>>

Asleep == {w \in Waiters : cpc[w] = "asleep"}

\* pthread_cond_signal: one of those asleep, if any
Signal(k) ==
  /\ cpc[k] = "signal"
  /\ \/ /\ Asleep = {}
        /\ Go(k, "exit")
     \/ \E w \in Asleep : cpc' = [cpc EXCEPT ![k] = "exit", ![w] = "woken"]
  /\ UNCHANGED <<ready, locked, merged>>

\* main() joins the four and starts the next round.
Round ==
  /\ \A t \in Waiters \union Wakers : cpc[t] = "exit"
  /\ cpc' = Starts /\ locked' = TRUE
  /\ UNCHANGED <<ready, merged>>

Thread(t) ==
  IF t \in Waiters THEN Test(t) ELSE Set(t) \/ Clear(t) \/ Signal(t)

Next ==
  \/ Spin \/ Round
  \/ \E t \in Waiters \union Wakers : Thread(t)
  \/ \E w \in Waiters : Spurious(w)

-----------------------------------------------------------------------------
(* Properties *)

\* As long as no waker finds the flag set, every round ends: the signal comes
\* after the mutex has been released and may find nobody asleep, the flag may
\* be taken by the waiter it was not meant for, and still both waiters leave.
\* Two settings in a row leave one waiter behind for good.
RoundsEnd ==
  []<>(merged \/ \A t \in Waiters \union Wakers : cpc[t] = "exit")

\* No round begins with a flag left over, and no waiter leaves without one.
FlagsMatch ==
  LET left == {w \in Waiters : cpc[w] = "exit"}
      set == {k \in Wakers : cpc[k] # "set"}
  IN  /\ ready => set # {}
      /\ (left = {} /\ set # {}) => ready
      /\ left = Waiters => set = Wakers /\ ~ready
=============================================================================
