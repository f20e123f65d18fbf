---------------------------- MODULE GracePeriod ----------------------------
(***************************************************************************)
(* What RCU::wait() promises, without versions, scans or memory: a wait    *)
(* that begins while some readers are inside their critical sections       *)
(* returns only after every one of those readers has left.  Readers that   *)
(* enter later need not be waited for.                                     *)
(***************************************************************************)
CONSTANT Readers

VARIABLES
  inside,    \* the readers between lock() and unlock()
  waiting,   \* a wait() is in progress
  pre        \* the readers the wait in progress still has to see leave

vars == <<inside, waiting, pre>>

Init ==
  /\ inside = {}
  /\ waiting = FALSE
  /\ pre = {}

Enter(r) ==
  /\ r \notin inside
  /\ inside' = inside \union {r}
  /\ UNCHANGED <<waiting, pre>>

Leave(r) ==
  /\ r \in inside
  /\ inside' = inside \ {r}
  /\ pre' = pre \ {r}
  /\ UNCHANGED waiting

BeginWait ==
  /\ ~waiting
  /\ waiting' = TRUE
  /\ pre' = inside
  /\ UNCHANGED inside

EndWait ==
  /\ waiting
  /\ pre = {}
  /\ waiting' = FALSE
  /\ UNCHANGED <<inside, pre>>

Next ==
  \/ \E r \in Readers : Enter(r) \/ Leave(r)
  \/ BeginWait
  \/ EndWait

Spec == Init /\ [][Next]_vars
=============================================================================
