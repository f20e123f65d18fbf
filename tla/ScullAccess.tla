---------------------------- MODULE ScullAccess ----------------------------
(***************************************************************************)
(* Who may open the devices of Kernel/Driver/scull/access.c.  A behaviour  *)
(* is that of one of them: scullsingle is opened by one file at a time and *)
(* counts with an atomic; sculluid is opened by one user at a time and     *)
(* refuses the others; scullwuid makes them wait; scullpriv has a device   *)
(* for every terminal, in a list that only grows.                          *)
(*                                                                         *)
(* The two in the middle keep an open count and an owner under a spinlock, *)
(* whose sections are single steps; wait_event reads count and owner       *)
(* without it, one after the other.  The section of scullpriv has two,     *)
(* because its kmalloc may sleep, and the spinlock of a uniprocessor       *)
(* kernel then keeps nobody out.                                           *)
(***************************************************************************)
EXTENDS Integers, Sequences, FiniteSets

CONSTANTS
  Files,        \* files opened on the device
  Uid, Euid,    \* real and effective user of the process behind each
  Capable,      \* files whose process has CAP_DAC_OVERRIDE
  NonBlock,     \* files with O_NONBLOCK
  Root,         \* user 0, the initial value of the owner
  Tty, NoTty    \* terminal of the process behind each file, or none

ASSUME AccessAssumption ==
  /\ IsFiniteSet(Files)
  /\ Capable \subseteq Files /\ NonBlock \subseteq Files

VARIABLES
  device,              \* which of the four, never changed
  scull_s_available,   \* the atomic counter of scullsingle
  count, owner,        \* scull_u_count and _owner, or scull_w_count and _owner
  scull_w_wait,        \* files asleep or about to sleep
  at,                  \* where each file is
  seen,                \* the count a waiter has loaded
  uniprocessor,        \* spinlocks do nothing, never changed
  scull_c_lock,        \* files in a section of scullpriv
  scull_c_list,        \* keys of its devices, the newest last
  private_data         \* of each file of scullpriv, the place of its device

userVars == <<count, owner, scull_w_wait, seen>>
privVars == <<scull_c_lock, scull_c_list, private_data>>
kind == <<device, uniprocessor>>
vars == <<kind, scull_s_available, userVars, at, privVars>>

Init ==
  /\ device \in {"scullsingle", "sculluid", "scullwuid", "scullpriv"}
  /\ scull_s_available = 1
  /\ count = 0 /\ owner = Root
  /\ scull_w_wait = {}
  /\ at = [f \in Files |-> "closed"]
  /\ seen = [f \in Files |-> 0]
  /\ uniprocessor \in (IF device = "scullpriv" THEN BOOLEAN ELSE {FALSE})
  /\ scull_c_lock = {} /\ scull_c_list = <<>>
  /\ private_data = [f \in Files |-> 0]

Go(f, where) == at' = [at EXCEPT ![f] = where]

-----------------------------------------------------------------------------
(* scullsingle *)

\* The value of atomic_dec_and_test: the counter has become zero.
Granted == scull_s_available - 1 = 0

\* scull_s_open up to the test
Dec(f) ==
  /\ device = "scullsingle" /\ at[f] = "closed"
  /\ scull_s_available' = scull_s_available - 1
  /\ Go(f, IF Granted THEN "open" ELSE "refused")
  /\ UNCHANGED <<kind, userVars, privVars>>


Restored == scull_s_available + 1

\* The counter is put back and -EBUSY returned.
Busy(f) ==
  /\ at[f] = "refused"
  /\ scull_s_available' = Restored
  /\ Go(f, "closed")
  /\ UNCHANGED <<kind, userVars, privVars>>

scull_s_release(f) ==
  /\ device = "scullsingle" /\ at[f] = "open"
  /\ scull_s_available' = scull_s_available + 1
  /\ Go(f, "closed")
  /\ UNCHANGED <<kind, userVars, privVars>>

-----------------------------------------------------------------------------
(* sculluid and scullwuid *)

\* scull_w_available, and the negation of the test in scull_u_open
available(f, n, o) == n = 0 \/ o = Uid[f] \/ o = Euid[f] \/ f \in Capable

\* The owner once f is in: the first to open grabs the device.
Grabbed(f) == IF count = 0 THEN Uid[f] ELSE owner


Counted == count + 1

Admit(f) ==
  /\ available(f, count, owner)
  /\ owner' = Grabbed(f)
  /\ count' = Counted
  /\ Go(f, "open")
  /\ UNCHANGED <<kind, privVars, scull_s_available, scull_w_wait, seen>>

scull_u_open(f) ==
  /\ device = "sculluid" /\ at[f] = "closed"
  /\ \/ Admit(f)
     \/ /\ ~available(f, count, owner)   \* -EBUSY
        /\ UNCHANGED vars

\* A section of scull_w_open: the first, or one after a wait
scull_w_open(f) ==
  /\ device = "scullwuid" /\ at[f] \in {"closed", "again"}
  /\ \/ Admit(f)
     \/ /\ ~available(f, count, owner)
        /\ Go(f, IF f \in NonBlock THEN "closed" ELSE "wait")
        /\ UNCHANGED <<kind, privVars, scull_s_available, userVars>>

\* wait_event_interruptible: join the queue, load the count, then the owner
Wait(f) ==
  /\ at[f] = "wait"
  /\ scull_w_wait' = scull_w_wait \cup {f}
  /\ Go(f, "peek")
  /\ UNCHANGED <<kind, privVars, scull_s_available, count, owner, seen>>

Peek(f) ==
  /\ at[f] = "peek"
  /\ seen' = [seen EXCEPT ![f] = count]
  /\ Go(f, "test")
  /\ UNCHANGED <<kind, privVars, scull_s_available, count, owner, scull_w_wait>>

\* Fault: the condition is not looked at after joining the queue.
MustSleep_Blindly(f) == TRUE

MustSleep(f) == ~available(f, seen[f], owner)

\* With a signal pending a waiter that must sleep returns instead.
Test(f) ==
  /\ at[f] = "test"
  /\ seen' = [seen EXCEPT ![f] = 0]
  /\ IF MustSleep(f)
     THEN \/ Go(f, "asleep") /\ UNCHANGED scull_w_wait
          \/ Go(f, "closed") /\ scull_w_wait' = scull_w_wait \ {f}
     ELSE Go(f, "again") /\ scull_w_wait' = scull_w_wait \ {f}
  /\ UNCHANGED <<kind, privVars, scull_s_available, count, owner>>

Woke(f, signalled) ==
  /\ at[f] = "asleep"
  /\ signalled \/ f \notin scull_w_wait
  /\ Go(f, "wait")
  /\ UNCHANGED <<kind, privVars, scull_s_available, userVars>>

\* Fault: woken when the count is one, not when it has become zero.
WakesOthers_AtOne(n) == n = 1

WakesOthers(n) == n = 0

scull_u_release(f) ==
  /\ device = "sculluid" /\ at[f] = "open"
  /\ count' = count - 1
  /\ Go(f, "closed")
  /\ UNCHANGED <<kind, privVars, scull_s_available, owner, scull_w_wait, seen>>

\* scull_w_release up to the test of temp
scull_w_release(f) ==
  /\ device = "scullwuid" /\ at[f] = "open"
  /\ count' = count - 1
  /\ Go(f, IF WakesOthers(count - 1) THEN "waking" ELSE "closed")
  /\ UNCHANGED <<kind, privVars, scull_s_available, owner, scull_w_wait, seen>>

\* wake_up_interruptible_sync, after the lock has been released
Wake(f) ==
  /\ at[f] = "waking"
  /\ scull_w_wait' = {}
  /\ Go(f, "closed")
  /\ UNCHANGED <<kind, privVars, scull_s_available, count, owner, seen>>

-----------------------------------------------------------------------------
(* scullpriv *)

\* The device of a key, the newest first
Found(key) ==
  IF \E i \in DOMAIN scull_c_list : scull_c_list[i] = key
  THEN CHOOSE i \in DOMAIN scull_c_list :
         scull_c_list[i] = key /\ \A j \in DOMAIN scull_c_list : scull_c_list[j] = key => j <= i
  ELSE 0

\* scull_c_open up to the kmalloc of scull_c_lookfor_device: a process with no
\* terminal gets -EINVAL.
scull_c_open(f) ==
  /\ device = "scullpriv" /\ at[f] = "closed" /\ Tty[f] # NoTty
  /\ scull_c_lock = {} \/ uniprocessor
  /\ private_data' = [private_data EXCEPT ![f] = Found(Tty[f])]
  /\ IF Found(Tty[f]) # 0
     THEN Go(f, "open") /\ UNCHANGED scull_c_lock
     ELSE Go(f, "alloc") /\ scull_c_lock' = scull_c_lock \cup {f}
  /\ UNCHANGED <<kind, scull_s_available, userVars, scull_c_list>>

\* Fault: a device is put on the list with the key of the one before.
Listed_Last(f) == IF scull_c_list = <<>> THEN Tty[f] ELSE scull_c_list[Len(scull_c_list)]

Listed(f) == Tty[f]

\* The new device, or -ENOMEM
Clone(f) ==
  /\ at[f] = "alloc"
  /\ scull_c_lock' = scull_c_lock \ {f}
  /\ \/ /\ scull_c_list' = Append(scull_c_list, Listed(f))
        /\ private_data' = [private_data EXCEPT ![f] = Len(scull_c_list')]
        /\ Go(f, "open")
     \/ /\ Go(f, "closed")
        /\ UNCHANGED <<scull_c_list, private_data>>
  /\ UNCHANGED <<kind, scull_s_available, userVars>>

\* The device is kept.
scull_c_release(f) ==
  /\ device = "scullpriv" /\ at[f] = "open"
  /\ private_data' = [private_data EXCEPT ![f] = 0]
  /\ Go(f, "closed")
  /\ UNCHANGED <<kind, scull_s_available, userVars, scull_c_lock, scull_c_list>>

-----------------------------------------------------------------------------
Private(f) == scull_c_open(f) \/ Clone(f) \/ scull_c_release(f)

Single(f) == Dec(f) \/ Busy(f) \/ scull_s_release(f)

\* A file on its way through a waiting open, or a release
Step(f) ==
  \/ at[f] = "again" /\ scull_w_open(f)
  \/ Wait(f) \/ Peek(f) \/ Test(f) \/ Woke(f, FALSE) \/ Wake(f)

Next ==
  \E f \in Files :
    \/ Single(f) \/ scull_u_open(f) \/ scull_w_open(f) \/ Private(f)
    \/ Wait(f) \/ Peek(f) \/ Test(f) \/ Wake(f)
    \/ scull_u_release(f) \/ scull_w_release(f)
    \/ \E signalled \in BOOLEAN : Woke(f, signalled)

Spec == Init /\ [][Next]_vars

\* Files inside the driver run; open files need not be closed.
FairSpec == Spec /\ \A f \in Files : WF_vars(Step(f))

-----------------------------------------------------------------------------
(* Properties *)

Places == {"closed", "refused", "wait", "peek", "test", "asleep", "again",
           "open", "waking", "alloc"}
At(places) == {f \in Files : at[f] \in places}

\* Every variable stays in its type, and the counters are those of the files:
\* the count that of the open ones, the atomic one less for every file that
\* holds the device or has been refused and not put it back yet.
TypeOK ==
  /\ CASE device = "scullsingle" ->
            scull_s_available = 1 - Cardinality(At({"open", "refused"}))
       [] device \in {"sculluid", "scullwuid"} -> count = Cardinality(At({"open"}))
       [] OTHER -> scull_s_available = 1 /\ count = 0
  /\ owner \in {Uid[f] : f \in Files} \cup {Root}
  /\ scull_w_wait \subseteq Files
  /\ at \in [Files -> Places]
  /\ seen \in [Files -> 0 .. Cardinality(Files)]

\* At most one file has scullsingle open, whatever the refused openings do to
\* the counter in the meantime.
SingleOpen ==
  device = "scullsingle" =>
    \A f, g \in Files : at[f] = "open" /\ at[g] = "open" => f = g

\* When no file is inside the driver, scullsingle can be opened again: no
\* sequence of grants, refusals and releases uses the counter up.
Reopenable == At({"closed"}) = Files => scull_s_available = 1

\* The counters admit one file and tell who is inside, through every refusal.
OpensOK == TypeOK /\ SingleOpen /\ Reopenable

\* "It can be opened multiple times by the same user, but access is denied
\* to other users if the device is open" (line 92), root excepted: everyone
\* inside belongs to the owner, also after owners and roots have come and
\* gone in any order.
OneUser ==
  device \in {"sculluid", "scullwuid"} =>
    \A f \in At({"open"}) : f \in Capable \/ owner \in {Uid[f], Euid[f]}

\* "The list of devices, and a lock to protect it" (line 239): a terminal has
\* one device, shared by all who open it there and found again later, as long
\* as the lock keeps others out while kmalloc sleeps.
OneDevicePerTerminal ==
  device = "scullpriv" /\ ~uniprocessor =>
    /\ \A i, j \in DOMAIN scull_c_list : scull_c_list[i] = scull_c_list[j] => i = j
    /\ \A f \in At({"open"}) : scull_c_list[private_data[f]] = Tty[f]

\* No lost wake-up: a file does not sleep while the device would admit it,
\* unless the last to close it is on its way to wake the queue.
NoLostWakeup ==
  \A f \in scull_w_wait :
    at[f] = "asleep" /\ available(f, count, owner) => At({"waking"}) # {}

\* Who is inside is told from who is not, on each of the four devices, and
\* who waits is not forgotten.
AccessOK == OpensOK /\ OneUser /\ OneDevicePerTerminal /\ NoLostWakeup

\* A file that waits is admitted, or interrupted, once the device stays free
\* for it: either it comes to that, or the device is denied to it again and
\* again.
OpenReturns ==
  \A f \in Files :
    []<>(device = "scullwuid" /\ available(f, count, owner) => at[f] \in {"open", "closed"})
=============================================================================
