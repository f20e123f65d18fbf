------------------------------ MODULE OnceInit ------------------------------
(***************************************************************************)
(* What several threads ask for and the first of them makes: the singleton *)
(* of double_check_lock.cpp, by double-checked locking, and the local      *)
(* static variable of static_test.cpp, by the compiler's guard             *)
(* (__cxa_guard_acquire and _release, as the disassembly there shows; what *)
(* they do is external).                                                   *)
(*                                                                         *)
(* A store with release order comes after what its thread wrote before.    *)
(* One without (Ordered = FALSE) may be seen before the object is built.   *)
(***************************************************************************)
EXTENDS Naturals

CONSTANTS
  Callers,      \* threads
  Calls,        \* calls that each of them makes
  Ordered       \* mInstance is stored with memory_order_release

None == 0

VARIABLES
  method,       \* "getInstance" or "getStaticVar_2"
  oc_at,        \* where each thread is
  tmp,          \* the pointer it has
  calls,        \* calls it has made
  oc_mutex,     \* mMutex is taken
  mInstance,    \* mInstance, or the guard of the local variable
  made,         \* objects allocated
  built,        \* those whose constructor is done, for everybody
  returned      \* what calls have returned, with whether it was built by then

vars == <<method, oc_at, tmp, calls, oc_mutex, mInstance, made, built, returned>>

Init ==
  /\ method \in {"getInstance", "getStaticVar_2"}
  /\ oc_at = [t \in Callers |-> "idle"] /\ tmp = [t \in Callers |-> None]
  /\ calls = [t \in Callers |-> 0] /\ oc_mutex = FALSE
  /\ mInstance = None /\ made = 0 /\ built = {} /\ returned = {}

Goto(t, there) == oc_at' = [oc_at EXCEPT ![t] = there]

Call(t) ==
  /\ oc_at[t] = "idle" /\ calls[t] < Calls
  /\ calls' = [calls EXCEPT ![t] = @ + 1] /\ Goto(t, "load")
  /\ UNCHANGED <<method, tmp, oc_mutex, mInstance, made, built, returned>>

\* The first load of mInstance, or of the guard
Load(t) ==
  /\ oc_at[t] = "load" /\ tmp' = [tmp EXCEPT ![t] = mInstance]
  /\ Goto(t, IF mInstance = None THEN "lock" ELSE "return")
  /\ UNCHANGED <<method, calls, oc_mutex, mInstance, made, built, returned>>

\* The lock_guard and the second load; of the guard, what __cxa_guard_acquire
\* does under its own lock
LockAndLoad(t) ==
  /\ oc_at[t] = "lock" /\ ~oc_mutex /\ oc_mutex' = TRUE
  /\ tmp' = [tmp EXCEPT ![t] = mInstance]
  /\ Goto(t, IF mInstance = None THEN "new" ELSE "unlock")
  /\ UNCHANGED <<method, calls, mInstance, made, built, returned>>

\* Fault: the mutex is locked and unlocked by hand, and not when new throws.
Unwound_Not == TRUE

\* mMutex after an exception: the lock_guard has released it.
Unwound == FALSE

\* Memory for the object; it has a place of its own each time for new, and the
\* same for the local variable.  Where there is none, new throws.
New(t) ==
  /\ oc_at[t] = "new"
  /\ \/ /\ tmp' = [tmp EXCEPT ![t] = made + 1] /\ made' = made + 1
        /\ Goto(t, "build") /\ UNCHANGED oc_mutex
     \/ /\ method = "getInstance" /\ oc_mutex' = Unwound /\ Goto(t, "idle")
        /\ UNCHANGED <<tmp, made>>
  /\ UNCHANGED <<method, calls, mInstance, built, returned>>

\* The constructor (Foo's is noexcept and cannot fail)
Build(t) ==
  /\ oc_at[t] = "build" /\ built' = built \union {tmp[t]}
  /\ IF mInstance = None THEN Goto(t, "store") ELSE Goto(t, "unlock")
  /\ UNCHANGED <<method, tmp, calls, oc_mutex, mInstance, made, returned>>

Store(t) ==
  /\ oc_at[t] = "store" \/ (~Ordered /\ oc_at[t] = "build" /\ mInstance = None)
  /\ mInstance' = tmp[t]
  /\ IF oc_at[t] = "store" THEN Goto(t, "unlock") ELSE UNCHANGED oc_at
  /\ UNCHANGED <<method, tmp, calls, oc_mutex, made, built, returned>>

Unlock(t) ==
  /\ oc_at[t] = "unlock" /\ oc_mutex' = FALSE /\ Goto(t, "return")
  /\ UNCHANGED <<method, tmp, calls, mInstance, made, built, returned>>

Return(t) ==
  /\ oc_at[t] = "return" /\ Goto(t, "idle")
  /\ returned' = returned \union {[object |-> tmp[t], whole |-> tmp[t] \in built]}
  /\ UNCHANGED <<method, tmp, calls, oc_mutex, mInstance, made, built>>

Thread(t) ==
  \/ Call(t) \/ Load(t) \/ LockAndLoad(t) \/ New(t) \/ Build(t)
  \/ Store(t) \/ Unlock(t) \/ Return(t)

Next == \E t \in Callers : Thread(t)

-----------------------------------------------------------------------------
(* Properties *)

\* All calls of all threads return one object, which is built by then, and no
\* other was made.
OneInstance ==
  /\ \A x, y \in returned : x.object = y.object
  /\ \A x \in returned : x.whole /\ x.object = made

\* Every call of every thread ends, with an object or, where there was no
\* memory, an exception.
CallsEnd == \A t \in Callers : oc_at[t] = "idle" /\ calls[t] = Calls
=============================================================================
