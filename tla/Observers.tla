----------------------------- MODULE Observers ------------------------------
(***************************************************************************)
(* observer_pattern.cpp: a subscription holds the lock of its observer, a  *)
(* notification that of its observable, and both use mObservers, a vector  *)
(* of the observable.  The vectors are reserved for 128 entries and do not *)
(* move.  update() prints; deep_update() reads what one lock guards, and   *)
(* is left out.                                                            *)
(*                                                                         *)
(* push_back constructs the entry behind the last one and then counts it:  *)
(* a load and a store of a plain field, after the atomic increment of the  *)
(* pointer's use count, so the x86 build keeps that order.  No lock of the *)
(* observable is held, so two subscriptions to it may lose an entry, or    *)
(* count one that nobody has constructed.                                  *)
(***************************************************************************)
EXTENDS Naturals, Sequences, FiniteSets, Functions

CONSTANTS
  Callers,       \* threads
  Users,         \* observers
  Messages,      \* observables
  MaxEntries     \* bound: entries of a vector, 128 in the program

VARIABLES
  mObservables,   \* of each observer
  entries,        \* mObservers of each observable: what has been constructed
  finish,         \* and how many of its entries count
  op,             \* what each thread is doing
  subscribed,     \* history: subscriptions that have returned
  raced           \* history: observables with two subscriptions at once

observerVars == <<mObservables, entries, finish, op, subscribed, raced>>

Null == "null"
Idle == [do |-> "idle"]

Init ==
  /\ mObservables = [u \in Users |-> <<>>]
  /\ entries = [m \in Messages |-> [i \in 1 .. MaxEntries |-> Null]]
  /\ finish = [m \in Messages |-> 0]
  /\ op = [t \in Callers |-> Idle]
  /\ subscribed = [m \in Messages |-> <<>>]
  /\ raced = {}

Subscribing(t) == op[t].do \in {"construct", "load", "store"}
LockedUser(u) == \E t \in Callers : Subscribing(t) /\ op[t].user = u
AddedTo(m) == \E t \in Callers : Subscribing(t) /\ op[t].message = m
LockedMessage(m) == \E t \in Callers : op[t].do = "update" /\ op[t].message = m

Step(t, o) == op' = [op EXCEPT ![t] = o]

\* subscribe() with the lock, as far as AddObserversNoLock
Subscribe(t, u, m) ==
  /\ op[t] = Idle /\ ~LockedUser(u)
  /\ Len(mObservables[u]) < MaxEntries
  /\ finish[m] < MaxEntries
  /\ mObservables' = [mObservables EXCEPT ![u] = Append(@, m)]
  /\ Step(t, [do |-> "construct", user |-> u, message |-> m])
  /\ raced' = raced \cup {n \in {m} : AddedTo(n)}
  /\ UNCHANGED <<entries, finish, subscribed>>

Construct(t) ==
  /\ op[t].do = "construct" /\ finish[op[t].message] < MaxEntries
  /\ LET m == op[t].message
     IN  entries' = [entries EXCEPT ![m][finish[m] + 1] = op[t].user]
  /\ Step(t, [op[t] EXCEPT !.do = "load"])
  /\ UNCHANGED <<mObservables, finish, subscribed, raced>>

Load(t) ==
  /\ op[t].do = "load" /\ finish[op[t].message] < MaxEntries
  /\ Step(t, [do |-> "store", user |-> op[t].user, message |-> op[t].message,
              count |-> finish[op[t].message]])
  /\ UNCHANGED <<mObservables, entries, finish, subscribed, raced>>

\* ... and the lock is released.
Store(t) ==
  /\ op[t].do = "store"
  /\ finish' = [finish EXCEPT ![op[t].message] = op[t].count + 1]
  /\ subscribed' = [subscribed EXCEPT ![op[t].message] = Append(@, op[t].user)]
  /\ Step(t, Idle)
  /\ UNCHANGED <<mObservables, entries, raced>>

\* Fault: the loop runs to the entry being added.
End_Next(m) == finish[m] + 1

\* The end of the loop is read once.
End(m) == finish[m]

\* notifyObservers() with the lock
Notify(t, m) ==
  /\ op[t] = Idle /\ ~LockedMessage(m)
  /\ Step(t, [do |-> "update", message |-> m, end |-> End(m), called |-> <<>>,
              due |-> subscribed[m]])
  /\ UNCHANGED <<mObservables, entries, finish, subscribed, raced>>

\* update() of the next entry; one that was never constructed is followed into
\* reserved memory, and the program dies.
Update(t) ==
  /\ op[t].do = "update" /\ Len(op[t].called) < op[t].end
  /\ LET called == op[t].called
         who == entries[op[t].message][Len(called) + 1]
     IN  Step(t, IF who = Null THEN [do |-> "dead", message |-> op[t].message]
                               ELSE [op[t] EXCEPT !.called = Append(called, who)])
  /\ UNCHANGED <<mObservables, entries, finish, subscribed, raced>>

Return(t) ==
  /\ op[t].do = "update" /\ Len(op[t].called) = op[t].end
  /\ Step(t, Idle)
  /\ UNCHANGED <<mObservables, entries, finish, subscribed, raced>>

Alive == \A t \in Callers : op[t].do # "dead"

Next ==
  /\ Alive
  /\ \E t \in Callers :
       \/ \E u \in Users, m \in Messages : Subscribe(t, u, m)
       \/ Construct(t) \/ Load(t) \/ Store(t)
       \/ \E m \in Messages : Notify(t, m)
       \/ Update(t) \/ Return(t)

-----------------------------------------------------------------------------
(* Properties *)

\* A notification calls the observers that had subscribed when it began, in
\* that order, never one that is still being added (line 98 reads the vector
\* without the lock that line 105 is under), and it follows no entry that is not
\* there, unless two subscriptions to its observable have met (the comment of
\* line 72 expects them, and line 105 takes no lock of the observable).
ReachesSubscribed ==
  \A t \in Callers :
    /\ op[t].do = "dead" => op[t].message \in raced
    /\ op[t].do = "update" /\ op[t].message \notin raced =>
         LET called == op[t].called
             due == op[t].due
         IN  /\ \A i \in DOMAIN called \intersect DOMAIN due : called[i] = due[i]
             /\ Len(called) = op[t].end => Len(due) <= Len(called)

\* Between subscriptions both sides tell the same: an observable lists an
\* observer as often as that observer lists it, unless subscriptions have met
\* there.  Then entries may be missing, but none is counted that no subscription
\* has added.
SubscriptionsAgree ==
  /\ \A u \in Users, m \in Messages \ raced :
       (\A t \in Callers : ~Subscribing(t)) =>
         Cardinality({i \in 1 .. finish[m] : entries[m][i] = u})
           = Cardinality({i \in DOMAIN mObservables[u] : mObservables[u][i] = m})
  /\ \A m \in Messages : finish[m] <= Len(subscribed[m])
=============================================================================
