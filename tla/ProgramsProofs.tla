--------------------------- MODULE ProgramsProofs ---------------------------
(***************************************************************************)
(* Proofs about the programs of MCPrograms, for any constants that it      *)
(* allows: the spin locks, with any number of threads that does not exceed *)
(* the number of ticket values, the once-only initialisation, the shared   *)
(* page, the condition variable, the signal handlers, the observers and    *)
(* the allocators.                                                         *)
(***************************************************************************)
EXTENDS Integers, MCPrograms, Sums, FiniteSetTheorems, SequenceTheorems, TLAPS

(***************************************************************************)
(* The inductive invariants                                                *)
(***************************************************************************)

\* The ticket n places after the one served.
After(n) ==
  IF mOwner + n < Tickets THEN mOwner + n ELSE mOwner + n - Tickets

\* The tickets held are the ones from mOwner up to mNext, each held once, and
\* who is inside holds mOwner.  With k holders there are k such tickets, which
\* also tells a full circle from an empty one.
TickInv ==
  LET k == Cardinality(Askers) IN
  /\ mNext = After(k)
  /\ \A t \in Askers : ticket[t] \in TicketValues /\ Distance(t) < k
  /\ \A t, u \in Askers : ticket[t] = ticket[u] => t = u
  /\ \A t \in Threads : Inside(t) => ticket[t] = mOwner

\* The flag is set exactly while a thread is inside.
WildInv ==
  /\ \A t \in Threads : Inside(t) => mLock
  /\ \A t, u \in Threads : Inside(t) /\ Inside(u) => t = u

LockInv == IF policy = "TICK" THEN TickInv ELSE WildInv
IInv == TypeOK /\ LockInv

(***************************************************************************)
(* Counting the threads that have asked                                    *)
(***************************************************************************)

LEMMA AskersCount ==
  /\ IsFiniteSet(Askers)
  /\ Cardinality(Askers) \in Nat
  /\ Cardinality(Askers) <= Tickets
<1>1. Askers \in SUBSET Threads
  BY DEF Askers
<1>2. IsFiniteSet(Askers) /\ Cardinality(Askers) <= Cardinality(Threads)
  BY <1>1, FS_Subset, LockAssumption
<1>3. Cardinality(Askers) \in Nat /\ Cardinality(Threads) \in Nat
  BY <1>2, FS_CardinalityType, LockAssumption
<1> QED
  BY <1>2, <1>3, LockAssumption

\* While a thread has not asked there is a ticket left.
LEMMA TicketLeft ==
  ASSUME NEW t \in Threads, t \notin Askers
  PROVE  /\ Cardinality(Askers) + 1 <= Tickets
         /\ Cardinality(Askers \cup {t}) = Cardinality(Askers) + 1
<1>1. Cardinality(Askers \cup {t}) = Cardinality(Askers) + 1
  BY AskersCount, FS_AddElement
<1>2. Askers \cup {t} \in SUBSET Threads
  BY DEF Askers
<1>3. Cardinality(Askers \cup {t}) <= Cardinality(Threads)
  BY <1>2, FS_Subset, LockAssumption
<1>4. Cardinality(Threads) \in Nat
  BY FS_CardinalityType, LockAssumption
<1> QED
  BY <1>1, <1>3, <1>4, AskersCount, LockAssumption

LEMMA SomeTicket ==
  ASSUME NEW t \in Threads
  PROVE  Tickets >= 1
<1>1. Cardinality(Threads) # 0
  BY FS_EmptySet, LockAssumption
<1>2. Cardinality(Threads) \in Nat
  BY FS_CardinalityType, LockAssumption
<1> QED
  BY <1>1, <1>2, LockAssumption

(***************************************************************************)
(* Type correctness                                                        *)
(***************************************************************************)

LEMMA TypeStep == TypeOK /\ [Next]_vars => TypeOK'
<1> SUFFICES ASSUME TypeOK, [Next]_vars PROVE TypeOK'
  OBVIOUS
<1> USE DEF TypeOK, TicketValues, Go, lockVars
<1>1. ASSUME NEW t \in Threads, Draw(t) PROVE TypeOK'
  BY <1>1, SomeTicket, LockAssumption DEF Draw, Drawn, Succ
<1>2. ASSUME NEW t \in Threads, Lock(t) PROVE TypeOK'
  BY <1>2 DEF Lock
<1>3. ASSUME NEW t \in Threads, Load(t) PROVE TypeOK'
  BY <1>3 DEF Load
<1>4. ASSUME NEW t \in Threads, Store(t) PROVE TypeOK'
  BY <1>4 DEF Store
<1>5. ASSUME NEW t \in Threads, Unlock(t) PROVE TypeOK'
  <2>1. mOwner' \in TicketValues /\ mNext' \in TicketValues
    BY <1>5, SomeTicket, LockAssumption DEF Unlock, Succ
  <2>2. mLock' \in BOOLEAN
    BY <1>5 DEF Unlock
  <2>3. /\ loops' \in [Threads -> Nat]
        /\ pc' \in [Threads -> {"idle", "spin", "load", "store", "unlock"}]
        /\ ticket' = ticket /\ tmp' = tmp /\ gCount' = gCount
        /\ policy' = policy
    BY <1>5 DEF Unlock
  <2> QED
    BY <2>1, <2>2, <2>3
<1>6. CASE UNCHANGED vars
  BY <1>6 DEF vars
<1> QED
  BY <1>1, <1>2, <1>3, <1>4, <1>5, <1>6 DEF Next, Thread

LEMMA TypeInit == Init => TypeOK
<1> SUFFICES ASSUME Init PROVE TypeOK
  OBVIOUS
<1>1. ASSUME Threads # {} PROVE 0 \in TicketValues
  BY <1>1, SomeTicket, LockAssumption DEF TicketValues
<1> QED
  BY <1>1 DEF Init, TypeOK

\* The counters of both locks stay in the range of an int, whatever the
\* number of threads and rounds.
THEOREM TypeCorrect == Spec => []TypeOK
  BY TypeInit, TypeStep, PTL DEF Spec

(***************************************************************************)
(* The ticket lock                                                         *)
(***************************************************************************)

LEMMA TickInit == Init => TickInv
<1> SUFFICES ASSUME Init PROVE TickInv
  OBVIOUS
<1>1. Askers = {}
  BY DEF Init, Askers, Asking
<1>2. Cardinality(Askers) = 0
  BY <1>1, FS_EmptySet
<1>3. \A t \in Threads : ~Inside(t)
  BY DEF Init, Inside
<1>4. mNext = After(0)
  BY LockAssumption DEF Init, After
<1> QED
  BY <1>1, <1>2, <1>3, <1>4 DEF TickInv

\* Drawing hands out the ticket after those that are held.
LEMMA TickDraw ==
  ASSUME TypeOK, TickInv, policy = "TICK", NEW t \in Threads, Draw(t)
  PROVE  TickInv'
<1>0. PICK k : k = Cardinality(Askers)
  OBVIOUS
<1>1. /\ pc[t] = "idle"
      /\ ticket' = [ticket EXCEPT ![t] = mNext]
      /\ mNext' = Succ(mNext) /\ mOwner' = mOwner
      /\ pc' = [pc EXCEPT ![t] = "spin"]
  BY DEF Draw, Drawn, Go
<1>2. t \notin Askers /\ Askers' = Askers \cup {t}
  BY <1>1 DEF Askers, Asking, TypeOK
<1>3. Cardinality(Askers') = k + 1 /\ k + 1 <= Tickets
  BY <1>0, <1>2, TicketLeft
<1>4. k \in Nat /\ Tickets \in Nat /\ mOwner \in TicketValues
  BY <1>0, AskersCount, LockAssumption DEF TypeOK
<1>5. /\ mNext = After(k)
      /\ \A u \in Askers : ticket[u] \in TicketValues /\ Distance(u) < k
      /\ \A u, v \in Askers : ticket[u] = ticket[v] => u = v
      /\ \A u \in Threads : Inside(u) => ticket[u] = mOwner
  BY <1>0 DEF TickInv
<1>6. mNext' = After(k + 1)'
  BY <1>1, <1>3, <1>4, <1>5 DEF After, Succ, TicketValues
<1>7. ASSUME NEW u \in Askers
      PROVE  ticket'[u] = ticket[u] /\ ticket[u] # mNext /\ Distance(u)' < k
  <2>1. u # t /\ u \in Threads
    BY <1>2 DEF Askers
  <2>2. ticket'[u] = ticket[u]
    BY <1>1, <2>1 DEF TypeOK
  <2>3. ticket[u] # mNext
    BY <1>3, <1>4, <1>5 DEF After, Distance, TicketValues
  <2>4. Distance(u)' = Distance(u)
    BY <1>1, <2>2 DEF Distance
  <2> QED
    BY <1>5, <2>2, <2>3, <2>4
<1>8. ticket'[t] = mNext /\ mNext \in TicketValues /\ Distance(t)' = k
  <2>1. ticket'[t] = mNext
    BY <1>1 DEF TypeOK
  <2> QED
    BY <1>1, <1>3, <1>4, <1>5, <2>1 DEF After, Distance, TicketValues
<1>9. \A u \in Askers' : ticket'[u] \in TicketValues /\ Distance(u)' < k + 1
  <2>1. ASSUME NEW u \in Askers
        PROVE  ticket'[u] \in TicketValues /\ Distance(u)' < k + 1
    <3>1. Distance(u)' \in Int
      BY <1>4, <1>5, <1>7, <1>1 DEF Distance, TicketValues
    <3> QED
      BY <1>4, <1>5, <1>7, <3>1
  <2> QED
    BY <1>2, <1>4, <1>8, <2>1
<1>10. \A u, v \in Askers' : ticket'[u] = ticket'[v] => u = v
  BY <1>2, <1>5, <1>7, <1>8
<1>11. \A u \in Threads : Inside(u)' => ticket'[u] = mOwner'
  BY <1>1, <1>5 DEF Inside, TypeOK
<1>12. TicketValues' = TicketValues
  BY DEF TicketValues
<1> QED
  BY <1>3, <1>6, <1>9, <1>10, <1>11, <1>12 DEF TickInv

\* Leaving serves the next ticket: every distance shrinks by one.
LEMMA TickUnlock ==
  ASSUME TypeOK, TickInv, policy = "TICK", NEW t \in Threads, Unlock(t)
  PROVE  TickInv'
<1>0. PICK k : k = Cardinality(Askers)
  OBVIOUS
<1>1. /\ pc[t] = "unlock"
      /\ mOwner' = Succ(mOwner) /\ mNext' = mNext /\ ticket' = ticket
      /\ pc' = [pc EXCEPT ![t] = "idle"]
  BY DEF Unlock, Go
<1>2. t \in Askers /\ Askers' = Askers \ {t}
  BY <1>1 DEF Askers, Asking, TypeOK
<1>3. Cardinality(Askers') = k - 1
  BY <1>0, <1>2, AskersCount, FS_RemoveElement
<1>4. /\ k \in Nat /\ k <= Tickets /\ Tickets \in Nat
      /\ mOwner \in TicketValues
  BY <1>0, AskersCount, LockAssumption DEF TypeOK
<1>5. /\ mNext = After(k)
      /\ \A u \in Askers : ticket[u] \in TicketValues /\ Distance(u) < k
      /\ \A u, v \in Askers : ticket[u] = ticket[v] => u = v
      /\ \A u \in Threads : Inside(u) => ticket[u] = mOwner
  BY <1>0 DEF TickInv
<1>6. ticket[t] = mOwner
  BY <1>1, <1>5 DEF Inside
<1>7. k >= 1
  BY <1>2, <1>4, <1>5, <1>6 DEF Distance, TicketValues
<1>8. mNext' = After(k - 1)'
  BY <1>1, <1>4, <1>5, <1>7 DEF After, Succ, TicketValues
<1>9. ASSUME NEW u \in Askers' PROVE Distance(u)' < k - 1
  <2>1. u \in Askers /\ ticket[u] # mOwner
    BY <1>2, <1>5, <1>6
  <2>2. ticket[u] \in TicketValues /\ Distance(u) < k
    BY <1>5, <2>1
  <2> QED
    BY <1>1, <1>4, <2>1, <2>2 DEF Distance, Succ, TicketValues
<1>10. ASSUME NEW u \in Threads PROVE ~Inside(u)'
  <2>1. CASE u = t
    BY <1>1, <2>1 DEF Inside, TypeOK
  <2>2. CASE u # t
    <3>1. ASSUME Inside(u) PROVE FALSE
      <4>1. u \in Askers /\ ticket[u] = mOwner
        BY <1>5, <3>1 DEF Inside, Askers, Asking
      <4> QED
        BY <1>2, <1>5, <1>6, <2>2, <4>1
    <3> QED
      BY <1>1, <2>2, <3>1 DEF Inside, TypeOK
  <2> QED
    BY <2>1, <2>2
<1>11. /\ \A u \in Askers' : ticket'[u] \in TicketValues'
       /\ \A u, v \in Askers' : ticket'[u] = ticket'[v] => u = v
  BY <1>1, <1>2, <1>5 DEF TicketValues
<1> QED
  BY <1>3, <1>8, <1>9, <1>10, <1>11 DEF TickInv

\* The other steps move a thread inside the lock, or change nothing of it.
LEMMA TickOthers ==
  ASSUME TypeOK, TickInv, policy = "TICK", NEW t \in Threads,
         Lock(t) \/ Load(t) \/ Store(t)
  PROVE  TickInv'
<1>1. /\ mOwner' = mOwner /\ mNext' = mNext /\ ticket' = ticket
      /\ pc[t] # "idle" /\ pc[t] # "unlock"
      /\ \E where \in {"load", "store", "unlock"} :
           pc' = [pc EXCEPT ![t] = where]
      /\ Inside(t) \/ ticket[t] = mOwner
  BY DEF Lock, Load, Store, Go, lockVars, Served, Inside
<1>2. Askers' = Askers
  BY <1>1 DEF Askers, Asking, TypeOK
<1>3. ASSUME NEW u \in Threads, Inside(u)' PROVE ticket'[u] = mOwner'
  <2>1. CASE u = t
    BY <1>1, <2>1 DEF TickInv
  <2>2. CASE u # t
    BY <1>1, <1>3, <2>2 DEF TickInv, Inside, TypeOK
  <2> QED
    BY <2>1, <2>2
<1> QED
  BY <1>1, <1>2, <1>3 DEF TickInv, After, Distance, TicketValues

(***************************************************************************)
(* Mutual exclusion                                                        *)
(***************************************************************************)

LEMMA WildStep ==
  ASSUME TypeOK, WildInv, policy # "TICK", NEW t \in Threads, Thread(t)
  PROVE  WildInv'
<1> USE DEF WildInv, TypeOK, Inside, Go, lockVars
<1>1. CASE Draw(t)
  BY <1>1 DEF Draw
<1>2. CASE Lock(t)
  BY <1>2 DEF Lock, Clear
<1>3. CASE Load(t)
  BY <1>3 DEF Load
<1>4. CASE Store(t)
  BY <1>4 DEF Store
<1>5. CASE Unlock(t)
  BY <1>5 DEF Unlock
<1> QED
  BY <1>1, <1>2, <1>3, <1>4, <1>5 DEF Thread

LEMMA LockInvariant == Spec => []IInv
<1>1. Init => IInv
  <2>1. Init => WildInv
    BY DEF Init, WildInv, Inside
  <2> QED
    BY <2>1, TypeInit, TickInit DEF IInv, LockInv
<1>2. IInv /\ [Next]_vars => IInv'
  <2> SUFFICES ASSUME TypeOK, LockInv, [Next]_vars PROVE LockInv'
    BY TypeStep DEF IInv
  <2>0. ASSUME NEW t \in Threads, Thread(t) PROVE policy' = policy
    BY <2>0 DEF Thread, Draw, Lock, Load, Store, Unlock
  <2>1. ASSUME NEW t \in Threads, Thread(t), policy = "TICK" PROVE LockInv'
    <3>1. TickInv
      BY <2>1 DEF LockInv
    <3>2. TickInv'
      BY <2>1, <3>1, TickDraw, TickUnlock, TickOthers DEF Thread
    <3> QED
      BY <2>0, <2>1, <3>2 DEF LockInv
  <2>2. ASSUME NEW t \in Threads, Thread(t), policy # "TICK" PROVE LockInv'
    BY <2>0, <2>2, WildStep DEF LockInv
  <2>3. CASE UNCHANGED vars
    BY <2>3
    DEF vars, lockVars, LockInv, TickInv, WildInv, Askers, Asking, Inside,
        After, Distance, TicketValues
  <2> QED
    BY <2>1, <2>2, <2>3 DEF Next
<1> QED
  BY <1>1, <1>2, PTL DEF Spec

\* One thread at a time is inside, for both locks, any number of threads up
\* to the number of ticket values, and however often the counters wrap.
THEOREM MutualExclusionCorrect == Spec => []MutualExclusion
<1>1. IInv => MutualExclusion
  <2> SUFFICES ASSUME LockInv, NEW t \in Threads, NEW u \in Threads,
                      Inside(t), Inside(u)
               PROVE  t = u
    BY DEF IInv, MutualExclusion
  <2>1. CASE policy = "TICK"
    <3>1. t \in Askers /\ u \in Askers
      BY DEF Askers, Asking, Inside
    <3> QED
      BY <2>1, <3>1 DEF LockInv, TickInv
  <2>2. CASE policy # "TICK"
    BY <2>2 DEF LockInv, WildInv
  <2> QED
    BY <2>1, <2>2
<1> QED
  BY <1>1, LockInvariant, PTL
(***************************************************************************)
(* The ticket lock is first come, first served                             *)
(***************************************************************************)

\* As many distinct places below the size of a set as it has elements: the
\* elements before one are as many as its place says.
LEMMA PlacesCount ==
  ASSUME NEW S, IsFiniteSet(S), NEW place \in [S -> Nat],
         \A x \in S : place[x] < Cardinality(S),
         \A x, y \in S : place[x] = place[y] => x = y
  PROVE  /\ \A n \in 0 .. Cardinality(S) - 1 : \E x \in S : place[x] = n
         /\ \A x \in S : Cardinality({y \in S : place[y] < place[x]}) = place[x]
<1> DEFINE k == Cardinality(S)
<1>1. k \in Nat
  BY FS_CardinalityType
<1>2. IsFiniteSet(0 .. k - 1) /\ Cardinality(0 .. k - 1) = k
  BY SMTT(20), <1>1, FS_Interval
<1>3. place \in Injection(S, 0 .. k - 1)
  BY <1>1 DEF Injection, IsInjective
<1>4. place \in Surjection(S, 0 .. k - 1)
  BY <1>2, <1>3, FS_Injection
<1>5. \A n \in 0 .. k - 1 : \E x \in S : place[x] = n
  BY <1>4 DEF Surjection
<1>6. ASSUME NEW x \in S
      PROVE  Cardinality({y \in S : place[y] < place[x]}) = place[x]
  <2> DEFINE P == {y \in S : place[y] < place[x]}
             f == [y \in P |-> place[y]]
             below == 0 .. place[x] - 1
  <2>1. place[x] \in Nat /\ place[x] <= k - 1
    BY <1>1
  <2>2. IsFiniteSet(below) /\ Cardinality(below) = place[x]
    <3>1. 0 \in Int /\ place[x] - 1 \in Int
      BY <2>1
    <3>2. /\ IsFiniteSet(below)
          /\ Cardinality(below) =
               IF 0 > place[x] - 1 THEN 0 ELSE place[x] - 1 - 0 + 1
      BY <3>1, FS_Interval
    <3> QED
      BY <2>1, <3>2
  <2>3. f \in Injection(P, below)
    BY <2>1 DEF Injection, IsInjective
  <2>4. \A n \in below : \E y \in P : f[y] = n
    <3> TAKE n \in below
    <3>1. n \in 0 .. k - 1 /\ n < place[x]
      BY <1>1, <2>1
    <3> QED
      BY <1>5, <3>1
  <2>5. f \in Surjection(P, below)
    BY <2>3, <2>4 DEF Surjection, Injection
  <2> HIDE DEF P, f, below
  <2>6. Cardinality(P) = Cardinality(below)
    BY <2>2, <2>3, <2>5, FS_Injection
  <2> QED
    BY <2>2, <2>6 DEF P
<1> QED
  BY <1>5, <1>6

\* The line has the askers in the order of their distance from the ticket
\* served, without a gap.
InLine(f) ==
  /\ f \in [1 .. Cardinality(Askers) -> Askers]
  /\ \A i \in 1 .. Cardinality(Askers) : Distance(f[i]) = i - 1

LineSorted ==
  /\ InLine(Line)
  /\ \A f : InLine(f) => f = Line

LEMMA LineInOrder == TypeOK /\ TickInv => LineSorted
<1> SUFFICES ASSUME TypeOK, TickInv PROVE LineSorted
  OBVIOUS
<1> DEFINE k == Cardinality(Askers)
           place == [t \in Askers |-> Distance(t)]
<1>1. IsFiniteSet(Askers) /\ k \in Nat
  BY AskersCount
<1>2. \A t \in Askers : /\ t \in Threads
                        /\ Distance(t) \in Nat /\ Distance(t) < k
                        /\ ticket[t] \in TicketValues
                        /\ mOwner \in TicketValues
  BY LockAssumption DEF TypeOK, TickInv, Askers, Distance, TicketValues
<1>3. \A t, u \in Askers : Distance(t) = Distance(u) => t = u
  BY <1>2, LockAssumption DEF TickInv, Distance, TicketValues
<1>4. place \in [Askers -> Nat]
  BY <1>2
<1>5. /\ \A n \in 0 .. k - 1 : \E t \in Askers : Distance(t) = n
      /\ \A t \in Askers :
           Cardinality({u \in Askers : place[u] < place[t]}) = Distance(t)
  <2>1. /\ \A n \in 0 .. k - 1 : \E t \in Askers : place[t] = n
        /\ \A t \in Askers :
             Cardinality({u \in Askers : place[u] < place[t]}) = place[t]
    <3>1. \A t \in Askers : place[t] < Cardinality(Askers)
      BY <1>2
    <3>2. \A t, u \in Askers : place[t] = place[u] => t = u
      BY <1>3
    <3> HIDE DEF place
    <3> QED
      BY <1>1, <1>4, <3>1, <3>2, PlacesCount
  <2> QED
    BY <2>1
<1>6. \A t \in Askers : Cardinality(Before(t)) = Distance(t)
  <2> TAKE t \in Askers
  <2>1. Before(t) = {u \in Askers : place[u] < place[t]}
    BY DEF Before
  <2> QED
    BY <1>5, <2>1
<1>7. ASSUME NEW i \in 1 .. k
      PROVE  Line[i] \in Askers /\ Distance(Line[i]) = i - 1
  <2>1. i - 1 \in 0 .. k - 1
    BY <1>1
  <2>2. \E t \in Askers : Cardinality(Before(t)) = i - 1
    BY <1>5, <1>6, <2>1
  <2>3. Line[i] = CHOOSE t \in Askers : Cardinality(Before(t)) = i - 1
    BY DEF Line
  <2> QED
    BY <1>6, <2>2, <2>3
<1>8. InLine(Line)
  <2>1. Line = [i \in 1 .. k |-> Line[i]]
    BY DEF Line
  <2> QED
    BY <1>7, <2>1 DEF InLine
<1>9. ASSUME NEW f, InLine(f) PROVE f = Line
  <2>1. \A i \in 1 .. k : f[i] \in Askers /\ Distance(f[i]) = Distance(Line[i])
    BY <1>7, <1>9 DEF InLine
  <2>2. \A i \in 1 .. k : f[i] = Line[i]
    BY <1>3, <1>7, <2>1
  <2>3. /\ f = [i \in 1 .. k |-> f[i]]
        /\ Line = [i \in 1 .. k |-> Line[i]]
    BY <1>8, <1>9 DEF InLine
  <2> HIDE DEF k
  <2> QED
    BY <2>2, <2>3
<1> QED
  BY <1>8, <1>9 DEF LineSorted

\* Drawing a ticket is joining the line at its end.
LEMMA DrawJoins ==
  ASSUME TypeOK, TickInv, policy = "TICK", NEW t \in Threads, Draw(t)
  PROVE  /\ \A i \in 1 .. Len(Line) : Line[i] # t
         /\ Line' = Append(Line, t)
<1> DEFINE k == Cardinality(Askers)
           longer == [i \in 1 .. k + 1 |-> IF i <= k THEN Line[i] ELSE t]
<1>1. /\ pc[t] = "idle"
      /\ ticket' = [ticket EXCEPT ![t] = mNext] /\ mOwner' = mOwner
      /\ pc' = [pc EXCEPT ![t] = "spin"]
  BY DEF Draw, Go
<1>2. t \notin Askers /\ Askers' = Askers \cup {t}
  BY <1>1 DEF Askers, Asking, TypeOK
<1>3. Cardinality(Askers') = k + 1 /\ k + 1 <= Tickets /\ k \in Nat
  BY <1>2, TicketLeft, AskersCount
<1>4. InLine(Line)
  BY LineInOrder DEF LineSorted
<1>5. Line \in Seq(Askers) /\ Len(Line) = k
  BY <1>3, <1>4 DEF InLine
<1>6. \A u \in Askers : Distance(u)' = Distance(u)
  <2> TAKE u \in Askers
  <2>1. u # t /\ u \in Threads
    BY <1>2 DEF Askers
  <2>2. ticket'[u] = ticket[u]
    BY <1>1, <2>1 DEF TypeOK
  <2> QED
    BY <1>1, <2>2 DEF Distance
<1>7. Distance(t)' = k
  <2>1. ticket'[t] = mNext /\ mNext = After(k) /\ mOwner \in TicketValues
    BY <1>1 DEF TypeOK, TickInv
  <2> QED
    BY <1>1, <1>3, <2>1, LockAssumption DEF After, Distance, TicketValues
<1>8. PICK f : f = longer
  OBVIOUS
<1>9. InLine(f)'
  <2>1. f \in [1 .. k + 1 -> Askers \cup {t}]
    BY <1>3, <1>4, <1>8 DEF InLine
  <2>2. ASSUME NEW i \in 1 .. k + 1 PROVE Distance(f[i])' = i - 1
    <3>1. CASE i <= k
      <4>1. i \in 1 .. k
        BY <1>3, <3>1
      <4>2. Line[i] \in Askers /\ Distance(Line[i]) = i - 1
        BY <1>4, <4>1 DEF InLine
      <4>3. f[i] = Line[i]
        BY <1>8, <3>1
      <4> QED
        BY <1>6, <4>2, <4>3
    <3>2. CASE ~(i <= k)
      <4>1. i = k + 1 /\ f[i] = t
        BY <1>3, <1>8, <3>2
      <4> QED
        BY <1>3, <1>7, <4>1
    <3> QED
      BY <3>1, <3>2
  <2> QED
    BY <1>2, <1>3, <2>1, <2>2 DEF InLine
<1>10. f = Line'
  <2>1. TypeOK' /\ TickInv'
    BY TickDraw, TypeStep DEF Next, Thread
  <2>2. LineSorted'
    BY <2>1, LineInOrder, PTL
  <2> QED
    BY <1>9, <2>2 DEF LineSorted
<1>11. f = Append(Line, t)
  <2>1. Line \in Seq(Threads)
    BY <1>3, <1>4 DEF InLine, Askers
  <2>2. /\ Append(Line, t) \in Seq(Threads)
        /\ Len(Append(Line, t)) = k + 1
        /\ \A i \in 1 .. k : Append(Line, t)[i] = Line[i]
        /\ Append(Line, t)[k + 1] = t
    BY <1>5, <2>1, AppendProperties
  <2>3. f \in Seq(Threads) /\ Len(f) = k + 1
    BY <1>3, <1>4, <1>8, <2>1 DEF InLine, Askers
  <2>4. \A i \in 1 .. k + 1 : f[i] = Append(Line, t)[i]
    BY <1>3, <1>8, <2>2
  <2> QED
    BY <2>2, <2>3, <2>4, SeqEqual
<1>12. \A i \in 1 .. Len(Line) : Line[i] # t
  BY <1>2, <1>4, <1>5 DEF InLine
<1> QED
  BY <1>10, <1>11, <1>12

\* Leaving the lock is leaving the line at its front.
LEMMA UnlockLeaves ==
  ASSUME TypeOK, TickInv, policy = "TICK", NEW t \in Threads, Unlock(t)
  PROVE  Line' = Tail(Line)
<1> DEFINE k == Cardinality(Askers)
<1>1. /\ pc[t] = "unlock"
      /\ mOwner' = Succ(mOwner) /\ ticket' = ticket
      /\ pc' = [pc EXCEPT ![t] = "idle"]
  BY DEF Unlock, Go
<1>2. t \in Askers /\ Askers' = Askers \ {t}
  BY <1>1 DEF Askers, Asking, TypeOK
<1>3. Cardinality(Askers') = k - 1 /\ k \in Nat /\ k >= 1 /\ k <= Tickets
  <2>1. k # 0
    BY <1>2, AskersCount, FS_EmptySet
  <2> QED
    BY <1>2, <2>1, AskersCount, FS_RemoveElement
<1>4. ticket[t] = mOwner
  BY <1>1 DEF Inside, TickInv
<1>5. InLine(Line)
  BY LineInOrder DEF LineSorted
<1>6. Line \in Seq(Askers) /\ Len(Line) = k /\ Line # <<>>
  BY <1>3, <1>5 DEF InLine
<1>7. PICK f : f = Tail(Line)
  OBVIOUS
<1>8. /\ f \in Seq(Askers) /\ Len(f) = k - 1
      /\ \A i \in 1 .. k - 1 : f[i] = Line[i + 1]
  BY <1>6, <1>7, HeadTailProperties
<1>9. \A i \in 1 .. k - 1 : f[i] \in Askers' /\ Distance(f[i])' = i - 1
  <2> TAKE i \in 1 .. k - 1
  <2>1. f[i] \in Askers /\ Distance(f[i]) = i
    <3>1. i + 1 \in 1 .. k /\ i + 1 - 1 = i
      BY <1>3
    <3> QED
      BY <1>5, <1>8, <3>1 DEF InLine
  <2>2. /\ ticket[f[i]] \in TicketValues /\ mOwner \in TicketValues
        /\ ticket[f[i]] # mOwner
    <3>1. ticket[f[i]] \in TicketValues /\ mOwner \in TicketValues
      BY <2>1 DEF TickInv, TypeOK, Askers
    <3>2. i # 0
      BY <1>3
    <3> QED
      BY <2>1, <3>1, <3>2 DEF Distance, TicketValues
  <2>3. f[i] # t
    BY <1>4, <2>2
  <2>4. Distance(f[i])' = i - 1
    BY <1>1, <2>1, <2>2, LockAssumption DEF Distance, Succ, TicketValues
  <2> QED
    BY <1>2, <2>1, <2>3, <2>4
<1>10. InLine(f)'
  <2>1. f = [i \in 1 .. k - 1 |-> f[i]]
    BY <1>8
  <2> QED
    BY <1>3, <1>9, <2>1 DEF InLine
<1>11. f = Line'
  <2>1. TypeOK' /\ TickInv'
    BY TickUnlock, TypeStep DEF Next, Thread
  <2>2. LineSorted'
    BY <2>1, LineInOrder, PTL
  <2> QED
    BY <1>10, <2>2 DEF LineSorted
<1> QED
  BY <1>7, <1>11

\* The ticket lock implements the lock that serves in the order of asking,
\* for any number of threads up to the number of tickets and however often
\* the counters wrap; the other lock is not claimed to.
THEOREM FifoLockCorrect == Spec => IsFifoLock
<1> DEFINE waiting == IF Ticking THEN Line ELSE <<>>
           inside == Ticking /\ \E t \in Threads : Inside(t)
<1>1. Init => Fifo!Init
  <2> SUFFICES ASSUME Init PROVE waiting = <<>> /\ inside = FALSE
    BY DEF Fifo!Init
  <2>1. Askers = {}
    BY DEF Init, Askers, Asking
  <2>2. Cardinality(Askers) = 0
    BY <2>1, FS_EmptySet
  <2>3. Line = <<>>
    BY <2>2 DEF Line
  <2>4. \A t \in Threads : ~Inside(t)
    BY DEF Init, Inside
  <2> QED
    BY <2>3, <2>4
<1>2. IInv /\ [Next]_vars => [Fifo!Next]_<<waiting, inside>>
  <2> SUFFICES ASSUME TypeOK, LockInv, [Next]_vars
               PROVE  Fifo!Next \/ (waiting' = waiting /\ inside' = inside)
    BY DEF IInv
  <2>1. CASE UNCHANGED vars
    BY <2>1 DEF vars, lockVars, Ticking, Line, Askers, Asking, Before,
                Distance, Inside
  <2>2. ASSUME NEW t \in Threads, Thread(t), policy # "TICK"
        PROVE  waiting' = waiting /\ inside' = inside
    BY <2>2 DEF Ticking, Thread, Draw, Lock, Load, Store, Unlock
  <2>3. ASSUME NEW t \in Threads, Thread(t), policy = "TICK"
        PROVE  Fifo!Next \/ (waiting' = waiting /\ inside' = inside)
    <3>1. /\ Ticking /\ Ticking' /\ TickInv
          /\ waiting = Line /\ waiting' = Line'
          /\ inside = (\E u \in Threads : Inside(u))
          /\ inside' = (\E u \in Threads : Inside(u)')
      BY <2>3 DEF Ticking, LockInv, Thread, Draw, Lock, Load, Store, Unlock
    <3>2. CASE Draw(t)
      <4>1. \A u \in Threads : Inside(u)' = Inside(u)
        BY <3>2 DEF Draw, Go, Inside, TypeOK
      <4>2. inside' = inside
        BY <3>1, <4>1
      <4>3. /\ \A i \in 1 .. Len(waiting) : waiting[i] # t
            /\ waiting' = Append(waiting, t)
        BY <2>3, <3>1, <3>2, DrawJoins
      <4> QED
        BY <4>2, <4>3 DEF Fifo!Next, Fifo!Ask
    <3>3. CASE Lock(t)
      <4>1. /\ pc[t] = "spin" /\ ticket[t] = mOwner
            /\ pc' = [pc EXCEPT ![t] = "load"]
            /\ mOwner' = mOwner /\ ticket' = ticket
        BY <2>3, <3>3 DEF Lock, Served, Go
      <4>2. t \in Askers /\ waiting # <<>>
        <5>1. t \in Askers
          BY <4>1 DEF Askers, Asking
        <5>2. Cardinality(Askers) # 0
          BY <5>1, AskersCount, FS_EmptySet
        <5>3. InLine(Line)
          BY <3>1, LineInOrder DEF LineSorted
        <5> QED
          BY <3>1, <5>1, <5>2, <5>3, AskersCount DEF InLine
      <4>3. ~inside
        BY <3>1, <4>1, <4>2 DEF TickInv, Inside, Askers, Asking
      <4>4. inside'
        <5>1. Inside(t)'
          BY <4>1 DEF Inside, TypeOK
        <5> QED
          BY <3>1, <5>1
      <4>5. waiting' = waiting
        <5>1. Askers' = Askers
          BY <4>1 DEF Askers, Asking, TypeOK
        <5> QED
          BY <3>1, <4>1, <5>1 DEF Line, Before, Distance
      <4> QED
        BY <4>2, <4>3, <4>4, <4>5 DEF Fifo!Next, Fifo!Enter
    <3>4. CASE Load(t) \/ Store(t)
      <4>1. /\ Inside(t) /\ Inside(t)'
            /\ \A u \in Threads \ {t} : pc'[u] = pc[u]
            /\ mOwner' = mOwner /\ ticket' = ticket
        BY <3>4 DEF Load, Store, Go, lockVars, Inside, TypeOK
      <4>2. inside' = inside
        BY <3>1, <4>1
      <4>3. Askers' = Askers
        BY <4>1 DEF Askers, Asking, Inside
      <4> QED
        BY <3>1, <4>1, <4>2, <4>3 DEF Line, Before, Distance
    <3>5. CASE Unlock(t)
      <4>1. pc[t] = "unlock" /\ pc' = [pc EXCEPT ![t] = "idle"]
        BY <3>5 DEF Unlock, Go
      <4>2. Inside(t) /\ inside
        BY <3>1, <4>1 DEF Inside
      <4>3. ~inside'
        <5>1. ASSUME NEW u \in Threads, Inside(u)' PROVE FALSE
          <6>1. u # t /\ Inside(u)
            BY <4>1, <5>1 DEF Inside, TypeOK
          <6> QED
            BY <3>1, <4>2, <6>1 DEF TickInv, Askers, Asking, Inside
        <5> QED
          BY <3>1, <5>1
      <4>4. waiting' = Tail(waiting)
        BY <2>3, <3>1, <3>5, UnlockLeaves
      <4> QED
        BY <4>2, <4>3, <4>4 DEF Fifo!Next, Fifo!Leave
    <3> QED
      BY <2>3, <3>2, <3>3, <3>4, <3>5 DEF Thread
  <2> QED
    BY <2>1, <2>2, <2>3 DEF Next
<1> QED
  BY <1>1, <1>2, LockInvariant, PTL DEF Spec, IsFifoLock, Fifo!Spec

(***************************************************************************)
(* No increment is lost                                                    *)
(***************************************************************************)

Unlocking == {t \in Threads : pc[t] = "unlock"}
CountInv ==
  /\ gCount = Total(loops, Threads) + Cardinality(Unlocking)
  /\ \A t \in Threads : pc[t] = "store" => tmp[t] = gCount

LEMMA UnlockingCount == IsFiniteSet(Unlocking) /\ Cardinality(Unlocking) \in Nat
<1>1. Unlocking \in SUBSET Threads /\ IsFiniteSet(Threads)
  BY LockAssumption DEF Unlocking
<1> QED
  BY <1>1, FS_Subset, FS_CardinalityType

LEMMA CountInit == Init => CountInv
<1> SUFFICES ASSUME Init PROVE CountInv
  OBVIOUS
<1>1. /\ gCount = 0 /\ loops = [t \in Threads |-> 0] /\ pc = [t \in Threads |-> "idle"]
  BY DEF Init
<1>2. Total(loops, Threads) = 0
  BY <1>1, LockAssumption, TotalZero
<1>3. Cardinality(Unlocking) = 0
  <2>1. Unlocking = {}
    BY <1>1 DEF Unlocking
  <2> QED
    BY <2>1, FS_EmptySet
<1> QED
  BY <1>1, <1>2, <1>3 DEF CountInv

LEMMA CountStep ==
  TypeOK /\ MutualExclusion /\ CountInv /\ [Next]_vars => CountInv'
<1> SUFFICES ASSUME TypeOK, MutualExclusion, CountInv, [Next]_vars PROVE CountInv'
  OBVIOUS
<1>1. CASE UNCHANGED vars
  BY <1>1 DEF vars, CountInv, Unlocking
<1>2. ASSUME NEW t \in Threads, Draw(t) \/ Lock(t) \/ Load(t) PROVE CountInv'
  <2>1. /\ gCount' = gCount /\ loops' = loops
        /\ pc[t] \notin {"store", "unlock"} /\ pc'[t] \notin {"unlock"}
        /\ pc'[t] = "store" => tmp'[t] = gCount
        /\ \A u \in Threads \ {t} : pc'[u] = pc[u] /\ tmp'[u] = tmp[u]
    BY <1>2 DEF Draw, Lock, Load, Go, TypeOK
  <2>2. Unlocking' = Unlocking
    BY <2>1 DEF Unlocking
  <2> QED
    BY <2>1, <2>2 DEF CountInv
<1>3. ASSUME NEW t \in Threads, Store(t) PROVE CountInv'
  <2>1. /\ pc[t] = "store" /\ gCount' = gCount + 1 /\ loops' = loops
        /\ pc' = [pc EXCEPT ![t] = "unlock"] /\ tmp' = tmp
    BY <1>3 DEF Store, Go, CountInv
  <2>2. pc'[t] = "unlock" /\ \A u \in Threads \ {t} : pc'[u] = pc[u]
    BY <2>1 DEF TypeOK
  <2>3. Unlocking' = Unlocking \cup {t} /\ t \notin Unlocking
    BY <2>1, <2>2 DEF Unlocking
  <2>4. Cardinality(Unlocking') = Cardinality(Unlocking) + 1
    BY <2>3, UnlockingCount, FS_AddElement
  <2>5. \A u \in Threads \ {t} : pc[u] # "store"
    BY <2>1 DEF MutualExclusion, Inside
  <2>6. Total(loops, Threads) \in Nat
    BY LockAssumption, TotalNat DEF TypeOK
  <2> QED
    BY <2>1, <2>2, <2>4, <2>5, <2>6, UnlockingCount DEF CountInv
<1>4. ASSUME NEW t \in Threads, Unlock(t) PROVE CountInv'
  <2>1. /\ pc[t] = "unlock" /\ gCount' = gCount /\ tmp' = tmp
        /\ loops' = [loops EXCEPT ![t] = @ + 1] /\ pc' = [pc EXCEPT ![t] = "idle"]
    BY <1>4 DEF Unlock, Go
  <2>2. pc'[t] = "idle" /\ \A u \in Threads \ {t} : pc'[u] = pc[u]
    BY <2>1 DEF TypeOK
  <2>3. Unlocking' = Unlocking \ {t} /\ t \in Unlocking
    BY <2>1, <2>2 DEF Unlocking
  <2>4. Cardinality(Unlocking') = Cardinality(Unlocking) - 1
    BY <2>3, UnlockingCount, FS_RemoveElement
  <2>5. Total(loops', Threads) + loops[t] = Total(loops, Threads) + loops'[t]
    <3>1. \A u \in Threads : loops[u] \in Nat /\ loops'[u] \in Nat
      BY <2>1 DEF TypeOK
    <3>2. \A u \in Threads \ {t} : loops[u] = loops'[u]
      BY <2>1 DEF TypeOK
    <3> QED
      BY <3>1, <3>2, LockAssumption, TotalMoves
  <2>6. loops'[t] = loops[t] + 1 /\ loops[t] \in Nat
    BY <2>1 DEF TypeOK
  <2>7. Total(loops, Threads) \in Nat /\ Total(loops', Threads) \in Nat
    <3>1. \A u \in Threads : loops[u] \in Nat /\ loops'[u] \in Nat
      BY <2>1 DEF TypeOK
    <3> QED
      BY <3>1, LockAssumption, TotalNat
  <2>8. Total(loops', Threads) + Cardinality(Unlocking')
          = Total(loops, Threads) + Cardinality(Unlocking)
    BY <2>4, <2>5, <2>6, <2>7, UnlockingCount
  <2>9. \A u \in Threads : pc'[u] = "store" => tmp'[u] = gCount'
    BY <2>1, <2>2 DEF CountInv
  <2> QED
    BY <2>1, <2>8, <2>9 DEF CountInv
<1> QED
  BY <1>1, <1>2, <1>3, <1>4 DEF Next, Thread

\* At every moment the counter is the rounds done and the increment of who is
\* about to unlock, with either lock and any number of threads and rounds.
THEOREM CountCorrect == Spec => []CountExact
<1>1. CountInv => CountExact
  BY DEF CountInv, CountExact, Unlocking, Total
<1>2. Spec => []TypeOK
  BY TypeCorrect
<1>3. Spec => []MutualExclusion
  BY MutualExclusionCorrect
<1> QED
  BY <1>1, <1>2, <1>3, CountInit, CountStep, PTL DEF Spec

(***************************************************************************)
(* The programs side by side                                               *)
(***************************************************************************)

allVars == <<program, vars, bitmapVars, stackVars, poolVars,
                        observerVars, condVars, shareVars, orderVars, logVars,
                        signalVars, onceVars>>

\* Whichever program runs, the variables of each take its own steps or none.
LEMMA OwnSteps ==
  [ProgramsNext]_allVars =>
    /\ [Next]_vars /\ [Making!Next]_onceVars /\ [Sharing!Next]_shareVars
    /\ [Waiting!Next]_condVars /\ [Observing!Next]_observerVars
    /\ [Handling!Next]_signalVars /\ [Memory!BitmapNext]_bitmapVars
    /\ [Memory!StackNext]_stackVars /\ [Memory!PoolNext]_poolVars
<1> SUFFICES ASSUME [ProgramsNext]_allVars PROVE
    /\ [Next]_vars /\ [Making!Next]_onceVars /\ [Sharing!Next]_shareVars
    /\ [Waiting!Next]_condVars /\ [Observing!Next]_observerVars
    /\ [Handling!Next]_signalVars /\ [Memory!BitmapNext]_bitmapVars
    /\ [Memory!StackNext]_stackVars /\ [Memory!PoolNext]_poolVars
  OBVIOUS
<1>1. CASE UNCHANGED allVars
  BY <1>1, Zenon DEF allVars
<1>2. CASE ProgramsNext
  <2>1. [Making!Next]_onceVars
    BY <1>2 DEF ProgramsNext, Others
  <2>2. [Sharing!Next]_shareVars
    BY <1>2 DEF ProgramsNext, Others
  <2>3. [Waiting!Next]_condVars
    BY <1>2 DEF ProgramsNext, Others
  <2>4. [Observing!Next]_observerVars
    BY <1>2 DEF ProgramsNext, Others
  <2>5. [Handling!Next]_signalVars
    BY <1>2 DEF ProgramsNext, Others
  <2>6. [Memory!BitmapNext]_bitmapVars
    BY <1>2 DEF ProgramsNext, Others
  <2>7. [Memory!StackNext]_stackVars
    BY <1>2 DEF ProgramsNext, Others
  <2>8. [Memory!PoolNext]_poolVars
    BY <1>2 DEF ProgramsNext, Others
  <2>9. [Next]_vars
    BY <1>2 DEF ProgramsNext, Others
  <2> QED
    BY <2>1, <2>2, <2>3, <2>4, <2>5, <2>6, <2>7, <2>8, <2>9
<1> QED
  BY <1>1, <1>2

(***************************************************************************)
(* OnceInit: one object                                                    *)
(***************************************************************************)

\* What holds of a thread at each place of a call
MakingPlace(t) ==
  /\ oc_at[t] \in {"idle", "load", "lock", "new", "build", "store", "unlock", "return"}
  /\ oc_at[t] = "new" => made = 0
  /\ oc_at[t] \in {"build", "store"} => mInstance = 0 /\ made = 1 /\ oc_tmp[t] = 1
  /\ oc_at[t] = "store" => built = {1}
  /\ oc_at[t] \in {"unlock", "return"} => mInstance = 1 /\ oc_tmp[t] = 1

InMaking(t) == oc_at[t] \in {"new", "build", "store", "unlock"}

\* The mutex is held by one thread at most, and until mInstance has been stored
\* only that one can have made an object.
MakingInv ==
  /\ DOMAIN oc_at = Getters /\ DOMAIN oc_tmp = Getters
  /\ \A t \in Getters : MakingPlace(t)
  /\ \A t \in Getters : InMaking(t) => oc_mutex
  /\ \A t, u \in Getters : InMaking(t) /\ InMaking(u) => t = u
  /\ mInstance \in {0, 1} /\ built \subseteq {1}
  /\ mInstance = 1 => made = 1 /\ built = {1}
  /\ mInstance = 0 => returned = {}
  /\ mInstance = 0 /\ (\A t \in Getters : oc_at[t] \notin {"build", "store"}) => made = 0
  /\ returned \subseteq {[object |-> 1, whole |-> TRUE]}

LEMMA MakingInit == ProgramsInit => MakingInv
  BY DEF ProgramsInit, Making!Init, Making!None, MakingInv, MakingPlace, InMaking

LEMMA MakingStep == MakingInv /\ [Making!Next]_onceVars => MakingInv'
<1> SUFFICES ASSUME MakingInv, [Making!Next]_onceVars PROVE MakingInv'
  OBVIOUS
<1> USE DEF MakingInv, MakingPlace, InMaking, Making!Goto, Making!None
<1>1. CASE UNCHANGED onceVars
  BY <1>1 DEF onceVars
<1>2. ASSUME NEW t \in Getters, Making!Thread(t) PROVE MakingInv'
  <2>1. CASE Making!Call(t)
    BY <2>1 DEF Making!Call
  <2>2. CASE Making!Load(t)
    BY <2>2 DEF Making!Load
  <2>3. CASE Making!LockAndLoad(t)
    BY <2>3 DEF Making!LockAndLoad
  <2>4. CASE Making!New(t)
    BY <2>4 DEF Making!New, Making!Unwound
  <2>5. CASE Making!Build(t)
    BY <2>5 DEF Making!Build
  <2>6. CASE Making!Store(t)
    BY <2>6 DEF Making!Store
  <2>7. CASE Making!Unlock(t)
    BY <2>7 DEF Making!Unlock
  <2>8. CASE Making!Return(t)
    <3>1. oc_tmp[t] = 1 /\ (oc_tmp[t] \in built) = TRUE
      BY <2>8 DEF Making!Return
    <3>2. returned' = returned \cup {[object |-> 1, whole |-> TRUE]}
      BY <2>8, <3>1, Zenon DEF Making!Return
    <3>3. mInstance' = 1
      BY <2>8 DEF Making!Return
    <3> QED
      BY <2>8, <3>2, <3>3 DEF Making!Return
  <2> QED
    BY <1>2, <2>1, <2>2, <2>3, <2>4, <2>5, <2>6, <2>7, <2>8 DEF Making!Thread
<1> QED
  BY <1>1, <1>2 DEF Making!Next

LEMMA MakingGives == MakingInv => Making!OneInstance
  BY DEF MakingInv, Making!OneInstance

(***************************************************************************)
(* ShareMem: one page                                                      *)
(***************************************************************************)

InMmap == {"closed", "user", "area", "array", "page", "take", "map", "insert"}

\* Before buffer_addr is set nothing is there.
Fresh ==
  /\ pages_ptr_array = {} /\ written = {} /\ ~oops
  /\ \A p \in Procs : mapped[p] = {} /\ user[p] = {}
  /\ \A p \in Procs : at[p] \in {"closed", "user", "area"}

\* The first mmap() has set it: m allocates, or has mapped its page, or failed.
Made(m) ==
  /\ \A p \in Procs : Sharing!Allocating(p) => p = m /\ at[p] # "area" /\ mapped[m] = {}
  /\ \A p \in Procs : at[p] = "insert" /\ ~oops => mapped[m] # {}
  /\ at[m] \in {"take", "map"} /\ ~oops => pages_ptr_array = {m}
  /\ pages_ptr_array \in {{}, {m}}
  /\ at[m] = "map" => vm_area[m].addr = {m} /\ vm_area[m].pages = pages_ptr_array
  /\ mapped[m] # {} => pages_ptr_array = {m} /\ content[m] = mapped[m]
  /\ \A p \in Procs : user[p] \in {mapped[m], {}}
  /\ written \in {mapped[m], {}}
  /\ oops => mapped[m] = {}

\* One process at a time allocates, unless two have met.
SharingInv ==
  /\ at \in [Procs -> InMmap] /\ met \in BOOLEAN /\ oops \in BOOLEAN
  /\ DOMAIN mutex = Procs /\ DOMAIN user = Procs /\ DOMAIN mapped = Procs
  /\ DOMAIN content = Procs /\ DOMAIN vm_area = Procs
  /\ ~met =>
       /\ \A p, q \in Procs : Sharing!Allocating(p) /\ Sharing!Allocating(q) => p = q
       /\ \/ buffer_addr = {} /\ Fresh
          \/ \E m \in Procs : buffer_addr = {m} /\ Made(m)

LEMMA ThroughOne ==
  ASSUME NEW m, NEW f PROVE Sharing!Through({m}, f) = f[m] /\ Sharing!Through({}, f) = {}
  BY DEF Sharing!Through

LEMMA SharingInit == ProgramsInit => SharingInv
<1>1. ProgramsInit => Sharing!Init
  BY DEF ProgramsInit
<1>2. Sharing!Init => SharingInv
  BY DEF Sharing!Init, Sharing!NULL, SharingInv, InMmap, Sharing!Allocating, Fresh
<1> QED
  BY <1>1, <1>2

\* That two have met is not forgotten.
LEMMA MetStays ==
  ASSUME SharingInv, Sharing!Next
  PROVE  met' \in BOOLEAN /\ oops' \in BOOLEAN /\ (met => met')
<1>1. PICK p \in Procs :
        \/ Sharing!Open(p) \/ Sharing!Mmap(p) \/ Sharing!Area(p) \/ Sharing!NewArray(p)
        \/ Sharing!NewPage(p) \/ Sharing!Take(p) \/ Sharing!MapKernel(p)
        \/ Sharing!Insert(p) \/ Sharing!Read(p) \/ Sharing!Write(p)
  BY DEF Sharing!Next
<1>2. met \in BOOLEAN /\ oops \in BOOLEAN
  BY DEF SharingInv
<1>3. CASE Sharing!Mmap(p)
  BY <1>2, <1>3 DEF Sharing!Mmap
<1>4. CASE Sharing!Open(p) \/ Sharing!Area(p) \/ Sharing!NewArray(p) \/ Sharing!Take(p)
  BY <1>2, <1>4 DEF Sharing!Open, Sharing!Area, Sharing!NewArray, Sharing!Take
<1>5. CASE Sharing!NewPage(p) \/ Sharing!MapKernel(p)
  BY <1>2, <1>5 DEF Sharing!NewPage, Sharing!MapKernel
<1>6. CASE Sharing!Insert(p) \/ Sharing!Read(p) \/ Sharing!Write(p)
  BY <1>2, <1>6 DEF Sharing!Insert, Sharing!Read, Sharing!Write
<1> QED
  BY <1>1, <1>3, <1>4, <1>5, <1>6

\* A step while nobody has set buffer_addr
LEMMA FreshStep ==
  ASSUME SharingInv, Sharing!Next, ~met', buffer_addr = {}
  PROVE  SharingInv'
<1>1. ~met /\ ~oops
  BY MetStays DEF Sharing!Next
<1>2. Fresh
  BY <1>1 DEF SharingInv
<1>3. PICK p \in Procs : Sharing!Open(p) \/ Sharing!Mmap(p) \/ Sharing!Area(p) \/ Sharing!Read(p)
  BY <1>2 DEF Sharing!Next, Fresh, Sharing!NewArray, Sharing!NewPage, Sharing!Take,
              Sharing!MapKernel, Sharing!Insert, Sharing!Write, Sharing!NULL
<1> USE <1>1, <1>2 DEF SharingInv, Fresh, InMmap, Sharing!Allocating, Sharing!Go, Sharing!Hold,
        Sharing!NULL, Sharing!Present
<1>4. CASE Sharing!Open(p)
  BY <1>4 DEF Sharing!Open
<1>5. CASE Sharing!Mmap(p)
  <2>1. at' = [at EXCEPT ![p] = "area"] /\ ~oops'
        /\ UNCHANGED <<buffer_addr, pages_ptr_array, content, vm_area, mapped, user, written>>
    BY <1>5 DEF Sharing!Mmap
  <2>2. \A q \in Procs : ~Sharing!Allocating(q)
    BY <1>5 DEF Sharing!Mmap
  <2>3. DOMAIN mutex' = Procs
    BY <1>5 DEF Sharing!Mmap
  <2> QED
    BY <2>1, <2>2, <2>3, MetStays
<1>6. CASE Sharing!Area(p)
  <2>1. CASE at' = [at EXCEPT ![p] = "user"]
    BY <1>6, <2>1 DEF Sharing!Area
  <2>2. CASE at' = [at EXCEPT ![p] = "array"] /\ buffer_addr' = {p}
    <3>1. /\ at'[p] = "array" /\ at[p] = "area" /\ \A q \in Procs \ {p} : at'[q] = at[q]
          /\ UNCHANGED <<mutex, pages_ptr_array, content, vm_area, mapped, user, written, oops, met>>
      BY <1>6, <2>2 DEF Sharing!Area
    <3>2. Made(p)'
      BY <3>1 DEF Made
    <3>3. \A q, r \in Procs : Sharing!Allocating(q)' /\ Sharing!Allocating(r)' => q = r
      BY <3>1
    <3> QED
      BY <2>2, <3>1, <3>2, <3>3
  <2> QED
    BY <1>6, <2>1, <2>2 DEF Sharing!Area
<1>7. CASE Sharing!Read(p)
  BY <1>7 DEF Sharing!Read
<1> QED
  BY <1>3, <1>4, <1>5, <1>6, <1>7

\* A step afterwards
LEMMA MadeStep ==
  ASSUME SharingInv, Sharing!Next, ~met', NEW m \in Procs, buffer_addr = {m}, Made(m)
  PROVE  SharingInv'
<1>1. ~met /\ ~oops
  BY MetStays DEF Sharing!Next
<1>2. Sharing!Kernel = mapped[m] /\ Sharing!Present /\ Sharing!NULL = {}
  BY ThroughOne DEF Sharing!Kernel, Sharing!Present, Sharing!NULL
<1>3. PICK p \in Procs :
        \/ Sharing!Open(p) \/ Sharing!Mmap(p) \/ Sharing!NewArray(p)
        \/ Sharing!NewPage(p) \/ Sharing!Take(p) \/ Sharing!MapKernel(p)
        \/ Sharing!Insert(p) \/ Sharing!Read(p) \/ Sharing!Write(p)
  <2>1. \A p \in Procs : at[p] # "area"
    BY DEF Made, Sharing!Allocating
  <2> QED
    BY <2>1 DEF Sharing!Next, Sharing!Area
<1>a. met' \in BOOLEAN /\ oops' \in BOOLEAN
  BY MetStays
<1> SUFFICES /\ at' \in [Procs -> InMmap]
             /\ DOMAIN mutex' = Procs /\ DOMAIN user' = Procs /\ DOMAIN mapped' = Procs
             /\ DOMAIN content' = Procs /\ DOMAIN vm_area' = Procs
             /\ \A q, r \in Procs : Sharing!Allocating(q)' /\ Sharing!Allocating(r)' => q = r
             /\ buffer_addr' = {m} /\ Made(m)'
  BY <1>a DEF SharingInv
<1> USE <1>1, <1>2 DEF SharingInv, Made, InMmap, Sharing!Allocating, Sharing!Go, Sharing!Hold
<1>4. CASE Sharing!Open(p)
  BY <1>4 DEF Sharing!Open
<1>5. CASE Sharing!Mmap(p)
  <2>1. at' = [at EXCEPT ![p] = "insert"] /\ (oops' <=> mapped[m] = {}) /\ mutex' = mutex
        /\ UNCHANGED <<buffer_addr, pages_ptr_array, content, vm_area, mapped, user, written>>
    BY <1>5 DEF Sharing!Mmap
  <2> QED
    BY <1>5, <2>1
<1>6. CASE Sharing!NewArray(p)
  BY <1>6 DEF Sharing!NewArray
<1>7. CASE Sharing!NewPage(p)
  BY <1>7 DEF Sharing!NewPage
<1>8. CASE Sharing!Take(p)
  BY <1>8 DEF Sharing!Take
<1>9. CASE Sharing!MapKernel(p)
  <2>1. p = m /\ at[p] = "map" /\ vm_area[p].addr = {m} /\ vm_area[p].pages = {m}
        /\ mapped[m] = {} /\ \A q \in Procs : at[q] # "insert"
    BY <1>9 DEF Sharing!MapKernel
  <2>2. Sharing!Through(vm_area[p].pages, content) = content[m]
    BY <2>1, ThroughOne
  <2>3. CASE at' = [at EXCEPT ![p] = "user"] /\ UNCHANGED mapped
    BY <1>9, <2>1, <2>3 DEF Sharing!MapKernel
  <2>4. CASE /\ mapped' = [a \in Procs |-> IF a \in {m} THEN content[m] ELSE mapped[a]]
             /\ content[m] # {} /\ at' = [at EXCEPT ![p] = "insert"]
    BY <1>9, <2>1, <2>4 DEF Sharing!MapKernel
  <2> QED
    BY <1>9, <2>1, <2>2, <2>3, <2>4 DEF Sharing!MapKernel
<1>10. CASE Sharing!Insert(p)
  <2>1. Sharing!Shared = mapped[m] /\ mapped[m] # {}
    BY <1>10, ThroughOne DEF Sharing!Insert, Sharing!Shared
  <2> QED
    BY <1>10, <2>1 DEF Sharing!Insert
<1>11. CASE Sharing!Read(p)
  BY <1>11 DEF Sharing!Read
<1>12. CASE Sharing!Write(p)
  BY <1>12 DEF Sharing!Write
<1> QED
  BY <1>3, <1>4, <1>5, <1>6, <1>7, <1>8, <1>9, <1>10, <1>11, <1>12

\* What needs no excuse
LEMMA SharingTypes ==
  ASSUME SharingInv, Sharing!Next, met'
  PROVE  SharingInv'
<1> USE DEF SharingInv, InMmap, Sharing!Go, Sharing!Hold
<1>1. PICK p \in Procs :
        \/ Sharing!Open(p) \/ Sharing!Mmap(p) \/ Sharing!Area(p) \/ Sharing!NewArray(p)
        \/ Sharing!NewPage(p) \/ Sharing!Take(p) \/ Sharing!MapKernel(p)
        \/ Sharing!Insert(p) \/ Sharing!Read(p) \/ Sharing!Write(p)
  BY DEF Sharing!Next
<1>2. at' \in [Procs -> InMmap]
  BY <1>1 DEF Sharing!Open, Sharing!Mmap, Sharing!Area, Sharing!NewArray,
         Sharing!NewPage, Sharing!Take, Sharing!MapKernel, Sharing!Insert, Sharing!Read,
         Sharing!Write
<1>3. DOMAIN mutex' = Procs /\ DOMAIN user' = Procs /\ DOMAIN mapped' = Procs
      /\ DOMAIN content' = Procs /\ DOMAIN vm_area' = Procs
  BY <1>1 DEF Sharing!Open, Sharing!Mmap, Sharing!Area, Sharing!NewArray,
         Sharing!NewPage, Sharing!Take, Sharing!MapKernel, Sharing!Insert, Sharing!Read,
         Sharing!Write
<1> QED
  BY <1>2, <1>3, MetStays

LEMMA SharingStep == SharingInv /\ [Sharing!Next]_shareVars => SharingInv'
<1> SUFFICES ASSUME SharingInv, [Sharing!Next]_shareVars PROVE SharingInv'
  OBVIOUS
<1>1. CASE UNCHANGED shareVars
  BY <1>1 DEF shareVars, SharingInv, Fresh, Made, Sharing!Allocating
<1>2. CASE Sharing!Next
  <2>1. CASE met'
    BY <1>2, <2>1, SharingTypes
  <2>2. CASE ~met'
    <3>1. ~met
      BY <1>2, <2>2, MetStays
    <3>2. buffer_addr = {} \/ \E m \in Procs : buffer_addr = {m} /\ Made(m)
      BY <3>1 DEF SharingInv
    <3> QED
      BY <1>2, <2>2, <3>2, FreshStep, MadeStep
  <2> QED
    BY <2>1, <2>2
<1> QED
  BY <1>1, <1>2

LEMMA SharingGives == SharingInv => Sharing!OnePage
<1> SUFFICES ASSUME SharingInv, ~met
             PROVE  /\ \A p \in Procs : user[p] \in {Sharing!Kernel, {}}
                    /\ written \in {Sharing!Kernel, {}}
                    /\ oops => buffer_addr # {} /\ Sharing!Kernel = {}
  BY DEF Sharing!OnePage, Sharing!NULL
<1>1. CASE buffer_addr = {} /\ Fresh
  BY <1>1 DEF Fresh
<1>2. ASSUME NEW m \in Procs, buffer_addr = {m} /\ Made(m)
      PROVE  /\ \A p \in Procs : user[p] \in {Sharing!Kernel, {}}
             /\ written \in {Sharing!Kernel, {}}
             /\ oops => buffer_addr # {} /\ Sharing!Kernel = {}
  <2>1. Sharing!Kernel = mapped[m]
    BY <1>2, ThroughOne DEF Sharing!Kernel
  <2> QED
    BY <1>2, <2>1 DEF Made
<1> QED
  BY <1>1, <1>2 DEF SharingInv

(***************************************************************************)
(* CondWait: flags and waiters                                             *)
(***************************************************************************)

Left(w) == cpc[w] = "exit"
HasSet(k) == cpc[k] # "set"

\* No more have left than flags were set, and a flag is there as long as nobody
\* has left.
WaitingInv ==
  /\ cpc \in [{"Waiter1", "Waiter2", "T3", "T4"} ->
                {"test", "spin", "woken", "asleep", "set", "clear", "signal", "exit"}]
  /\ ready \in BOOLEAN
  /\ cpc["Waiter1"] \in {"test", "woken", "asleep", "exit"}
  /\ cpc["Waiter2"] \in {"spin", "test", "woken", "asleep", "exit"}
  /\ cpc["T3"] \in {"set", "clear", "signal", "exit"}
  /\ cpc["T4"] \in {"set", "clear", "signal", "exit"}
  /\ ready => HasSet("T3") \/ HasSet("T4")
  /\ Left("Waiter1") \/ Left("Waiter2") => HasSet("T3") \/ HasSet("T4")
  /\ (Left("Waiter1") \/ Left("Waiter2")) /\ ready => HasSet("T3") /\ HasSet("T4")
  /\ Left("Waiter1") /\ Left("Waiter2") => HasSet("T3") /\ HasSet("T4") /\ ~ready
  /\ ~Left("Waiter1") /\ ~Left("Waiter2") /\ (HasSet("T3") \/ HasSet("T4")) => ready

LEMMA WaitingInit == ProgramsInit => WaitingInv
  BY DEF ProgramsInit, Waiting!Init, Waiting!Starts, Waiting!Waiters, Waiting!Wakers,
         WaitingInv, Left, HasSet

LEMMA WaitingStep == WaitingInv /\ [Waiting!Next]_condVars => WaitingInv'
<1> SUFFICES ASSUME WaitingInv, [Waiting!Next]_condVars PROVE WaitingInv'
  OBVIOUS
<1> USE DEF WaitingInv, Left, HasSet, Waiting!Waiters, Waiting!Wakers, Waiting!Go
<1>1. CASE UNCHANGED condVars
  BY <1>1 DEF condVars
<1>2. CASE Waiting!Spin
  BY <1>2 DEF Waiting!Spin
<1>3. CASE Waiting!Round
  BY <1>3 DEF Waiting!Round, Waiting!Starts
<1>4. ASSUME NEW w \in Waiting!Waiters, Waiting!Test(w) PROVE WaitingInv'
  BY <1>4 DEF Waiting!Test
<1>5. ASSUME NEW w \in Waiting!Waiters, Waiting!Spurious(w) PROVE WaitingInv'
  BY <1>5 DEF Waiting!Spurious
<1>6. ASSUME NEW k \in Waiting!Wakers, Waiting!Set(k) PROVE WaitingInv'
  BY <1>6 DEF Waiting!Set
<1>7. ASSUME NEW k \in Waiting!Wakers, Waiting!Clear(k) PROVE WaitingInv'
  BY <1>7 DEF Waiting!Clear
<1>8. ASSUME NEW k \in Waiting!Wakers, Waiting!Signal(k) PROVE WaitingInv'
  BY <1>8 DEF Waiting!Signal, Waiting!Asleep
<1> QED
  BY <1>1, <1>2, <1>3, <1>4, <1>5, <1>6, <1>7, <1>8 DEF Waiting!Next, Waiting!Thread

LEMMA WaitingGives == WaitingInv => Waiting!FlagsMatch
  BY DEF WaitingInv, Waiting!FlagsMatch, Waiting!Waiters, Waiting!Wakers, Left, HasSet

(***************************************************************************)
(* Signals: masks, counts and indices                                      *)
(***************************************************************************)

Frame ==
  [sig : Handling!Signals, at : {"begin", "load", "sleep"}, own : Nat, index : Nat,
   cut : BOOLEAN]
MaskOf(sig) == Handling!Action(sig).mask

HandlingTypes ==
  /\ alive \in BOOLEAN /\ gSignals \in Nat
  /\ sent \in [Handling!Signals -> Nat] /\ pending \in [Handling!Signals -> Nat]
  /\ handled \in [Handling!Signals -> Nat]
  /\ frames \in Seq(Frame)

\* A handler was begun while no one below it on the stack masked its signal.
Unmasked ==
  \A i, j \in DOMAIN frames : i < j => frames[j].sig \notin MaskOf(frames[i].sig)

\* A signal that was sent is pending, was handled, or was pending already.
Accounted ==
  alive =>
    /\ handled[Handling!SIGRTMIN] + pending[Handling!SIGRTMIN] = sent[Handling!SIGRTMIN]
    /\ \A s \in Handling!Signals : handled[s] + pending[s] <= sent[s]

\* Every handler that has counted has a number of its own; one that is about to
\* load and was not interrupted is on top and has the latest.
Numbered ==
  /\ \A i \in DOMAIN frames :
       /\ frames[i].at # "begin" => frames[i].own \in 1 .. gSignals
       /\ frames[i].at = "load" /\ ~frames[i].cut =>
            i = Len(frames) /\ frames[i].own = gSignals
       /\ frames[i].at = "sleep" /\ ~frames[i].cut => frames[i].index = frames[i].own
  /\ \A i, j \in DOMAIN frames :
       frames[i].at # "begin" /\ frames[j].at # "begin"
         /\ frames[i].own = frames[j].own => i = j
  /\ \A x \in shown :
       /\ x.own \in 1 .. gSignals
       /\ x.index # x.own => x.cut
       /\ \A i \in DOMAIN frames : frames[i].at # "begin" => frames[i].own # x.own
  /\ \A x, y \in shown : x.own = y.own => x = y

HandlingInv == HandlingTypes /\ Unmasked /\ Accounted /\ Numbered

\* Each signal has one handler.
LEMMA Actions ==
  /\ MaskOf(Handling!SIGUSR1) = {}
  /\ MaskOf(Handling!SIGUSR2) = {Handling!SIGUSR2}
  /\ MaskOf(Handling!SIGRTMIN) = {Handling!SIGRTMIN}
  /\ MaskOf(Handling!SIGURG) = Handling!Signals
<1> DEFINE H == Handling!Handlers
<1>1. /\ DOMAIN H = 1 .. 4
      /\ H[1].signum = 10 /\ H[1].mask = {}
      /\ H[2].signum = 12 /\ H[2].mask = {12}
      /\ H[3].signum = 34 /\ H[3].mask = {34}
      /\ H[4].signum = 23 /\ H[4].mask = Handling!Signals
  BY DEF Handling!Handlers, Handling!SIGUSR1, Handling!SIGUSR2, Handling!SIGRTMIN,
         Handling!SIGURG
<1> HIDE DEF H
<1>2. ASSUME NEW k \in 1 .. 4 PROVE Handling!Action(H[k].signum) = H[k]
  <2>1. Handling!Range(H) = {H[1], H[2], H[3], H[4]}
    BY <1>1 DEF Handling!Range
  <2>2. \A h \in Handling!Range(H) : h.signum = H[k].signum => h = H[k]
    BY <1>1, <2>1
  <2>3. Handling!Action(H[k].signum) = CHOOSE h \in Handling!Range(H) : h.signum = H[k].signum
    BY DEF Handling!Action, H
  <2> QED
    BY <1>1, <2>1, <2>2, <2>3
<1> QED
  BY <1>1, <1>2 DEF MaskOf, Handling!SIGUSR1, Handling!SIGUSR2, Handling!SIGRTMIN,
     Handling!SIGURG

LEMMA HandlingInit == ProgramsInit => HandlingInv
<1> SUFFICES ASSUME Handling!Init PROVE HandlingInv
  BY DEF ProgramsInit
<1>1. HandlingTypes
  BY DEF Handling!Init, HandlingTypes
<1>2. Accounted
  BY DEF Handling!Init, Accounted, Handling!Signals
<1>3. Unmasked /\ Numbered
  BY DEF Handling!Init, Unmasked, Numbered
<1> QED
  BY <1>1, <1>2, <1>3 DEF HandlingInv

\* What a signal that comes leaves on the stack
LEMMA DeliverPushes ==
  ASSUME HandlingInv, NEW sig \in Handling!Signals, Handling!Deliver(sig),
         Handling!Installed(sig)
  PROVE  /\ frames' \in Seq(Frame)
         /\ Len(frames') = Len(frames) + 1
         /\ DOMAIN frames = 1 .. Len(frames) /\ DOMAIN frames' = 1 .. Len(frames) + 1
         /\ \A i \in 1 .. Len(frames) :
              /\ frames[i] \in Frame
              /\ frames'[i].sig = frames[i].sig /\ frames'[i].at = frames[i].at
              /\ frames'[i].own = frames[i].own /\ frames'[i].index = frames[i].index
              /\ frames[i].at = "load" => frames'[i].cut
              /\ frames[i].at # "load" => frames'[i].cut = frames[i].cut
         /\ frames'[Len(frames')].sig = sig /\ frames'[Len(frames')].at = "begin"
<1> DEFINE cutting(f) == IF f.at = "load" THEN [f EXCEPT !.cut = TRUE] ELSE f
           below == [i \in DOMAIN frames |-> cutting(frames[i])]
           new == [sig |-> sig, at |-> "begin", own |-> 0, index |-> 0, cut |-> FALSE]
<1>1. frames \in Seq(Frame) /\ Len(frames) \in Nat /\ DOMAIN frames = 1 .. Len(frames)
  BY DEF HandlingInv, HandlingTypes
<1>2. frames' = below \o <<new>>
  BY DEF Handling!Deliver
<1>3. new \in Frame
  BY DEF Frame
<1>4. \A f \in Frame :
         /\ cutting(f) \in Frame
         /\ cutting(f).sig = f.sig /\ cutting(f).at = f.at /\ cutting(f).own = f.own
         /\ cutting(f).index = f.index
         /\ f.at = "load" => cutting(f).cut
         /\ f.at # "load" => cutting(f) = f
  BY DEF Frame
<1>5. \A i \in 1 .. Len(frames) : frames[i] \in Frame
  BY <1>1
<1> HIDE DEF cutting, new
<1>6. below \in Seq(Frame) /\ Len(below) = Len(frames)
      /\ \A i \in 1 .. Len(frames) : below[i] = cutting(frames[i])
  BY <1>1, <1>4, <1>5
<1> HIDE DEF below
<1>7. <<new>> \in Seq(Frame) /\ Len(<<new>>) = 1 /\ <<new>>[1] = new
  BY <1>3
<1>8. /\ below \o <<new>> \in Seq(Frame)
      /\ Len(below \o <<new>>) = Len(frames) + 1
      /\ \A i \in 1 .. Len(frames) : (below \o <<new>>)[i] = below[i]
      /\ (below \o <<new>>)[Len(frames) + 1] = new
  BY <1>1, <1>6, <1>7, ConcatProperties
<1>9. new.sig = sig /\ new.at = "begin"
  BY DEF new
<1> QED
  BY <1>1, <1>2, <1>4, <1>5, <1>6, <1>8, <1>9

LEMMA DeliverStep ==
  ASSUME HandlingInv, NEW sig \in Handling!Signals, Handling!Deliver(sig)
  PROVE  HandlingInv'
<1>1. /\ alive /\ pending[sig] > 0
      /\ pending' = [pending EXCEPT ![sig] = @ - 1]
      /\ UNCHANGED <<sent, gSignals, shown>>
  BY DEF Handling!Deliver, Handling!Deliverable
<1>2. CASE Handling!Installed(sig)
  <2>1. handled' = [handled EXCEPT ![sig] = @ + 1] /\ UNCHANGED alive
    BY <1>2 DEF Handling!Deliver
  <2>2. HandlingTypes'
    BY <1>1, <1>2, <2>1, DeliverPushes DEF HandlingInv, HandlingTypes
  <2>3. Accounted'
    <3>1. ASSUME NEW s \in Handling!Signals
          PROVE  handled'[s] + pending'[s] = handled[s] + pending[s]
      BY <1>1, <2>1 DEF HandlingInv, HandlingTypes
    <3>2. Handling!SIGRTMIN \in Handling!Signals
      BY DEF Handling!Signals
    <3> QED
      BY <1>1, <3>1, <3>2 DEF HandlingInv, Accounted
  <2>4. Unmasked'
    <3>1. \A i \in DOMAIN frames : sig \notin MaskOf(frames[i].sig)
      BY DEF Handling!Deliver, Handling!Deliverable, Handling!Blocked, MaskOf
    <3>2. Unmasked /\ Len(frames) \in Nat
      BY DEF HandlingInv, HandlingTypes
    <3> QED
      BY <1>2, <3>1, <3>2, DeliverPushes DEF Unmasked
  <2>5. Numbered'
    <3>1. Numbered /\ Len(frames) \in Nat
      BY DEF HandlingInv, HandlingTypes
    <3> DEFINE n == Len(frames)
    <3>2. /\ DOMAIN frames = 1 .. n /\ DOMAIN frames' = 1 .. n + 1
          /\ Len(frames') = n + 1 /\ frames'[n + 1].at = "begin"
          /\ \A i \in 1 .. n :
               /\ frames'[i].at = frames[i].at /\ frames'[i].own = frames[i].own
               /\ frames'[i].index = frames[i].index
               /\ frames[i].at = "load" => frames'[i].cut
               /\ frames[i].at # "load" => frames'[i].cut = frames[i].cut
      BY <1>2, DeliverPushes
    <3> HIDE DEF n
    <3>3. ASSUME NEW i \in DOMAIN frames', frames'[i].at # "begin"
          PROVE  /\ i \in 1 .. n /\ frames'[i].own \in 1 .. gSignals'
                 /\ frames'[i].at = "load" => frames'[i].cut
                 /\ frames'[i].at = "sleep" /\ ~frames'[i].cut =>
                      frames'[i].index = frames'[i].own
      <4>1. i \in 1 .. n
        BY <3>1, <3>2, <3>3 DEF n
      <4>2. CASE frames[i].at = "load"
        BY <1>1, <3>1, <3>2, <3>3, <4>1, <4>2 DEF Numbered
      <4>3. CASE frames[i].at # "load"
        BY <1>1, <3>1, <3>2, <3>3, <4>1, <4>3 DEF Numbered
      <4> QED
        BY <4>2, <4>3
    <3>4. ASSUME NEW i \in DOMAIN frames', NEW j \in DOMAIN frames',
                 frames'[i].at # "begin", frames'[j].at # "begin",
                 frames'[i].own = frames'[j].own
          PROVE  i = j
      BY <3>1, <3>2, <3>3, <3>4 DEF Numbered
    <3>5. ASSUME NEW x \in shown'
          PROVE  /\ x.own \in 1 .. gSignals'
                 /\ x.index # x.own => x.cut
                 /\ \A i \in DOMAIN frames' :
                      frames'[i].at # "begin" => frames'[i].own # x.own
      BY <1>1, <3>1, <3>2, <3>3, <3>5 DEF Numbered
    <3>6. \A x, y \in shown' : x.own = y.own => x = y
      BY <1>1, <3>1 DEF Numbered
    <3> QED
      BY <3>3, <3>4, <3>5, <3>6 DEF Numbered
  <2> QED
    BY <2>2, <2>3, <2>4, <2>5 DEF HandlingInv
<1>3. CASE ~Handling!Installed(sig)
  <2>1. alive' = (sig = Handling!SIGURG) /\ UNCHANGED <<frames, handled>>
    BY <1>3 DEF Handling!Deliver
  <2>2. HandlingTypes'
    BY <1>1, <2>1 DEF HandlingInv, HandlingTypes
  <2>3. Accounted'
    <3>1. ASSUME NEW s \in Handling!Signals
          PROVE  /\ handled'[s] + pending'[s] <= handled[s] + pending[s]
                 /\ s # sig => handled'[s] + pending'[s] = handled[s] + pending[s]
                 /\ handled[s] + pending[s] \in Nat /\ handled'[s] + pending'[s] \in Nat
                 /\ sent[s] \in Nat
      BY <1>1, <2>1 DEF HandlingInv, HandlingTypes
    <3>2. Handling!SIGRTMIN \in Handling!Signals /\ Handling!SIGRTMIN # Handling!SIGURG
      BY DEF Handling!Signals, Handling!SIGRTMIN, Handling!SIGURG
    <3>3. ASSUME alive' PROVE sig = Handling!SIGURG
      BY <2>1, <3>3
    <3>4. ASSUME alive' PROVE sent' = sent /\ Accounted /\ alive
      BY <1>1 DEF HandlingInv
    <3>5. ASSUME alive', NEW s \in Handling!Signals
          PROVE  handled'[s] + pending'[s] <= sent'[s]
      <4>1. handled[s] + pending[s] <= sent[s]
        BY <3>4, <3>5 DEF Accounted
      <4> QED
        BY <3>1, <3>4, <3>5, <4>1
    <3> QED
      BY <3>1, <3>2, <3>3, <3>4, <3>5 DEF Accounted
  <2>4. Unmasked' /\ Numbered'
    BY <1>1, <2>1 DEF HandlingInv, Unmasked, Numbered
  <2> QED
    BY <2>2, <2>3, <2>4 DEF HandlingInv
<1> QED
  BY <1>2, <1>3

\* The handler on top ends.
LEMMA PopStep ==
  ASSUME HandlingInv, frames # <<>>, frames' = Handling!Below,
         UNCHANGED <<alive, sent, pending, handled, gSignals>>,
         \/ shown' = shown
         \/ /\ Handling!Top.at = "sleep"
            /\ shown' = shown \cup {[own |-> Handling!Top.own, index |-> Handling!Top.index,
                                     cut |-> Handling!Top.cut]}
  PROVE  HandlingInv'
<1>1. /\ frames \in Seq(Frame) /\ Len(frames) \in Nat /\ Len(frames) > 0
      /\ DOMAIN frames = 1 .. Len(frames)
      /\ \A i \in 1 .. Len(frames) : frames[i] \in Frame
  BY DEF HandlingInv, HandlingTypes
<1>2. /\ frames' \in Seq(Frame) /\ Len(frames') = Len(frames) - 1
      /\ DOMAIN frames' = 1 .. Len(frames) - 1
      /\ \A i \in 1 .. Len(frames) - 1 : frames'[i] = frames[i]
  BY <1>1 DEF Handling!Below
<1>3. HandlingTypes' /\ Accounted'
  BY <1>2 DEF HandlingInv, HandlingTypes, Accounted
<1>4. Unmasked'
  BY <1>1, <1>2 DEF HandlingInv, Unmasked
<1>5. Numbered'
  <2>1. Numbered /\ gSignals' = gSignals
    BY DEF HandlingInv
  <2> DEFINE top == frames[Len(frames)]
             x == [own |-> top.own, index |-> top.index, cut |-> top.cut]
  <2>2. \/ shown' = shown
        \/ top.at = "sleep" /\ shown' = shown \cup {x}
    BY DEF Handling!Top
  <2>3. top \in Frame
    BY <1>1
  <2>4. x.own = top.own /\ x.index = top.index /\ x.cut = top.cut
    OBVIOUS
  <2>5. /\ \A i \in DOMAIN frames' :
             /\ frames'[i].at # "begin" => frames'[i].own \in 1 .. gSignals
             /\ frames'[i].at = "load" => frames'[i].cut
             /\ frames'[i].at = "sleep" /\ ~frames'[i].cut =>
                  frames'[i].index = frames'[i].own
        /\ \A i, j \in DOMAIN frames' :
             frames'[i].at # "begin" /\ frames'[j].at # "begin"
               /\ frames'[i].own = frames'[j].own => i = j
    BY <1>1, <1>2, <2>1 DEF Numbered
  <2>6. top.at = "sleep" =>
          /\ top.own \in 1 .. gSignals /\ (top.index # top.own => top.cut)
          /\ \A y \in shown : y.own # top.own
          /\ \A i \in DOMAIN frames' : frames'[i].at # "begin" => frames'[i].own # top.own
    BY <1>1, <1>2, <2>1 DEF Numbered
  <2> HIDE DEF top, x
  <2>7. \A y \in shown' :
          /\ y.own \in 1 .. gSignals
          /\ y.index # y.own => y.cut
          /\ \A i \in DOMAIN frames' : frames'[i].at # "begin" => frames'[i].own # y.own
    BY <1>1, <1>2, <2>1, <2>2, <2>4, <2>6 DEF Numbered
  <2>8. \A y, z \in shown' : y.own = z.own => y = z
    BY <2>1, <2>2, <2>4, <2>6 DEF Numbered
  <2> QED
    BY <2>1, <2>5, <2>7, <2>8 DEF Numbered
<1> QED
  BY <1>3, <1>4, <1>5 DEF HandlingInv

\* The handler on top goes on.
LEMMA TopStep ==
  ASSUME HandlingInv, frames # <<>>, UNCHANGED <<alive, sent, pending, handled, shown>>,
         \/ /\ Handling!Top.at = "begin" /\ gSignals' = gSignals + 1
            /\ frames' = [frames EXCEPT ![Len(frames)].at = "load",
                                        ![Len(frames)].own = gSignals']
         \/ /\ Handling!Top.at = "load" /\ UNCHANGED gSignals
            /\ frames' = [frames EXCEPT ![Len(frames)].at = "sleep",
                                        ![Len(frames)].index = gSignals]
  PROVE  HandlingInv'
<1> DEFINE n == Len(frames)
           top == frames[n]
           top1 == frames'[n]
<1>1. /\ frames \in Seq(Frame) /\ n \in Nat /\ n > 0 /\ DOMAIN frames = 1 .. n
      /\ \A i \in 1 .. n : frames[i] \in Frame
      /\ gSignals \in Nat
  BY DEF HandlingInv, HandlingTypes
<1>2. \/ /\ top.at = "begin" /\ gSignals' = gSignals + 1
         /\ frames' = [frames EXCEPT ![n] = [top EXCEPT !.at = "load", !.own = gSignals']]
      \/ /\ top.at = "load" /\ UNCHANGED gSignals
         /\ frames' = [frames EXCEPT ![n] = [top EXCEPT !.at = "sleep", !.index = gSignals]]
  BY <1>1 DEF Handling!Top
<1>0. top \in Frame /\ n \in DOMAIN frames
  BY <1>1
<1>3. /\ frames' \in Seq(Frame) /\ Len(frames') = n /\ DOMAIN frames' = 1 .. n
      /\ \A i \in 1 .. n - 1 : frames'[i] = frames[i]
      /\ top1.sig = top.sig /\ top1.cut = top.cut
      /\ \A i \in 1 .. n : frames'[i].sig = frames[i].sig
  <2>1. CASE /\ top.at = "begin" /\ gSignals' = gSignals + 1
             /\ frames' = [frames EXCEPT ![n] = [top EXCEPT !.at = "load", !.own = gSignals']]
    <3> HIDE DEF n, top
    <3>0. gSignals' \in Nat
      BY <1>1, <2>1
    <3>1. [top EXCEPT !.at = "load", !.own = gSignals'] \in Frame
      BY <1>0, <3>0 DEF Frame
    <3>2. frames' \in Seq(Frame) /\ Len(frames') = n /\ DOMAIN frames' = 1 .. n
      BY <1>1, <2>1, <3>1, ExceptSeq
    <3>3. frames'[n] = [top EXCEPT !.at = "load", !.own = gSignals']
      BY <1>0, <2>1
    <3>4. top1.sig = top.sig /\ top1.cut = top.cut
      BY <1>0, <3>3 DEF Frame
    <3>5. \A i \in 1 .. n - 1 : frames'[i] = frames[i]
      BY <1>1, <2>1
    <3> QED
      BY <1>1, <3>2, <3>4, <3>5 DEF top
  <2>2. CASE /\ top.at = "load" /\ UNCHANGED gSignals
             /\ frames' = [frames EXCEPT ![n] = [top EXCEPT !.at = "sleep", !.index = gSignals]]
    <3> HIDE DEF n, top
    <3>1. [top EXCEPT !.at = "sleep", !.index = gSignals] \in Frame
      BY <1>0, <1>1, <2>2 DEF Frame
    <3>2. frames' \in Seq(Frame) /\ Len(frames') = n /\ DOMAIN frames' = 1 .. n
      BY <1>1, <2>2, <3>1, ExceptSeq
    <3>3. frames'[n] = [top EXCEPT !.at = "sleep", !.index = gSignals]
      BY <1>0, <2>2
    <3>4. top1.sig = top.sig /\ top1.cut = top.cut
      BY <1>0, <3>3 DEF Frame
    <3>5. \A i \in 1 .. n - 1 : frames'[i] = frames[i]
      BY <1>1, <2>2
    <3> QED
      BY <1>1, <3>2, <3>4, <3>5 DEF top
  <2> QED
    BY <1>2, <2>1, <2>2
<1>4. \/ /\ top.at = "begin" /\ gSignals' = gSignals + 1
         /\ top1.at = "load" /\ top1.own = gSignals'
      \/ /\ top.at = "load" /\ gSignals' = gSignals
         /\ top1.at = "sleep" /\ top1.own = top.own /\ top1.index = gSignals
  <2> HIDE DEF n, top
  <2>1. CASE /\ top.at = "begin" /\ gSignals' = gSignals + 1
             /\ frames' = [frames EXCEPT ![n] = [top EXCEPT !.at = "load", !.own = gSignals']]
    BY <1>0, <2>1 DEF Frame
  <2>2. CASE /\ top.at = "load" /\ UNCHANGED gSignals
             /\ frames' = [frames EXCEPT ![n] = [top EXCEPT !.at = "sleep", !.index = gSignals]]
    BY <1>0, <2>2 DEF Frame
  <2> QED
    BY <1>2, <2>1, <2>2
<1>5. Unmasked /\ Numbered /\ Accounted
  BY DEF HandlingInv
<1>6. Unmasked'
  BY <1>1, <1>3, <1>5 DEF Unmasked
<1>7. HandlingTypes' /\ Accounted'
  BY <1>1, <1>3, <1>4, <1>5 DEF HandlingInv, HandlingTypes, Accounted
<1>8. Numbered'
  <2>1. ASSUME NEW i \in 1 .. n - 1
        PROVE  /\ frames[i].at # "begin" => frames[i].own \in 1 .. gSignals
               /\ frames[i].at = "load" => frames[i].cut
               /\ frames[i].at = "sleep" /\ ~frames[i].cut => frames[i].index = frames[i].own
    BY <1>1, <1>5 DEF Numbered
  <2>2. \A i, j \in 1 .. n : frames[i].at # "begin" /\ frames[j].at # "begin"
                              /\ frames[i].own = frames[j].own => i = j
    BY <1>1, <1>5 DEF Numbered
  <2>3. top.at = "load" => top.own \in 1 .. gSignals /\ (~top.cut => top.own = gSignals)
    BY <1>1, <1>5 DEF Numbered
  <2>4. /\ top1.own \in 1 .. gSignals'
        /\ top1.at = "load" /\ ~top1.cut => top1.own = gSignals'
        /\ top1.at = "sleep" /\ ~top1.cut => top1.index = top1.own
    BY <1>1, <1>3, <1>4, <2>3
  <2>5. \A i \in 1 .. n - 1 : frames[i].at # "begin" => frames[i].own # top1.own
    <3>1. CASE top.at = "begin" /\ gSignals' = gSignals + 1 /\ top1.own = gSignals'
      BY <1>1, <2>1, <3>1
    <3>2. CASE top.at = "load" /\ top1.own = top.own
      BY <1>1, <2>2, <3>2
    <3> QED
      BY <1>4, <3>1, <3>2
  <2>6. \A x \in shown :
          /\ x.own \in 1 .. gSignals
          /\ x.index # x.own => x.cut
          /\ \A i \in 1 .. n : frames[i].at # "begin" => frames[i].own # x.own
    BY <1>1, <1>5 DEF Numbered
  <2>7. ASSUME NEW x \in shown PROVE x.own # top1.own
    <3>1. CASE top.at = "begin" /\ gSignals' = gSignals + 1 /\ top1.own = gSignals'
      BY <1>1, <2>6, <3>1
    <3>2. CASE top.at = "load" /\ top1.own = top.own
      BY <1>1, <2>6, <3>2
    <3> QED
      BY <1>4, <3>1, <3>2
  <2>8. gSignals' \in {gSignals, gSignals + 1}
    BY <1>4
  <2>9. \A i \in 1 .. n : i \in 1 .. n - 1 \/ i = n
    BY <1>1
  <2> HIDE DEF n, top, top1
  <2>10. ASSUME NEW i \in 1 .. n
         PROVE  /\ frames'[i].at # "begin" => frames'[i].own \in 1 .. gSignals'
                /\ frames'[i].at = "load" /\ ~frames'[i].cut => i = n /\ frames'[i].own = gSignals'
                /\ frames'[i].at = "sleep" /\ ~frames'[i].cut => frames'[i].index = frames'[i].own
    <3>1. CASE i \in 1 .. n - 1
      BY <1>1, <1>3, <2>1, <2>8, <3>1
    <3>2. CASE i = n
      BY <2>4, <3>2 DEF top1
    <3> QED
      BY <2>9, <3>1, <3>2
  <2>11. ASSUME NEW i \in 1 .. n, NEW j \in 1 .. n,
                frames'[i].at # "begin", frames'[j].at # "begin",
                frames'[i].own = frames'[j].own
         PROVE  i = j
    <3>1. CASE i \in 1 .. n - 1 /\ j \in 1 .. n - 1
      BY <1>1, <1>3, <2>2, <2>11, <3>1
    <3>2. CASE i = n /\ j \in 1 .. n - 1
      BY <1>3, <2>5, <2>11, <3>2 DEF top1
    <3>3. CASE j = n /\ i \in 1 .. n - 1
      BY <1>3, <2>5, <2>11, <3>3 DEF top1
    <3> QED
      BY <2>9, <3>1, <3>2, <3>3
  <2>12. ASSUME NEW x \in shown
         PROVE  /\ x.own \in 1 .. gSignals'
                /\ x.index # x.own => x.cut
                /\ \A i \in 1 .. n : frames'[i].at # "begin" => frames'[i].own # x.own
    <3>1. ASSUME NEW i \in 1 .. n, frames'[i].at # "begin" PROVE frames'[i].own # x.own
      <4>1. CASE i \in 1 .. n - 1
        BY <1>3, <2>6, <3>1, <4>1
      <4>2. CASE i = n
        BY <2>7, <4>2 DEF top1
      <4> QED
        BY <2>9, <4>1, <4>2
    <3> QED
      BY <1>1, <2>6, <2>8, <3>1
  <2>13. \A x, y \in shown : x.own = y.own => x = y
    BY <1>5 DEF Numbered
  <2>14. DOMAIN frames' = 1 .. n /\ Len(frames') = n /\ shown' = shown
    BY <1>3
  <2> QED
    BY <2>10, <2>11, <2>12, <2>13, <2>14 DEF Numbered
<1> QED
  BY <1>6, <1>7, <1>8 DEF HandlingInv

LEMMA HandlingStep == HandlingInv /\ [Handling!Next]_signalVars => HandlingInv'
<1> SUFFICES ASSUME HandlingInv, [Handling!Next]_signalVars PROVE HandlingInv'
  OBVIOUS
<1>1. CASE UNCHANGED <<alive, sent, pending, handled, frames, gSignals, shown>>
  BY <1>1 DEF HandlingInv, HandlingTypes, Unmasked, Accounted, Numbered
<1>2. ASSUME NEW sig \in Handling!Signals, Handling!Send(sig) PROVE HandlingInv'
  <2>1. /\ sent' = [sent EXCEPT ![sig] = @ + 1]
        /\ pending' = [pending EXCEPT ![sig] = IF sig >= Handling!SIGRTMIN THEN @ + 1 ELSE 1]
        /\ UNCHANGED <<alive, handled, frames, gSignals, shown>>
    BY <1>2 DEF Handling!Send
  <2>2. HandlingTypes'
    BY <2>1 DEF HandlingInv, HandlingTypes
  <2>3. Accounted'
    <3>1. ASSUME NEW s \in Handling!Signals
          PROVE  /\ sent'[s] = IF s = sig THEN sent[s] + 1 ELSE sent[s]
                 /\ handled'[s] = handled[s]
                 /\ s # sig => pending'[s] = pending[s]
                 /\ pending'[sig] = IF sig >= Handling!SIGRTMIN THEN pending[sig] + 1 ELSE 1
                 /\ sent[s] \in Nat /\ pending[s] \in Nat /\ handled[s] \in Nat
      BY <2>1 DEF HandlingInv, HandlingTypes
    <3>2. ASSUME alive, NEW s \in Handling!Signals
          PROVE  /\ handled'[s] + pending'[s] <= sent'[s]
                 /\ s = 34 => handled'[s] + pending'[s] = sent'[s]
      <4>1. /\ handled[s] + pending[s] <= sent[s]
            /\ s = 34 => handled[s] + pending[s] = sent[s]
        BY <3>2 DEF HandlingInv, Accounted, Handling!SIGRTMIN
      <4>2. pending[s] \in Nat /\ handled[s] \in Nat /\ sent[s] \in Nat
        BY <3>1
      <4>3. CASE s # sig
        BY <3>1, <4>1, <4>2, <4>3
      <4>4. CASE s = sig /\ sig >= 34
        <5>1. pending'[s] = pending[s] + 1 /\ sent'[s] = sent[s] + 1 /\ handled'[s] = handled[s]
          BY <3>1, <4>4 DEF Handling!SIGRTMIN
        <5> QED
          BY <4>1, <4>2, <5>1
      <4>5. CASE s = sig /\ ~(sig >= 34)
        <5>1. pending'[s] = 1 /\ sent'[s] = sent[s] + 1 /\ handled'[s] = handled[s] /\ s # 34
          BY <3>1, <4>5 DEF Handling!SIGRTMIN
        <5> QED
          BY <4>1, <4>2, <5>1
      <4> QED
        BY <4>3, <4>4, <4>5
    <3>3. Handling!SIGRTMIN = 34 /\ 34 \in Handling!Signals
      BY DEF Handling!SIGRTMIN, Handling!Signals
    <3> QED
      BY <2>1, <3>2, <3>3 DEF Accounted
  <2>4. Unmasked' /\ Numbered'
    BY <2>1 DEF HandlingInv, Unmasked, Numbered
  <2> QED
    BY <2>2, <2>3, <2>4 DEF HandlingInv
<1>3. ASSUME NEW sig \in Handling!Signals, Handling!Deliver(sig) PROVE HandlingInv'
  BY <1>3, DeliverStep
<1>4. CASE Handling!SigHandler
  <2>1. frames # <<>>
    BY <1>4 DEF Handling!SigHandler, Handling!IsTop
  <2>2. CASE Handling!Top.at \in {"begin", "load"}
    <3>1. /\ UNCHANGED <<alive, sent, pending, handled, shown>>
          /\ \/ /\ Handling!Top.at = "begin" /\ gSignals' = gSignals + 1
                /\ frames' = [frames EXCEPT ![Len(frames)].at = "load",
                                            ![Len(frames)].own = gSignals']
             \/ /\ Handling!Top.at = "load" /\ UNCHANGED gSignals
                /\ frames' = [frames EXCEPT ![Len(frames)].at = "sleep",
                                            ![Len(frames)].index = gSignals]
      BY <1>4, <2>2 DEF Handling!SigHandler, Handling!IsTop
    <3> QED
      BY <2>1, <3>1, TopStep
  <2>3. CASE Handling!Top.at \notin {"begin", "load"}
    <3>1. /\ UNCHANGED <<alive, sent, pending, handled, gSignals>>
          /\ frames' = Handling!Below /\ Handling!Top.at = "sleep"
          /\ shown' = shown \cup {[own |-> Handling!Top.own, index |-> Handling!Top.index,
                                   cut |-> Handling!Top.cut]}
      BY <1>4, <2>3 DEF Handling!SigHandler, Handling!IsTop
    <3> QED
      BY <2>1, <3>1, PopStep
  <2> QED
    BY <2>2, <2>3
<1>5. CASE Handling!SigHandlerNB
  BY <1>5, PopStep DEF Handling!SigHandlerNB, Handling!IsTop
<1>6. CASE Handling!main
  BY <1>1, <1>6 DEF Handling!main
<1>7. CASE UNCHANGED signalVars
  BY <1>1, <1>7 DEF signalVars
<1> QED
  BY <1>2, <1>3, <1>4, <1>5, <1>6, <1>7 DEF Handling!Next, Handling!Running

LEMMA HandlingGives ==
  HandlingInv => Handling!MasksHold /\ Handling!SignalsCounted /\ Handling!IndexIsOwn
<1> SUFFICES ASSUME HandlingInv
             PROVE  Handling!MasksHold /\ Handling!SignalsCounted /\ Handling!IndexIsOwn
  OBVIOUS
<1>1. /\ DOMAIN frames = 1 .. Len(frames) /\ Len(frames) \in Nat
      /\ \A i \in DOMAIN frames : frames[i].sig \in Handling!Signals
  <2>1. DOMAIN frames = 1 .. Len(frames) /\ Len(frames) \in Nat
    BY DEF HandlingInv, HandlingTypes
  <2>2. \A i \in DOMAIN frames : frames[i] \in Frame
    BY <2>1 DEF HandlingInv, HandlingTypes
  <2>3. \A f \in Frame : f.sig \in Handling!Signals
    BY DEF Frame
  <2> QED
    BY <2>1, <2>2, <2>3
<1>2. Handling!MasksHold
  <2>1. \A s \in {Handling!SIGUSR2, Handling!SIGURG, Handling!SIGRTMIN} : s \in MaskOf(s)
    BY Actions DEF Handling!Signals
  <2>2. ASSUME NEW s \in {Handling!SIGUSR2, Handling!SIGURG, Handling!SIGRTMIN},
               NEW i \in Handling!On(s), NEW j \in Handling!On(s)
        PROVE  i = j
    BY <1>1, <2>1, <2>2 DEF HandlingInv, Unmasked, Handling!On
  <2>3. ASSUME NEW i \in Handling!On(Handling!SIGURG) PROVE i = Len(frames)
    BY <1>1, <2>3, Actions DEF HandlingInv, Unmasked, Handling!On
  <2> QED
    BY <2>2, <2>3 DEF Handling!MasksHold
<1>3. Handling!SignalsCounted
  BY DEF HandlingInv, Accounted, Handling!SignalsCounted
<1>4. Handling!IndexIsOwn
  BY DEF HandlingInv, Numbered, Handling!IndexIsOwn
<1> QED
  BY <1>2, <1>3, <1>4

(***************************************************************************)
(* Observers: subscriptions and notifications                              *)
(***************************************************************************)

(* Observers: subscriptions and notifications                              *)
(***************************************************************************)

Subscription ==
  [do : {"construct", "load"}, user : Users, message : Messages]
    \cup [do : {"store"}, user : Users, message : Messages, count : {n \in Nat : n < MaxEntries}]
Notification ==
  [do : {"update"}, message : Messages, end : 0 .. MaxEntries, called : Seq(Users),
   due : Seq(Users)]
Death == [do : {"dead"}, message : Messages]
Doing == Subscription \cup Notification \cup Death \cup {Observing!Idle}

ObservingTypes ==
  /\ mObservables \in [Users -> Seq(Messages)]
  /\ entries \in [Messages -> [1 .. MaxEntries -> Users \cup {Observing!Null}]]
  /\ finish \in [Messages -> 0 .. MaxEntries]
  /\ op \in [Callers -> Doing]
  /\ subscribed \in [Messages -> Seq(Users)]
  /\ raced \subseteq Messages

\* The entries that count are those of the subscriptions that have returned,
\* where no two have met.
Listed ==
  \A m \in Messages \ raced :
    /\ Len(subscribed[m]) = finish[m]
    /\ \A i \in 1 .. finish[m] : entries[m][i] = subscribed[m][i]

\* One thread at a time adds an entry to an observable, behind those that count.
Adding ==
  /\ \A t, u \in Callers :
       Observing!Subscribing(t) /\ Observing!Subscribing(u)
         /\ op[t].message = op[u].message /\ op[t].message \notin raced => t = u
  /\ \A t \in Callers : Observing!Subscribing(t) /\ op[t].message \notin raced =>
       LET m == op[t].message IN
       /\ finish[m] < MaxEntries
       /\ op[t].do # "construct" => entries[m][finish[m] + 1] = op[t].user
       /\ op[t].do = "store" => op[t].count = finish[m]

\* A notification is on its way through those who had subscribed.
Calling(o) ==
  LET m == o.message IN
  /\ o.end = Len(o.due) /\ o.end <= Len(subscribed[m]) /\ Len(o.called) <= o.end
  /\ \A i \in 1 .. o.end : o.due[i] = subscribed[m][i]
  /\ \A i \in 1 .. Len(o.called) : o.called[i] = o.due[i]
Notifying ==
  \A t \in Callers : op[t].do = "update" /\ op[t].message \notin raced => Calling(op[t])

\* No more entries are counted than subscriptions have returned, and a program
\* dies of a race only.
Counted ==
  /\ \A m \in Messages : finish[m] <= Len(subscribed[m])
  /\ \A t \in Callers : op[t].do = "store" => op[t].count <= Len(subscribed[op[t].message])
Dying == \A t \in Callers : op[t].do = "dead" => op[t].message \in raced

\* The places of x among the first n values of f
Places(f, n, x) == {i \in 1 .. n : f[i] = x}
Entries(u, m) == Places(entries[m], finish[m], u)
Observables(u, m) == Places(mObservables[u], Len(mObservables[u]), m)
Underway(u, m) ==
  \E t \in Callers : Observing!Subscribing(t) /\ op[t].user = u /\ op[t].message = m

\* Both sides agree but for the subscription that is under way.
Agreeing ==
  \A u \in Users, m \in Messages \ raced :
    Cardinality(Observables(u, m)) =
      Cardinality(Entries(u, m)) + (IF Underway(u, m) THEN 1 ELSE 0)

ObservingInv ==
  ObservingTypes /\ Listed /\ Adding /\ Notifying /\ Agreeing /\ Counted /\ Dying

\* How often x is among n values, and one more
LEMMA HowOften ==
  ASSUME NEW n \in Nat, NEW f, NEW x
  PROVE  IsFiniteSet(Places(f, n, x)) /\ Cardinality(Places(f, n, x)) \in Nat
<1>1. IsFiniteSet(1 .. n) /\ Places(f, n, x) \in SUBSET (1 .. n)
  BY FS_Interval DEF Places
<1> QED
  BY <1>1, FS_Subset, FS_CardinalityType

LEMMA OneMore ==
  ASSUME NEW n \in Nat, NEW f, NEW g, NEW x, NEW p, p = n + 1,
         \A i \in 1 .. n : g[i] = f[i], g[p] = x
  PROVE  Cardinality(Places(g, p, x)) = Cardinality(Places(f, n, x)) + 1
<1> DEFINE before == Places(f, n, x)
           after == Places(g, p, x)
<1>1. IsFiniteSet(before) /\ Cardinality(before) \in Nat
  BY HowOften
<1>2. after = before \cup {p} /\ p \notin before
  BY DEF Places
<1> HIDE DEF before, after
<1>3. Cardinality(after) = Cardinality(before) + 1
  BY <1>1, <1>2, FS_AddElement
<1> QED
  BY <1>3 DEF before, after

LEMMA NoneMore ==
  ASSUME NEW n \in Nat, NEW f, NEW g, NEW x, NEW p, p = n + 1,
         \A i \in 1 .. n : g[i] = f[i], g[p] # x
  PROVE  Cardinality(Places(g, p, x)) = Cardinality(Places(f, n, x))
<1>1. Places(g, p, x) = Places(f, n, x)
  BY DEF Places
<1> QED
  BY <1>1

LEMMA ObservingInit == ProgramsInit => ObservingInv
<1> SUFFICES ASSUME Observing!Init PROVE ObservingInv
  BY DEF ProgramsInit
<1>1. \A t \in Callers : op[t] = Observing!Idle /\ op[t].do = "idle"
  BY DEF Observing!Init, Observing!Idle
<1>2. ObservingTypes
  BY ProgramsAssumption DEF Observing!Init, ObservingTypes, Doing
<1>3. Listed
  BY DEF Observing!Init, Listed
<1>4. Adding /\ Notifying
  BY <1>1 DEF Adding, Notifying, Observing!Subscribing
<1>5. Agreeing
  <2> SUFFICES ASSUME NEW u \in Users, NEW m \in Messages \ raced
               PROVE  Cardinality(Observables(u, m)) =
                        Cardinality(Entries(u, m)) + (IF Underway(u, m) THEN 1 ELSE 0)
    BY DEF Agreeing
  <2>1. Observables(u, m) = {} /\ Entries(u, m) = {}
    BY DEF Observing!Init, Observables, Entries, Places
  <2>2. ~Underway(u, m)
    BY <1>1 DEF Underway, Observing!Subscribing
  <2>3. Cardinality({}) = 0
    BY FS_EmptySet
  <2> QED
    BY <2>1, <2>2, <2>3
<1>6. Counted /\ Dying
  BY <1>1 DEF Observing!Init, Counted, Dying
<1> QED
  BY <1>2, <1>3, <1>4, <1>5, <1>6 DEF ObservingInv

\* No user is the null pointer.
LEMMA NullIsNoUser == Observing!Null \notin Users
  BY UsersAssumption DEF Observing!Null

LEMMA SubscribeStep ==
  ASSUME ObservingInv, NEW t \in Callers, NEW u \in Users, NEW m \in Messages,
         Observing!Subscribe(t, u, m)
  PROVE  ObservingInv'
<1> DEFINE new == [do |-> "construct", user |-> u, message |-> m]
<1>1. /\ op[t] = Observing!Idle /\ op' = [op EXCEPT ![t] = new]
      /\ raced' = raced \cup {n \in {m} : Observing!AddedTo(n)}
      /\ finish[m] < MaxEntries
      /\ mObservables' = [mObservables EXCEPT ![u] = Append(@, m)]
      /\ UNCHANGED <<entries, finish, subscribed>>
  BY DEF Observing!Subscribe, Observing!Step
<1>2. new \in Subscription /\ new.do = "construct" /\ new.user = u /\ new.message = m
  BY DEF Subscription
<1>3. ObservingTypes /\ Listed /\ Adding /\ Notifying /\ Agreeing /\ Counted /\ Dying
  BY DEF ObservingInv
<1>a. /\ raced \subseteq raced' /\ raced' \subseteq Messages
      /\ m \notin raced' => \A s \in Callers : Observing!Subscribing(s) => op[s].message # m
  BY <1>1, <1>3 DEF ObservingTypes, Observing!AddedTo
<1> HIDE DEF new
<1>4. op'[t] = new /\ \A s \in Callers \ {t} : op'[s] = op[s]
  BY <1>1, <1>3 DEF ObservingTypes
<1>5. op[t].do = "idle"
  BY <1>1 DEF Observing!Idle
<1>6. ObservingTypes'
  <2>1. mObservables[u] \in Seq(Messages)
    BY <1>3 DEF ObservingTypes
  <2>2. Append(mObservables[u], m) \in Seq(Messages)
    BY <2>1
  <2> QED
    BY <1>1, <1>2, <1>3, <1>a, <2>2 DEF ObservingTypes, Doing
<1>7. Listed'
  BY <1>1, <1>3, <1>a DEF Listed
<1>8. Adding'
  <2>1. \A s \in Callers \ {t} : Observing!Subscribing(s)' <=> Observing!Subscribing(s)
    BY <1>4 DEF Observing!Subscribing
  <2>2. ASSUME NEW s \in Callers, NEW r \in Callers, Observing!Subscribing(s)',
               Observing!Subscribing(r)', op'[s].message = op'[r].message,
               op'[s].message \notin raced'
        PROVE  s = r
    BY <1>a, <1>1, <1>2, <1>3, <1>4, <2>1, <2>2 DEF Adding
  <2>3. ASSUME NEW s \in Callers, Observing!Subscribing(s)', op'[s].message \notin raced'
        PROVE  LET n == op'[s].message IN
               /\ finish'[n] < MaxEntries
               /\ op'[s].do # "construct" => entries'[n][finish'[n] + 1] = op'[s].user
               /\ op'[s].do = "store" => op'[s].count = finish'[n]
    BY <1>a, <1>1, <1>2, <1>3, <1>4, <2>1, <2>3 DEF Adding
  <2> QED
    BY <2>2, <2>3 DEF Adding
<1>9. Notifying'
  <2>1. ASSUME NEW s \in Callers, op'[s].do = "update", op'[s].message \notin raced'
        PROVE  Calling(op[s])' /\ op'[s] = op[s]
    BY <1>a, <1>1, <1>2, <1>3, <1>4, <2>1 DEF Notifying, Calling
  <2> QED
    BY <2>1 DEF Notifying, Calling
<1>10. Agreeing'
  <2> SUFFICES ASSUME NEW v \in Users, NEW n \in Messages \ raced'
               PROVE  Cardinality(Observables(v, n)') =
                        Cardinality(Entries(v, n)') + (IF Underway(v, n)' THEN 1 ELSE 0)
    BY DEF Agreeing
  <2>1. Entries(v, n)' = Entries(v, n)
    BY <1>1 DEF Entries
  <2>2. Cardinality(Observables(v, n)) =
          Cardinality(Entries(v, n)) + (IF Underway(v, n) THEN 1 ELSE 0)
    BY <1>3, <1>a DEF Agreeing
  <2>3. CASE v = u /\ n = m
    <3>1. ~Underway(v, n)
      BY <1>a, <2>3 DEF Underway
    <3>2. Underway(v, n)'
      BY <1>2, <1>4, <2>3 DEF Underway, Observing!Subscribing
    <3> DEFINE s == mObservables[u]
               k == Len(s)
    <3>3. s \in Seq(Messages) /\ k \in Nat
      BY <1>3 DEF ObservingTypes
    <3>4. mObservables'[u] = Append(s, m)
      BY <1>1, <1>3 DEF ObservingTypes
    <3>5. Len(Append(s, m)) = k + 1 /\ Append(s, m)[k + 1] = m
          /\ \A i \in 1 .. k : Append(s, m)[i] = s[i]
      BY <3>3
    <3> HIDE DEF s, k
    <3>6. /\ Cardinality(Places(s, k, m)) \in Nat
          /\ Cardinality(Places(Append(s, m), k + 1, m)) = Cardinality(Places(s, k, m)) + 1
      <4> DEFINE g == Append(s, m)
                 p == k + 1
      <4>1. p = k + 1 /\ g[p] = m /\ \A i \in 1 .. k : g[i] = s[i]
        BY <3>5
      <4> HIDE DEF g, p
      <4>2. Cardinality(Places(g, p, m)) = Cardinality(Places(s, k, m)) + 1
        BY <3>3, <4>1, OneMore
      <4>3. Cardinality(Places(s, k, m)) \in Nat
        BY <3>3, HowOften
      <4> QED
        BY <4>2, <4>3 DEF g, p
    <3>7. /\ Observables(v, n) = Places(s, k, m)
          /\ Observables(v, n)' = Places(Append(s, m), k + 1, m)
      BY <2>3, <3>4, <3>5 DEF Observables, s, k
    <3>8. Cardinality(Observables(v, n)') = Cardinality(Observables(v, n)) + 1
          /\ Cardinality(Observables(v, n)) \in Nat
      BY <3>5, <3>6, <3>7
    <3>9. finish[n] \in Nat
      BY <1>3, ProgramsAssumption DEF ObservingTypes
    <3>10. Cardinality(Entries(v, n)) \in Nat
      BY <3>9, HowOften DEF Entries
    <3> QED
      BY <2>1, <2>2, <3>1, <3>2, <3>8, <3>10
  <2>4. CASE v = u /\ n # m
    <3>1. Underway(v, n)' <=> Underway(v, n)
      BY <1>2, <1>4, <1>5, <2>4 DEF Underway, Observing!Subscribing
    <3> DEFINE s == mObservables[u]
               k == Len(s)
    <3>3. s \in Seq(Messages) /\ k \in Nat
      BY <1>3 DEF ObservingTypes
    <3>4. mObservables'[u] = Append(s, m)
      BY <1>1, <1>3 DEF ObservingTypes
    <3>5. Len(Append(s, m)) = k + 1 /\ Append(s, m)[k + 1] = m
          /\ \A i \in 1 .. k : Append(s, m)[i] = s[i]
      BY <3>3
    <3>6. Observables(v, n)' = Observables(v, n)
      BY <2>4, <3>3, <3>4, <3>5 DEF Observables, Places
    <3> QED
      BY <2>1, <2>2, <3>1, <3>6
  <2>5. CASE v # u
    <3>1. Underway(v, n)' <=> Underway(v, n)
      BY <1>2, <1>4, <1>5, <2>5 DEF Underway, Observing!Subscribing
    <3>2. mObservables'[v] = mObservables[v]
      BY <1>1, <1>3, <2>5 DEF ObservingTypes
    <3>3. Observables(v, n)' = Observables(v, n)
      BY <3>2 DEF Observables
    <3> QED
      BY <2>1, <2>2, <3>1, <3>3
  <2> QED
    BY <2>3, <2>4, <2>5
<1>11. Counted' /\ Dying'
  BY <1>1, <1>2, <1>3, <1>4, <1>a DEF Counted, Dying
<1> QED
  BY <1>6, <1>7, <1>8, <1>9, <1>10, <1>11 DEF ObservingInv

\* A step that changes nothing but what thread t is doing
LEMMA CallerStep ==
  ASSUME ObservingInv, NEW t \in Callers,
         NEW o \in Doing,
         op' = [op EXCEPT ![t] = o],
         UNCHANGED <<mObservables, entries, finish, subscribed, raced>>,
         o.do \in {"construct", "load", "store"} <=> Observing!Subscribing(t),
         Observing!Subscribing(t) =>
           /\ o.user = op[t].user /\ o.message = op[t].message
           /\ o.message \notin raced =>
                /\ o.do # "construct" => entries[o.message][finish[o.message] + 1] = o.user
                /\ o.do = "store" => o.count = finish[o.message],
         o.do = "store" => o.count <= Len(subscribed[o.message]),
         o.do = "update" /\ o.message \notin raced => Calling(o),
         o.do = "dead" => o.message \in raced
  PROVE  ObservingInv'
<1>1. ObservingTypes /\ Listed /\ Adding /\ Notifying /\ Agreeing /\ Counted /\ Dying
  BY DEF ObservingInv
<1>2. op'[t] = o /\ \A s \in Callers \ {t} : op'[s] = op[s]
  BY <1>1 DEF ObservingTypes
<1>3. \A s \in Callers : Observing!Subscribing(s)' <=> Observing!Subscribing(s)
  BY <1>2 DEF Observing!Subscribing
<1>4. \A s \in Callers : Observing!Subscribing(s) =>
        op'[s].user = op[s].user /\ op'[s].message = op[s].message
  BY <1>2
<1>5. ObservingTypes'
  BY <1>1 DEF ObservingTypes
<1>6. Listed'
  BY <1>1 DEF Listed
<1>7. Adding'
  <2>1. ASSUME NEW s \in Callers, NEW r \in Callers, Observing!Subscribing(s)',
               Observing!Subscribing(r)', op'[s].message = op'[r].message,
               op'[s].message \notin raced
        PROVE  s = r
    BY <1>1, <1>3, <1>4, <2>1 DEF Adding
  <2>2. ASSUME NEW s \in Callers, Observing!Subscribing(s)', op'[s].message \notin raced
        PROVE  LET n == op'[s].message IN
               /\ finish'[n] < MaxEntries
               /\ op'[s].do # "construct" => entries'[n][finish'[n] + 1] = op'[s].user
               /\ op'[s].do = "store" => op'[s].count = finish'[n]
    BY <1>1, <1>2, <1>3, <1>4, <2>2 DEF Adding
  <2> QED
    BY <2>1, <2>2 DEF Adding
<1>8. Notifying'
  <2>1. ASSUME NEW s \in Callers, op'[s].do = "update", op'[s].message \notin raced
        PROVE  Calling(op[s])'
    <3>1. Calling(op'[s])
      BY <1>1, <1>2, <2>1 DEF Notifying
    <3> QED
      BY <3>1 DEF Calling
  <2> QED
    BY <2>1 DEF Notifying
<1>9. Agreeing'
  <2>1. \A u \in Users, m \in Messages : Underway(u, m)' <=> Underway(u, m)
    BY <1>3, <1>4 DEF Underway
  <2>2. \A u \in Users, m \in Messages :
          Entries(u, m)' = Entries(u, m) /\ Observables(u, m)' = Observables(u, m)
    BY DEF Entries, Observables, Places
  <2> QED
    BY <1>1, <2>1, <2>2 DEF Agreeing
<1>10. Counted' /\ Dying'
  BY <1>1, <1>2 DEF Counted, Dying
<1> QED
  BY <1>5, <1>6, <1>7, <1>8, <1>9, <1>10 DEF ObservingInv

LEMMA LoadStep ==
  ASSUME ObservingInv, NEW t \in Callers, Observing!Load(t)
  PROVE  ObservingInv'
<1> DEFINE o == [do |-> "store", user |-> op[t].user, message |-> op[t].message,
                 count |-> finish[op[t].message]]
<1>1. /\ op[t].do = "load" /\ finish[op[t].message] < MaxEntries /\ op' = [op EXCEPT ![t] = o]
      /\ UNCHANGED <<mObservables, entries, finish, subscribed, raced>>
  BY DEF Observing!Load, Observing!Step
<1>2. ObservingTypes /\ Adding /\ Counted
  BY DEF ObservingInv
<1>3. op[t] \in Subscription /\ op[t].user \in Users /\ op[t].message \in Messages
  BY <1>1, <1>2 DEF ObservingTypes, Doing, Subscription, Notification, Death, Observing!Idle
<1>4. finish[op[t].message] \in Nat
  BY <1>2, <1>3, ProgramsAssumption DEF ObservingTypes
<1>5. /\ o \in Subscription /\ o.do = "store" /\ o.user = op[t].user
      /\ o.message = op[t].message /\ o.count = finish[op[t].message]
  BY <1>1, <1>3, <1>4 DEF Subscription
<1>6. Observing!Subscribing(t)
  BY <1>1 DEF Observing!Subscribing
<1>7. op[t].message \notin raced => entries[op[t].message][finish[op[t].message] + 1] = op[t].user
  BY <1>1, <1>2, <1>6 DEF Adding
<1>8. finish[op[t].message] <= Len(subscribed[op[t].message])
  BY <1>2, <1>3 DEF Counted
<1> HIDE DEF o
<1>9. o \in Doing
  BY <1>5 DEF Doing
<1> QED
  BY <1>1, <1>5, <1>6, <1>7, <1>8, <1>9, CallerStep

LEMMA NotifyStep ==
  ASSUME ObservingInv, NEW t \in Callers, NEW m \in Messages, Observing!Notify(t, m)
  PROVE  ObservingInv'
<1> DEFINE o == [do |-> "update", message |-> m, end |-> finish[m], called |-> <<>>,
                 due |-> subscribed[m]]
<1>1. /\ op[t].do = "idle" /\ op' = [op EXCEPT ![t] = o]
      /\ UNCHANGED <<mObservables, entries, finish, subscribed, raced>>
  BY DEF Observing!Notify, Observing!Step, Observing!End, Observing!Idle
<1>2. ObservingTypes /\ Listed
  BY DEF ObservingInv
<1>3. finish[m] \in 0 .. MaxEntries /\ subscribed[m] \in Seq(Users)
  BY <1>2, ProgramsAssumption DEF ObservingTypes
<1>4. /\ o \in Notification /\ o.do = "update" /\ o.message = m /\ o.end = finish[m]
      /\ o.called = <<>> /\ o.due = subscribed[m]
  BY <1>3 DEF Notification
<1>5. ~Observing!Subscribing(t)
  BY <1>1 DEF Observing!Subscribing
<1> HIDE DEF o
<1>6. m \notin raced => Calling(o)
  <2> SUFFICES ASSUME m \notin raced PROVE Calling(o)
    OBVIOUS
  <2>1. Len(subscribed[m]) = finish[m]
    BY <1>2 DEF Listed
  <2>2. finish[m] \in Nat
    BY <1>3, ProgramsAssumption
  <2> QED
    BY <1>3, <1>4, <2>1, <2>2 DEF Calling
<1>7. ~(o.do \in {"construct", "load", "store"}) /\ o.do # "dead"
  BY <1>4
<1>8. o \in Doing
  BY <1>4 DEF Doing
<1> QED
  BY <1>1, <1>4, <1>5, <1>6, <1>7, <1>8, CallerStep

\* What a thread is in the middle of, while it notifies
LEMMA NotifierIs ==
  ASSUME ObservingTypes, NEW t \in Callers, op[t].do = "update"
  PROVE  /\ op[t] \in Notification /\ op[t].message \in Messages
         /\ op[t].end \in 0 .. MaxEntries
         /\ op[t].called \in Seq(Users) /\ op[t].due \in Seq(Users)
<1>1. op[t] \in Doing
  BY DEF ObservingTypes
<1>2. op[t] \notin Subscription
  BY DEF Subscription
<1>3. op[t] \notin Death
  BY DEF Death
<1>4. op[t] # Observing!Idle
  BY DEF Observing!Idle
<1>5. op[t] \in Notification
  BY <1>1, <1>2, <1>3, <1>4 DEF Doing
<1> QED
  BY <1>5 DEF Notification

LEMMA UpdateStep ==
  ASSUME ObservingInv, NEW t \in Callers, Observing!Update(t)
  PROVE  ObservingInv'
<1> DEFINE called == op[t].called
           k == Len(called) + 1
           who == entries[op[t].message][k]
           next == [op[t] EXCEPT !.called = Append(called, who)]
           last == [do |-> "dead", message |-> op[t].message]
<1>1. /\ op[t].do = "update" /\ Len(called) < op[t].end
      /\ op' = [op EXCEPT ![t] = IF who = Observing!Null THEN last ELSE next]
      /\ UNCHANGED <<mObservables, entries, finish, subscribed, raced>>
  BY DEF Observing!Update, Observing!Step
<1>2. ObservingTypes /\ Listed /\ Notifying
  BY DEF ObservingInv
<1>3. op[t] \in Notification
  BY <1>1, <1>2, NotifierIs
<1>4. /\ op[t].message \in Messages /\ op[t].end \in 0 .. MaxEntries
      /\ called \in Seq(Users) /\ op[t].due \in Seq(Users)
  BY <1>1, <1>2, NotifierIs
<1>5. Len(called) \in Nat /\ k = Len(called) + 1 /\ k \in 1 .. op[t].end
      /\ k \in 1 .. MaxEntries /\ op[t].end \in Nat
  <2>1. Len(called) \in Nat /\ Len(called) < op[t].end
    BY <1>1, <1>4
  <2>2. MaxEntries \in Nat
    BY ProgramsAssumption
  <2> QED
    BY <1>4, <2>1, <2>2
<1>6. who \in Users \cup {Observing!Null}
  BY <1>2, <1>4, <1>5 DEF ObservingTypes
<1>7. ~Observing!Subscribing(t)
  BY <1>1 DEF Observing!Subscribing
<1>8. ASSUME op[t].message \notin raced
      PROVE  /\ Calling(op[t]) /\ who = op[t].due[k] /\ who \in Users
  <2> DEFINE m == op[t].message
  <2>1. Calling(op[t])
    BY <1>1, <1>2, <1>8 DEF Notifying
  <2>2. subscribed[m] \in Seq(Users)
    BY <1>2, <1>4 DEF ObservingTypes
  <2>3. k \in 1 .. Len(subscribed[m]) /\ k \in 1 .. Len(op[t].due)
    BY <1>4, <1>5, <2>1, <2>2 DEF Calling
  <2>4. finish[m] = Len(subscribed[m])
        /\ \A i \in 1 .. finish[m] : entries[m][i] = subscribed[m][i]
    BY <1>2, <1>4, <1>8 DEF Listed
  <2>5. entries[m][k] = subscribed[m][k]
    BY <2>3, <2>4
  <2>6. op[t].due[k] = subscribed[m][k]
    BY <1>5, <2>1 DEF Calling
  <2>7. op[t].due[k] \in Users
    BY <1>4, <2>3
  <2> QED
    BY <2>1, <2>5, <2>6, <2>7
<1> HIDE DEF who, k
<1>9. CASE who = Observing!Null
  <2> DEFINE o == last
  <2>1. op[t].message \in raced
    BY <1>8, <1>9, NullIsNoUser
  <2>2. /\ o \in Death /\ o.do = "dead" /\ o.message = op[t].message
        /\ op' = [op EXCEPT ![t] = o]
    BY <1>1, <1>4, <1>9 DEF Death
  <2> HIDE DEF o
  <2>3. o \in Doing /\ ~(o.do \in {"construct", "load", "store"}) /\ o.do # "update"
    BY <2>2 DEF Doing
  <2> QED
    BY <1>1, <1>7, <2>1, <2>2, <2>3, CallerStep
<1>10. CASE who # Observing!Null
  <2> DEFINE more == Append(called, who)
             o == [op[t] EXCEPT !.called = more]
  <2>1. who \in Users /\ more \in Seq(Users) /\ op' = [op EXCEPT ![t] = o]
    BY <1>1, <1>4, <1>6, <1>10
  <2> HIDE DEF more
  <2>2. o \in Notification /\ o.do = op[t].do /\ o.message = op[t].message
        /\ o.end = op[t].end /\ o.due = op[t].due /\ o.called = more
    BY <1>3, <2>1 DEF Notification
  <2> HIDE DEF o
  <2>3. o \in Doing /\ ~(o.do \in {"construct", "load", "store"})
        /\ o.do # "dead" /\ o.do # "store"
    BY <1>1, <2>2 DEF Doing
  <2>4. ASSUME op[t].message \notin raced PROVE Calling(o)
    <3>1. /\ Len(more) = k /\ more[k] = who
          /\ \A i \in 1 .. Len(called) : more[i] = called[i]
      BY <1>4, <1>5, <2>1 DEF more
    <3>2. \A i \in 1 .. k : more[i] = op[t].due[i]
      <4>1. \A i \in 1 .. Len(called) : called[i] = op[t].due[i]
        BY <1>8, <2>4 DEF Calling
      <4> QED
        BY <1>5, <1>8, <2>4, <3>1, <4>1
    <3> QED
      BY <1>5, <1>8, <2>2, <2>4, <3>1, <3>2 DEF Calling
  <2> QED
    BY <1>1, <1>7, <2>1, <2>2, <2>3, <2>4, CallerStep
<1> QED
  BY <1>9, <1>10

LEMMA ReturnStep ==
  ASSUME ObservingInv, NEW t \in Callers, Observing!Return(t)
  PROVE  ObservingInv'
<1>1. /\ op[t].do = "update" /\ op' = [op EXCEPT ![t] = Observing!Idle]
      /\ UNCHANGED <<mObservables, entries, finish, subscribed, raced>>
  BY DEF Observing!Return, Observing!Step
<1>2. ~Observing!Subscribing(t)
  BY <1>1 DEF Observing!Subscribing
<1>3. Observing!Idle.do = "idle"
  BY DEF Observing!Idle
<1>4. Observing!Idle \in Doing
  BY DEF Doing
<1> QED
  BY <1>1, <1>2, <1>3, <1>4, CallerStep

\* What a thread is in the middle of, while it subscribes
LEMMA SubscriberIs ==
  ASSUME ObservingInv, NEW t \in Callers, Observing!Subscribing(t)
  PROVE  /\ op[t] \in Subscription /\ op[t].user \in Users /\ op[t].message \in Messages
         /\ finish[op[t].message] \in Nat
         /\ op[t].message \notin raced =>
              /\ finish[op[t].message] < MaxEntries
              /\ op[t].do = "store" => op[t].count = finish[op[t].message]
<1>1. ObservingTypes /\ Adding
  BY DEF ObservingInv
<1>2. op[t] \in Doing
  BY <1>1 DEF ObservingTypes
<1>3. op[t] \notin Notification /\ op[t] \notin Death /\ op[t] # Observing!Idle
  BY DEF Observing!Subscribing, Notification, Death, Observing!Idle
<1>4. op[t] \in Subscription
  BY <1>2, <1>3 DEF Doing
<1>5. op[t].user \in Users /\ op[t].message \in Messages
  BY <1>4 DEF Subscription
<1>6. finish[op[t].message] \in Nat
  BY <1>1, <1>5, ProgramsAssumption DEF ObservingTypes
<1> QED
  BY <1>1, <1>4, <1>5, <1>6 DEF Adding

LEMMA ConstructStep ==
  ASSUME ObservingInv, NEW t \in Callers, Observing!Construct(t)
  PROVE  ObservingInv'
<1> DEFINE m == op[t].message
           k == finish[m] + 1
           o == [op[t] EXCEPT !.do = "load"]
<1>1. /\ op[t].do = "construct" /\ finish[m] < MaxEntries /\ op' = [op EXCEPT ![t] = o]
      /\ entries' = [entries EXCEPT ![m][k] = op[t].user]
      /\ UNCHANGED <<mObservables, finish, subscribed, raced>>
  BY DEF Observing!Construct, Observing!Step
<1>2. ObservingTypes /\ Listed /\ Adding /\ Notifying /\ Agreeing /\ Counted /\ Dying
  BY DEF ObservingInv
<1>3. Observing!Subscribing(t)
  BY <1>1 DEF Observing!Subscribing
<1>4. /\ op[t] \in Subscription /\ op[t].user \in Users /\ m \in Messages
      /\ finish[m] \in Nat /\ finish[m] < MaxEntries
  BY <1>1, <1>3, SubscriberIs
<1>5. o \in Subscription /\ o.do = "load" /\ o.user = op[t].user /\ o.message = m
  <2>1. op[t] \in [do : {"construct", "load"}, user : Users, message : Messages]
    BY <1>1, <1>4 DEF Subscription
  <2> QED
    BY <2>1 DEF Subscription
<1>6. op'[t] = o /\ \A s \in Callers \ {t} : op'[s] = op[s]
  BY <1>1, <1>2 DEF ObservingTypes
<1> HIDE DEF o
<1>7. /\ k \in 1 .. MaxEntries /\ k \notin 1 .. finish[m]
      /\ entries'[m][k] = op[t].user
      /\ \A i \in 1 .. MaxEntries : i # k => entries'[m][i] = entries[m][i]
      /\ \A n \in Messages \ {m} : entries'[n] = entries[n]
  <2>1. k \in 1 .. MaxEntries /\ k \notin 1 .. finish[m]
    BY <1>4, ProgramsAssumption
  <2>2. entries[m] \in [1 .. MaxEntries -> Users \cup {Observing!Null}]
    BY <1>2, <1>4 DEF ObservingTypes
  <2>3. entries' = [entries EXCEPT ![m] = [entries[m] EXCEPT ![k] = op[t].user]]
    BY <1>1
  <2> HIDE DEF k, m
  <2>4. entries'[m] = [entries[m] EXCEPT ![k] = op[t].user]
        /\ \A n \in Messages \ {m} : entries'[n] = entries[n]
    BY <1>2, <1>4, <2>3 DEF ObservingTypes
  <2> QED
    BY <2>1, <2>2, <2>4
<1> HIDE DEF k
<1>8. \A s \in Callers : Observing!Subscribing(s)' <=> Observing!Subscribing(s)
  BY <1>3, <1>5, <1>6 DEF Observing!Subscribing
<1>9. \A s \in Callers : Observing!Subscribing(s) =>
        op'[s].user = op[s].user /\ op'[s].message = op[s].message
  BY <1>5, <1>6
<1>10. \A n \in Messages : finish[n] \in 0 .. MaxEntries
  BY <1>2 DEF ObservingTypes
<1>11. \A n \in Messages : \A i \in 1 .. finish[n] : entries'[n][i] = entries[n][i]
  BY <1>7, <1>10, ProgramsAssumption
<1>12. ObservingTypes'
  <2>1. entries' \in [Messages -> [1 .. MaxEntries -> Users \cup {Observing!Null}]]
    BY <1>1, <1>2, <1>4 DEF ObservingTypes
  <2>2. op' \in [Callers -> Doing]
    BY <1>1, <1>2, <1>5 DEF ObservingTypes, Doing
  <2> QED
    BY <1>1, <1>2, <2>1, <2>2 DEF ObservingTypes
<1>13. Listed'
  BY <1>1, <1>2, <1>11 DEF Listed
<1>14. Adding'
  <2>1. ASSUME NEW s \in Callers, NEW r \in Callers, Observing!Subscribing(s)',
               Observing!Subscribing(r)', op'[s].message = op'[r].message,
               op'[s].message \notin raced
        PROVE  s = r
    BY <1>2, <1>8, <1>9, <2>1 DEF Adding
  <2>2. ASSUME NEW s \in Callers, Observing!Subscribing(s)', op'[s].message \notin raced
        PROVE  LET n == op'[s].message IN
               /\ finish'[n] < MaxEntries
               /\ op'[s].do # "construct" => entries'[n][finish'[n] + 1] = op'[s].user
               /\ op'[s].do = "store" => op'[s].count = finish'[n]
    <3>1. CASE s = t
      BY <1>1, <1>4, <1>5, <1>6, <1>7, <3>1 DEF k
    <3>2. CASE s # t
      <4>1. Observing!Subscribing(s) /\ op'[s] = op[s]
        BY <1>6, <1>8, <2>2, <3>2
      <4>2. op[s].message \in Messages /\ op[s].message # m
        BY <1>2, <1>3, <2>2, <3>2, <4>1, SubscriberIs DEF Adding
      <4>3. entries'[op[s].message] = entries[op[s].message]
        BY <1>7, <4>2
      <4> QED
        BY <1>1, <1>2, <2>2, <4>1, <4>3 DEF Adding
    <3> QED
      BY <3>1, <3>2
  <2> QED
    BY <1>1, <2>1, <2>2 DEF Adding
<1>15. Notifying'
  <2>1. ASSUME NEW s \in Callers, op'[s].do = "update", op'[s].message \notin raced
        PROVE  Calling(op[s])'
    <3>1. op'[s] = op[s] /\ Calling(op[s])
      BY <1>2, <1>5, <1>6, <2>1 DEF Notifying
    <3> QED
      BY <1>1, <3>1 DEF Calling
  <2> QED
    BY <1>1, <2>1 DEF Notifying
<1>16. Agreeing'
  <2>1. \A u \in Users, n \in Messages : Underway(u, n)' <=> Underway(u, n)
    BY <1>8, <1>9 DEF Underway
  <2>2. \A u \in Users, n \in Messages : Observables(u, n)' = Observables(u, n)
    BY <1>1 DEF Observables, Places
  <2>3. ASSUME NEW u \in Users, NEW n \in Messages PROVE Entries(u, n)' = Entries(u, n)
    <3>1. finish'[n] = finish[n] /\ \A i \in 1 .. finish[n] : entries'[n][i] = entries[n][i]
      BY <1>1, <1>11
    <3> QED
      BY <3>1 DEF Entries, Places
  <2> QED
    BY <1>1, <1>2, <2>1, <2>2, <2>3 DEF Agreeing
<1>17. Counted' /\ Dying'
  BY <1>1, <1>2, <1>5, <1>6 DEF Counted, Dying
<1> QED
  BY <1>12, <1>13, <1>14, <1>15, <1>16, <1>17 DEF ObservingInv

LEMMA StoreStep ==
  ASSUME ObservingInv, NEW t \in Callers, Observing!Store(t)
  PROVE  ObservingInv'
<1> DEFINE m == op[t].message
           u == op[t].user
           k == op[t].count + 1
<1>1. /\ op[t].do = "store" /\ op' = [op EXCEPT ![t] = Observing!Idle]
      /\ finish' = [finish EXCEPT ![m] = k]
      /\ subscribed' = [subscribed EXCEPT ![m] = Append(@, u)]
      /\ UNCHANGED <<mObservables, entries, raced>>
  BY DEF Observing!Store, Observing!Step
<1>2. ObservingTypes /\ Listed /\ Adding /\ Notifying /\ Agreeing /\ Counted /\ Dying
  BY DEF ObservingInv
<1>3. Observing!Subscribing(t)
  BY <1>1 DEF Observing!Subscribing
<1>4. /\ u \in Users /\ m \in Messages /\ finish[m] \in Nat /\ op[t].count \in Nat
      /\ op[t].count < MaxEntries /\ op[t].count <= Len(subscribed[m])
  <2>1. op[t] \in Subscription
    BY <1>3, SubscriberIs
  <2>2. op[t].count \in Nat /\ op[t].count < MaxEntries
    BY <1>1, <2>1 DEF Subscription
  <2> QED
    BY <1>1, <1>2, <1>3, <2>2, SubscriberIs DEF Counted
<1>5. k \in 1 .. MaxEntries /\ k = op[t].count + 1
  BY <1>4, ProgramsAssumption
<1>6. op'[t] = Observing!Idle /\ op'[t].do = "idle" /\ \A s \in Callers \ {t} : op'[s] = op[s]
  BY <1>1, <1>2 DEF ObservingTypes, Observing!Idle
<1>7. ASSUME m \notin raced
      PROVE  k = finish[m] + 1 /\ finish[m] < MaxEntries /\ entries[m][k] = u
             /\ Len(subscribed[m]) = finish[m]
  <2>1. finish[m] < MaxEntries /\ op[t].count = finish[m]
    BY <1>1, <1>3, <1>7, SubscriberIs
  <2>2. entries[m][finish[m] + 1] = u
    BY <1>1, <1>2, <1>3, <1>7 DEF Adding
  <2>3. Len(subscribed[m]) = finish[m]
    BY <1>2, <1>4, <1>7 DEF Listed
  <2> QED
    BY <2>1, <2>2, <2>3
<1> HIDE DEF k, m, u
<1>8. finish'[m] = k /\ \A n \in Messages \ {m} : finish'[n] = finish[n]
  BY <1>1, <1>2, <1>4 DEF ObservingTypes
<1>9. /\ subscribed[m] \in Seq(Users)
      /\ subscribed'[m] = Append(subscribed[m], u)
      /\ \A n \in Messages \ {m} : subscribed'[n] = subscribed[n]
  BY <1>1, <1>2, <1>4 DEF ObservingTypes
<1>10. /\ Len(subscribed[m]) \in Nat /\ Len(subscribed'[m]) = Len(subscribed[m]) + 1
       /\ subscribed'[m][Len(subscribed[m]) + 1] = u
       /\ \A i \in 1 .. Len(subscribed[m]) : subscribed'[m][i] = subscribed[m][i]
       /\ subscribed'[m] \in Seq(Users)
  BY <1>4, <1>9
<1>11. ObservingTypes'
  <2>1. finish' \in [Messages -> 0 .. MaxEntries]
    BY <1>1, <1>2, <1>4, <1>5, ProgramsAssumption DEF ObservingTypes
  <2>2. subscribed' \in [Messages -> Seq(Users)]
    BY <1>1, <1>2, <1>9, <1>10 DEF ObservingTypes
  <2>3. op' \in [Callers -> Doing]
    BY <1>1, <1>2 DEF ObservingTypes, Doing
  <2> QED
    BY <1>1, <1>2, <2>1, <2>2, <2>3 DEF ObservingTypes
<1>12. Listed'
  <2> SUFFICES ASSUME NEW n \in Messages \ raced
               PROVE  /\ Len(subscribed'[n]) = finish'[n]
                      /\ \A i \in 1 .. finish'[n] : entries[n][i] = subscribed'[n][i]
    BY <1>1 DEF Listed
  <2>1. CASE n = m
    <3>1. Len(subscribed'[n]) = finish'[n]
      BY <1>7, <1>8, <1>10, <2>1
    <3>2. ASSUME NEW i \in 1 .. k PROVE entries[m][i] = subscribed'[m][i]
      <4>1. CASE i = k
        BY <1>7, <1>10, <2>1, <4>1
      <4>2. CASE i # k
        <5>1. i \in 1 .. finish[m]
          BY <1>4, <1>5, <1>7, <2>1, <4>2
        <5>2. entries[m][i] = subscribed[m][i]
          BY <1>2, <2>1, <5>1 DEF Listed
        <5> QED
          BY <1>7, <1>10, <2>1, <5>1, <5>2
      <4> QED
        BY <4>1, <4>2
    <3> QED
      BY <1>8, <2>1, <3>1, <3>2
  <2>2. CASE n # m
    BY <1>2, <1>8, <1>9, <2>2 DEF Listed
  <2> QED
    BY <2>1, <2>2
<1>13. \A s \in Callers :
         Observing!Subscribing(s)' =>
           /\ s # t /\ Observing!Subscribing(s) /\ op'[s] = op[s] /\ op[s].message \in Messages
           /\ op[s].message \notin raced => op[s].message # m
  <2> SUFFICES ASSUME NEW s \in Callers, Observing!Subscribing(s)'
               PROVE  /\ s # t /\ Observing!Subscribing(s) /\ op'[s] = op[s]
                      /\ op[s].message \in Messages
                      /\ op[s].message \notin raced => op[s].message # m
    OBVIOUS
  <2>1. s # t
    BY <1>6 DEF Observing!Subscribing
  <2>2. op'[s] = op[s] /\ Observing!Subscribing(s)
    BY <1>6, <2>1 DEF Observing!Subscribing
  <2>3. op[s].message \notin raced => op[s].message # op[t].message
    BY <1>2, <1>3, <2>1, <2>2 DEF Adding
  <2>4. op[s].message \in Messages
    BY <2>2, SubscriberIs
  <2> QED
    BY <2>1, <2>2, <2>3, <2>4 DEF m
<1>14. Adding'
  <2>1. ASSUME NEW s \in Callers, NEW r \in Callers, Observing!Subscribing(s)',
               Observing!Subscribing(r)', op'[s].message = op'[r].message,
               op'[s].message \notin raced
        PROVE  s = r
    BY <1>2, <1>13, <2>1 DEF Adding
  <2>2. ASSUME NEW s \in Callers, Observing!Subscribing(s)', op'[s].message \notin raced
        PROVE  LET n == op'[s].message IN
               /\ finish'[n] < MaxEntries
               /\ op'[s].do # "construct" => entries'[n][finish'[n] + 1] = op'[s].user
               /\ op'[s].do = "store" => op'[s].count = finish'[n]
    <3>1. Observing!Subscribing(s) /\ op'[s] = op[s] /\ op[s].message \in Messages \ {m}
          /\ op[s].message \notin raced
      BY <1>13, <2>2
    <3>2. finish'[op[s].message] = finish[op[s].message]
      BY <1>8, <3>1
    <3> QED
      BY <1>1, <1>2, <3>1, <3>2 DEF Adding
  <2> QED
    BY <1>1, <2>1, <2>2 DEF Adding
<1>15. Notifying'
  <2>1. ASSUME NEW s \in Callers, op'[s].do = "update", op'[s].message \notin raced
        PROVE  Calling(op[s])'
    <3>1. op'[s] = op[s] /\ op[s].do = "update" /\ Calling(op[s])
      BY <1>2, <1>6, <2>1 DEF Notifying
    <3>2. op[s].message \in Messages /\ op[s].end \in 0 .. MaxEntries
      BY <1>2, <3>1, NotifierIs
    <3>3. op[s].message \in Messages /\ op[s].end \in Nat
      BY <3>2, ProgramsAssumption
    <3>4. CASE op[s].message = m
      <4>1. op[s].end <= Len(subscribed[m])
            /\ \A i \in 1 .. op[s].end : op[s].due[i] = subscribed[m][i]
        BY <3>1, <3>4 DEF Calling
      <4>2. op[s].end <= Len(subscribed'[m])
        BY <1>10, <3>3, <4>1
      <4>3. \A i \in 1 .. op[s].end : op[s].due[i] = subscribed'[m][i]
        BY <1>10, <3>3, <4>1
      <4> QED
        BY <3>1, <3>4, <4>2, <4>3 DEF Calling
    <3>5. CASE op[s].message # m
      <4>1. subscribed'[op[s].message] = subscribed[op[s].message]
        BY <1>9, <3>3, <3>5
      <4> QED
        BY <3>1, <4>1 DEF Calling
    <3> QED
      BY <3>4, <3>5
  <2> QED
    BY <1>1, <2>1 DEF Notifying
<1>16. Agreeing'
  <2> SUFFICES ASSUME NEW v \in Users, NEW n \in Messages \ raced
               PROVE  Cardinality(Observables(v, n)') =
                        Cardinality(Entries(v, n)') + (IF Underway(v, n)' THEN 1 ELSE 0)
    BY <1>1 DEF Agreeing
  <2>1. Observables(v, n)' = Observables(v, n)
    BY <1>1 DEF Observables, Places
  <2>2. Cardinality(Observables(v, n)) =
          Cardinality(Entries(v, n)) + (IF Underway(v, n) THEN 1 ELSE 0)
    BY <1>2 DEF Agreeing
  <2>3. CASE n = m
    <3>1. ~Underway(v, n)'
      BY <1>13, <2>3 DEF Underway
    <3>a. m \notin raced
      BY <2>3
    <3>2. Entries(v, n) = Places(entries[m], finish[m], v)
          /\ Entries(v, n)' = Places(entries[m], k, v)
      BY <1>1, <1>8, <2>3 DEF Entries
    <3>3. CASE v = u
      <4>1. Underway(v, n)
        BY <1>3, <2>3, <3>3 DEF Underway, m, u
      <4>2. Cardinality(Places(entries[m], k, v)) =
              Cardinality(Places(entries[m], finish[m], v)) + 1
        BY <1>4, <1>7, <3>3, <3>a, OneMore
      <4>3. Cardinality(Places(entries[m], finish[m], v)) \in Nat
        BY <1>4, HowOften
      <4> QED
        BY <2>1, <2>2, <3>1, <3>2, <4>1, <4>2, <4>3
    <3>4. CASE v # u
      <4>1. ~Underway(v, n)
        BY <1>2, <1>3, <2>3, <3>4 DEF Underway, Adding, m, u
      <4>2. Cardinality(Places(entries[m], k, v)) =
              Cardinality(Places(entries[m], finish[m], v))
        BY <1>4, <1>7, <3>4, <3>a, NoneMore
      <4> QED
        BY <2>1, <2>2, <3>1, <3>2, <4>1, <4>2
    <3> QED
      BY <3>3, <3>4
  <2>4. CASE n # m
    <3>1. Underway(v, n)' <=> Underway(v, n)
      <4>1. Underway(v, n)' => Underway(v, n)
        BY <1>13 DEF Underway
      <4>2. Underway(v, n) => Underway(v, n)'
        BY <1>6, <2>4 DEF Underway, Observing!Subscribing, m
      <4> QED
        BY <4>1, <4>2
    <3>2. Entries(v, n)' = Entries(v, n)
      BY <1>1, <1>8, <2>4 DEF Entries
    <3> QED
      BY <2>1, <2>2, <3>1, <3>2
  <2> QED
    BY <2>3, <2>4
<1>17. Counted'
  <2>1. ASSUME NEW n \in Messages
        PROVE  /\ finish'[n] <= Len(subscribed'[n]) /\ Len(subscribed[n]) \in Nat
               /\ Len(subscribed[n]) <= Len(subscribed'[n])
    <3>1. CASE n = m
      BY <1>4, <1>5, <1>8, <1>10, <3>1
    <3>2. CASE n # m
      <4>1. subscribed[n] \in Seq(Users) /\ finish[n] <= Len(subscribed[n])
        BY <1>2 DEF ObservingTypes, Counted
      <4> QED
        BY <1>8, <1>9, <3>2, <4>1
    <3> QED
      BY <3>1, <3>2
  <2>2. ASSUME NEW s \in Callers, op'[s].do = "store"
        PROVE  op'[s].count <= Len(subscribed'[op'[s].message])
    <3>1. op'[s] = op[s] /\ op[s].do = "store" /\ op[s].message \in Messages
          /\ Observing!Subscribing(s)
      BY <1>13, <2>2 DEF Observing!Subscribing
    <3>2. op[s].count <= Len(subscribed[op[s].message]) /\ op[s].count \in Nat
      <4>1. op[s] \in Subscription
        BY <3>1, SubscriberIs
      <4> QED
        BY <1>2, <3>1, <4>1 DEF Counted, Subscription
    <3>3. Len(subscribed[op[s].message]) <= Len(subscribed'[op[s].message])
          /\ Len(subscribed[op[s].message]) \in Nat
          /\ Len(subscribed'[op[s].message]) \in Nat
      <4>1. subscribed'[op[s].message] \in Seq(Users)
        BY <1>11, <3>1 DEF ObservingTypes
      <4> QED
        BY <2>1, <3>1, <4>1
    <3> QED
      BY <3>1, <3>2, <3>3
  <2> QED
    BY <2>1, <2>2 DEF Counted
<1>18. Dying'
  BY <1>1, <1>2, <1>6 DEF Dying
<1> QED
  BY <1>11, <1>12, <1>14, <1>15, <1>16, <1>17, <1>18 DEF ObservingInv

LEMMA ObservingStep == ObservingInv /\ [Observing!Next]_observerVars => ObservingInv'
<1> SUFFICES ASSUME ObservingInv, [Observing!Next]_observerVars PROVE ObservingInv'
  OBVIOUS
<1>1. CASE Observing!Next
  <2> PICK t \in Callers :
        \/ \E u \in Users, m \in Messages : Observing!Subscribe(t, u, m)
        \/ Observing!Construct(t) \/ Observing!Load(t) \/ Observing!Store(t)
        \/ \E m \in Messages : Observing!Notify(t, m)
        \/ Observing!Update(t) \/ Observing!Return(t)
    BY <1>1 DEF Observing!Next
  <2> QED
    BY SubscribeStep, ConstructStep, LoadStep, StoreStep, NotifyStep, UpdateStep, ReturnStep
<1>2. CASE UNCHANGED observerVars
  <2>1. UNCHANGED <<mObservables, entries, finish, op, subscribed, raced>>
    BY <1>2 DEF observerVars
  <2>2. \A u \in Users, m \in Messages :
          /\ Entries(u, m)' = Entries(u, m) /\ Observables(u, m)' = Observables(u, m)
          /\ Underway(u, m)' <=> Underway(u, m)
    BY <2>1 DEF Entries, Observables, Places, Underway, Observing!Subscribing
  <2>3. Agreeing'
    BY <2>1, <2>2 DEF ObservingInv, Agreeing
  <2>4. Adding' /\ Notifying'
    BY <2>1 DEF ObservingInv, Adding, Notifying, Calling, Observing!Subscribing
  <2>5. ObservingTypes' /\ Listed' /\ Counted' /\ Dying'
    BY <2>1 DEF ObservingInv, ObservingTypes, Listed, Counted, Dying
  <2> QED
    BY <2>3, <2>4, <2>5 DEF ObservingInv
<1> QED
  BY <1>1, <1>2

LEMMA ObservingGives ==
  ObservingInv => Observing!ReachesSubscribed /\ Observing!SubscriptionsAgree
<1> SUFFICES ASSUME ObservingInv
             PROVE  Observing!ReachesSubscribed /\ Observing!SubscriptionsAgree
  OBVIOUS
<1>1. ObservingTypes /\ Notifying /\ Agreeing /\ Counted /\ Dying
  BY DEF ObservingInv
<1>2. Observing!ReachesSubscribed
  <2> SUFFICES ASSUME NEW t \in Callers, op[t].do = "update", op[t].message \notin raced
               PROVE  /\ \A i \in DOMAIN op[t].called \cap DOMAIN op[t].due :
                           op[t].called[i] = op[t].due[i]
                      /\ Len(op[t].called) = op[t].end => Len(op[t].due) <= Len(op[t].called)
    BY <1>1 DEF Observing!ReachesSubscribed, Dying
  <2> DEFINE called == op[t].called
             due == op[t].due
  <2>1. op[t] \in Notification
    BY <1>1, NotifierIs
  <2>2. called \in Seq(Users) /\ due \in Seq(Users)
    BY <2>1 DEF Notification
  <2>3. /\ op[t].end = Len(due) /\ Len(called) <= op[t].end
        /\ \A i \in 1 .. Len(called) : called[i] = due[i]
    BY <1>1 DEF Notifying, Calling
  <2> HIDE DEF called, due
  <2>4. \A i \in DOMAIN called \cap DOMAIN due : called[i] = due[i]
    BY <2>2, <2>3
  <2>5. Len(called) = op[t].end => Len(due) <= Len(called)
    BY <2>2, <2>3
  <2> QED
    BY <2>4, <2>5 DEF called, due
<1>3. Observing!SubscriptionsAgree
  <2> SUFFICES ASSUME NEW u \in Users, NEW m \in Messages \ raced,
                      \A t \in Callers : ~Observing!Subscribing(t)
               PROVE  Observing!Cardinality({i \in 1 .. finish[m] : entries[m][i] = u}) =
                        Observing!Cardinality({i \in DOMAIN mObservables[u] :
                                                 mObservables[u][i] = m})
    BY <1>1 DEF Observing!SubscriptionsAgree, Counted
  <2>1. ~Underway(u, m)
    BY DEF Underway
  <2>2. mObservables[u] \in Seq(Messages) /\ finish[m] \in Nat
    BY <1>1, ProgramsAssumption DEF ObservingTypes
  <2>3. DOMAIN mObservables[u] = 1 .. Len(mObservables[u])
    BY <2>2
  <2>4. Cardinality(Observables(u, m)) = Cardinality(Entries(u, m))
    <3>1. Cardinality(Observables(u, m)) = Cardinality(Entries(u, m)) + 0
      BY <1>1, <2>1 DEF Agreeing
    <3>2. Cardinality(Entries(u, m)) \in Nat
      BY <2>2, HowOften DEF Entries
    <3> QED
      BY <3>1, <3>2
  <2>5. \A S : Observing!Cardinality(S) = Cardinality(S)
    BY DEF Observing!Cardinality, Cardinality
  <2>6. /\ Entries(u, m) = {i \in 1 .. finish[m] : entries[m][i] = u}
        /\ Observables(u, m) = {i \in DOMAIN mObservables[u] : mObservables[u][i] = m}
    BY <2>3 DEF Entries, Observables, Places
  <2> QED
    BY <2>4, <2>5, <2>6
<1> QED
  BY <1>2, <1>3

(***************************************************************************)
(* Allocators: words and bits of the bitmap                                *)
(***************************************************************************)

LEMMA WordsAndBits ==
  /\ Word \in Nat \ {0} /\ Words \in Nat \ {0}
  /\ Memory!Slices \in Nat \ {0} /\ Memory!Slices = Word * Words
  /\ Word <= Memory!Slices
<1>1. Word \in Nat \ {0} /\ Words \in Nat \ {0}
  BY ProgramsAssumption
<1>2. Word * Words \in Nat /\ Word <= Word * Words
  BY <1>1
<1> QED
  BY <1>1, <1>2 DEF Memory!Slices

LEMMA Product ==
  ASSUME NEW i \in Int
  PROVE  i * Word \in Int /\ (i + 1) * Word = i * Word + Word
  BY WordsAndBits

LEMMA ProductGrows ==
  ASSUME NEW i \in Int, NEW j \in Int, i <= j
  PROVE  i * Word <= j * Word
<1>1. PICK d \in Nat : j = i + d
  <2>1. j - i \in Nat /\ j = i + (j - i)
    OBVIOUS
  <2> QED
    BY <2>1
<1>2. j * Word = i * Word + d * Word
  BY <1>1, WordsAndBits
<1>3. d * Word \in Nat
  BY WordsAndBits
<1> QED
  BY <1>2, <1>3, Product

\* The word that a bit is in
LEMMA BitIsInWord ==
  ASSUME NEW x \in Nat
  PROVE  /\ x \div Word \in Nat /\ (x % Word) \in Nat /\ (x % Word) < Word
         /\ x = (x \div Word) * Word + (x % Word)
         /\ x \in Memory!InWord(x \div Word)
<1>1. /\ x \div Word \in Nat /\ (x % Word) \in Nat /\ (x % Word) < Word
      /\ x = (x \div Word) * Word + (x % Word)
  BY WordsAndBits
<1>2. (x \div Word + 1) * Word = (x \div Word) * Word + Word
  BY <1>1, Product
<1>3. (x \div Word) * Word \in Int
  BY <1>1, Product
<1> QED
  BY <1>1, <1>2, <1>3, WordsAndBits DEF Memory!InWord

LEMMA InWords ==
  ASSUME NEW i \in Int, NEW j \in Int, NEW x \in Int,
         i * Word <= x, x < j * Word
  PROVE  i < j
<1>1. CASE j <= i
  BY <1>1, ProductGrows, Product
<1> QED
  BY <1>1

\* What BitmapOP() touches is the run of bits it was asked for.
LEMMA BitmapRun ==
  ASSUME NEW nr \in Nat, NEW bits \in Nat \ {0}
  PROVE  Memory!BitmapOP(nr, bits) = nr .. nr + bits - 1
<1> DEFINE endBit == nr + bits
           q == nr \div Word
           leftEndBit == (q + 1) * Word
           last == endBit \div Word
           left == nr .. Memory!Min({endBit, leftEndBit}) - 1
           right == last * Word .. last * Word + (endBit % Word) - 1
<1>1. /\ q \in Nat /\ nr = q * Word + (nr % Word) /\ (nr % Word) \in Nat /\ (nr % Word) < Word
      /\ last \in Nat /\ endBit = last * Word + (endBit % Word)
      /\ (endBit % Word) \in Nat /\ (endBit % Word) < Word
      /\ endBit \in Nat
  <2>1. endBit \in Nat
    OBVIOUS
  <2> QED
    BY <2>1, BitIsInWord
<1>2. /\ leftEndBit = q * Word + Word /\ q * Word \in Int /\ leftEndBit \in Int
      /\ last * Word \in Int /\ (last + 1) * Word = last * Word + Word
      /\ (last - 1) + 1 = last
  BY <1>1, Product, WordsAndBits
<1>3. nr < leftEndBit
  <2> DEFINE a == q * Word
             r == nr % Word
  <2>1. a \in Int /\ r \in Nat /\ r < Word /\ nr = a + r /\ leftEndBit = a + Word
    BY <1>1, <1>2
  <2> HIDE DEF a, r, leftEndBit
  <2> QED
    BY <2>1, WordsAndBits
<1>4. ASSUME NEW a \in Int, NEW b \in Int, a <= b
      PROVE  Memory!Min({a, b}) = a /\ Memory!Min({b, a}) = a
  BY <1>4 DEF Memory!Min
<1>5. Memory!BitmapOP(nr, bits) =
        IF endBit <= leftEndBit THEN left
        ELSE left \cup Memory!WholeWords(nr, bits) \cup right
  BY DEF Memory!BitmapOP
<1>6. CASE endBit <= leftEndBit
  <2>1. Memory!Min({endBit, leftEndBit}) = endBit
    BY <1>1, <1>2, <1>4, <1>6
  <2> QED
    BY <1>5, <1>6, <2>1
<1>7. CASE leftEndBit < endBit
  <2>1. Memory!Min({endBit, leftEndBit}) = leftEndBit
    BY <1>1, <1>2, <1>4, <1>7
  <2>2. left = nr .. leftEndBit - 1
    BY <2>1
  <2>3. q + 1 <= last
    <3>1. endBit < (last + 1) * Word
      <4> DEFINE c == last * Word
                 r == endBit % Word
      <4>1. c \in Int /\ r \in Nat /\ r < Word /\ endBit = c + r
            /\ (last + 1) * Word = c + Word
        BY <1>1, <1>2
      <4> HIDE DEF c, r, endBit, last
      <4> QED
        BY <4>1, WordsAndBits
    <3>2. q + 1 \in Int /\ last + 1 \in Int /\ endBit \in Int /\ (q + 1) * Word <= endBit
      <4> HIDE DEF q, last, endBit
      <4> QED
        BY <1>1, <1>2, <1>7
    <3> HIDE DEF q, last, endBit
    <3>3. q + 1 < last + 1
      BY <3>1, <3>2, InWords
    <3> QED
      BY <1>1, <3>3
  <2>4. leftEndBit <= last * Word
    BY <1>1, <2>3, ProductGrows
  <2>5. Memory!WholeWords(nr, bits) = leftEndBit .. last * Word - 1
    <3>1. ASSUME NEW x \in Memory!WholeWords(nr, bits)
          PROVE  x \in leftEndBit .. last * Word - 1
      <4>1. PICK i \in q + 1 .. last - 1 : x \in i * Word .. (i + 1) * Word - 1
        BY <3>1 DEF Memory!WholeWords, Memory!InWord
      <4>2. i \in Int /\ i + 1 \in Int /\ q + 1 <= i /\ i + 1 <= last /\ x \in Int
        BY <1>1, <4>1
      <4>3. leftEndBit <= i * Word /\ (i + 1) * Word <= last * Word
        BY <1>1, <4>2, ProductGrows
      <4>4. i * Word \in Int /\ (i + 1) * Word \in Int
        BY <4>2, Product
      <4> HIDE DEF q, leftEndBit, last
      <4> QED
        BY <1>2, <4>1, <4>2, <4>3, <4>4
    <3>2. ASSUME NEW x \in leftEndBit .. last * Word - 1
          PROVE  x \in Memory!WholeWords(nr, bits)
      <4>1. x \in Nat /\ leftEndBit <= x /\ x < last * Word
        BY <1>1, <1>2, <1>3
      <4> DEFINE i == x \div Word
      <4>2. i \in Nat /\ x \in Memory!InWord(i) /\ i * Word <= x /\ x < (i + 1) * Word
        BY <4>1, BitIsInWord, Product DEF Memory!InWord
      <4>3. q + 1 < i + 1 /\ i < last
        BY <1>1, <4>1, <4>2, InWords
      <4>4. i \in q + 1 .. last - 1
        BY <1>1, <4>2, <4>3
      <4> HIDE DEF i
      <4> QED
        BY <4>2, <4>4 DEF Memory!WholeWords
    <3> QED
      BY <3>1, <3>2
  <2>6. right = last * Word .. endBit - 1
    <3> DEFINE c == last * Word
               r == endBit % Word
    <3>1. endBit = c + r /\ c \in Int /\ r \in Int
      BY <1>1, <1>2
    <3>2. right = c .. c + r - 1
      OBVIOUS
    <3> HIDE DEF c, r, endBit, right
    <3>3. right = c .. endBit - 1
      BY <3>1, <3>2
    <3> QED
      BY <3>3 DEF c
  <2>7. left \cup Memory!WholeWords(nr, bits) \cup right = nr .. endBit - 1
    <3> DEFINE c == last * Word
               whole == Memory!WholeWords(nr, bits)
    <3>1. /\ nr \in Int /\ leftEndBit \in Int /\ c \in Int /\ endBit \in Int
          /\ nr < leftEndBit /\ leftEndBit <= c /\ c <= endBit
          /\ left = nr .. leftEndBit - 1 /\ whole = leftEndBit .. c - 1
          /\ right = c .. endBit - 1
      <4>1. c <= endBit
        <5> DEFINE r == endBit % Word
        <5>1. endBit = c + r /\ r \in Nat /\ c \in Int
          BY <1>1, <1>2
        <5> HIDE DEF c, r, endBit
        <5> QED
          BY <5>1
      <4> QED
        BY <1>1, <1>2, <1>3, <2>2, <2>4, <2>5, <2>6, <4>1
    <3> HIDE DEF leftEndBit, left, right, endBit, c, whole
    <3>2. left \cup whole \cup right = nr .. endBit - 1
      BY <3>1
    <3> QED
      BY <3>2 DEF whole
  <2>8. ~(endBit <= leftEndBit)
    BY <1>1, <1>2, <1>7
  <2> HIDE DEF q, leftEndBit, last, left, right, endBit
  <2>9. Memory!BitmapOP(nr, bits) = nr .. endBit - 1
    BY <1>5, <2>7, <2>8
  <2> QED
    BY <2>9 DEF endBit
<1>8. endBit <= leftEndBit \/ leftEndBit < endBit
  BY <1>1, <1>2
<1> QED
  BY <1>6, <1>7, <1>8

(***************************************************************************)
(* Finding a run of free bits                                              *)
(***************************************************************************)

LEMMA MinIs ==
  ASSUME NEW S, S \subseteq Int, NEW x \in S, \A y \in S : x <= y
  PROVE  Memory!Min(S) = x
<1>1. Memory!Min(S) \in S /\ \A y \in S : Memory!Min(S) <= y
  BY DEF Memory!Min
<1>2. Memory!Min(S) <= x /\ x <= Memory!Min(S) /\ Memory!Min(S) \in Int /\ x \in Int
  BY <1>1
<1> QED
  BY <1>2

LEMMA MinOf ==
  ASSUME NEW n \in Nat, NEW S, S \subseteq 0 .. n, S # {}
  PROVE  /\ Memory!Min(S) \in S /\ Memory!Min(S) \in Nat
         /\ \A y \in S : Memory!Min(S) <= y
<1>1. IsFiniteSet(0 .. n) /\ S \in SUBSET (0 .. n)
  BY FS_Interval
<1>2. IsFiniteSet(S) /\ S \subseteq Nat
  <2>1. S \subseteq Nat
    OBVIOUS
  <2> QED
    BY <1>1, <2>1, FS_Subset
<1>3. PICK x \in S : \A y \in S : x <= y
  BY <1>2, Extrema
<1>4. Memory!Min(S) = x
  <2>1. S \subseteq Int
    BY <1>2
  <2> QED
    BY <1>3, <2>1, MinIs
<1> QED
  BY <1>2, <1>3, <1>4

\* Where a block of so many slices could begin
Unused == Memory!Bits \ mFreeBitMap
Fits(n) == {nr \in 0 .. Memory!Slices - n : nr .. nr + n - 1 \subseteq Unused}

LEMMA FreeInWord ==
  ASSUME NEW x
  PROVE  x \in Unused <=> \E i \in 0 .. Words - 1 : x \in Memory!FreeIn(i)
<1>1. ASSUME x \in Unused PROVE \E i \in 0 .. Words - 1 : x \in Memory!FreeIn(i)
  <2>1. x \in Nat /\ x < Words * Word /\ x \notin mFreeBitMap
    BY <1>1, WordsAndBits DEF Unused, Memory!Bits
  <2> DEFINE i == x \div Word
  <2>2. i \in Nat /\ x \in Memory!InWord(i)
    BY <2>1, BitIsInWord
  <2>3. i * Word <= x /\ i * Word \in Int
    BY <2>2, Product DEF Memory!InWord
  <2> HIDE DEF i
  <2>4. i < Words
    BY <2>1, <2>2, <2>3, WordsAndBits, InWords
  <2> QED
    BY <2>1, <2>2, <2>4, WordsAndBits DEF Memory!FreeIn
<1>2. ASSUME NEW i \in 0 .. Words - 1, x \in Memory!FreeIn(i) PROVE x \in Unused
  <2>1. x \in Int /\ i * Word <= x /\ x < (i + 1) * Word /\ x \notin mFreeBitMap
    BY <1>2, Product DEF Memory!FreeIn, Memory!InWord
  <2>2. 0 * Word <= i * Word /\ (i + 1) * Word <= Words * Word
    BY WordsAndBits, ProductGrows
  <2>3. 0 * Word = 0 /\ i * Word \in Int /\ (i + 1) * Word \in Int
    BY WordsAndBits, Product
  <2>4. Words * Word = Memory!Slices /\ Memory!Slices \in Nat
    BY WordsAndBits
  <2> QED
    BY <2>1, <2>2, <2>3, <2>4 DEF Unused, Memory!Bits
<1> QED
  BY <1>1, <1>2

LEMMA FreeInIs ==
  ASSUME NEW i \in Int, NEW x \in Memory!FreeIn(i)
  PROVE  x \in Int /\ i * Word \in Int /\ (i + 1) * Word \in Int
         /\ i * Word <= x /\ x < (i + 1) * Word
  BY Product DEF Memory!FreeIn, Memory!InWord

LEMMA OneFits ==
  /\ Memory!FindOne = IF Fits(1) = {} THEN 0 ELSE Memory!Min(Fits(1)) + 1
  /\ Memory!empty <=> Memory!FindOne = 0
<1> DEFINE some == {i \in 0 .. Words - 1 : Memory!FreeIn(i) # {}}
<1>1. Fits(1) = Unused
  BY WordsAndBits DEF Fits, Unused, Memory!Bits
<1>2. some = {} <=> Unused = {}
  BY FreeInWord
<1>3. Memory!FindOne = IF some = {} THEN 0
                       ELSE Memory!Min(Memory!FreeIn(Memory!Min(some))) + 1
  BY DEF Memory!FindOne
<1>4. Memory!empty <=> some = {}
  BY DEF Memory!empty
<1>5. CASE some = {}
  BY <1>1, <1>2, <1>3, <1>4, <1>5
<1>6. CASE some # {}
  <2> DEFINE i == Memory!Min(some)
             x == Memory!Min(Memory!FreeIn(i))
  <2>1. i \in some /\ i \in Nat /\ \A j \in some : i <= j
    <3>1. some \subseteq 0 .. Words - 1 /\ Words - 1 \in Nat
      BY WordsAndBits
    <3> HIDE DEF some
    <3> QED
      BY <1>6, <3>1, MinOf
  <2>2. i \in 0 .. Words - 1 /\ Memory!FreeIn(i) # {}
    BY <2>1
  <2> HIDE DEF i
  <2>3. Memory!FreeIn(i) \subseteq Unused
    BY <2>2, FreeInWord
  <2>4. Unused \subseteq 0 .. Memory!Slices - 1 /\ Memory!Slices - 1 \in Nat
    BY WordsAndBits DEF Unused, Memory!Bits
  <2>5. x \in Memory!FreeIn(i) /\ x \in Nat /\ \A y \in Memory!FreeIn(i) : x <= y
    BY <2>2, <2>3, <2>4, MinOf
  <2> HIDE DEF x
  <2>6. ASSUME NEW y \in Unused PROVE x <= y
    <3>1. PICK j \in 0 .. Words - 1 : y \in Memory!FreeIn(j)
      BY FreeInWord
    <3>2. j \in some /\ i <= j
      BY <2>1, <3>1
    <3>3. CASE i = j
      BY <2>5, <3>1, <3>3
    <3>4. CASE i # j
      <4>1. i + 1 <= j /\ i + 1 \in Int /\ j \in Int /\ i \in Int
        BY <2>2, <3>2, <3>4
      <4>2. (i + 1) * Word <= j * Word
        BY <4>1, ProductGrows
      <4>3. x < (i + 1) * Word /\ (i + 1) * Word \in Int /\ x \in Int
        BY <2>5, <4>1, FreeInIs
      <4>4. j * Word <= y /\ j * Word \in Int /\ y \in Int
        BY <3>1, <4>1, FreeInIs
      <4> HIDE DEF some
      <4> QED
        BY <4>2, <4>3, <4>4
    <3> QED
      BY <3>3, <3>4
  <2>7. Memory!Min(Unused) = x
    <3>1. Unused \subseteq Int /\ x \in Unused
      BY <2>3, <2>4, <2>5
    <3> QED
      BY <2>6, <3>1, MinIs
  <2>8. Memory!FindOne = x + 1
    BY <1>3, <1>6 DEF x, i
  <2>9. x + 1 # 0
    BY <2>5
  <2> HIDE DEF some
  <2> QED
    BY <1>1, <1>2, <1>4, <1>6, <2>7, <2>8, <2>9
<1> QED
  BY <1>5, <1>6

\* The last bit up to this one that is in use, or -1
UpTo(bit) == {p \in -1 .. bit : p = -1 \/ p \in mFreeBitMap}
LastUsed(bit) == CHOOSE p \in UpTo(bit) : \A k \in UpTo(bit) : k <= p

LEMMA LastUsedIs ==
  ASSUME NEW bit \in Nat
  PROVE  /\ LastUsed(bit) \in -1 .. bit
         /\ LastUsed(bit) = -1 \/ LastUsed(bit) \in mFreeBitMap
         /\ \A k \in LastUsed(bit) + 1 .. bit : k \notin mFreeBitMap
<1> DEFINE up == {p + 1 : p \in UpTo(bit)}
<1>1. up \subseteq 0 .. bit + 1 /\ bit + 1 \in Nat /\ 0 \in up
  BY DEF UpTo
<1>2. IsFiniteSet(0 .. bit + 1) /\ up \in SUBSET (0 .. bit + 1)
  BY <1>1, FS_Interval
<1> HIDE DEF up
<1>3. IsFiniteSet(up) /\ up \subseteq Nat /\ up # {}
  <2>1. up \subseteq Nat
    BY <1>1
  <2> QED
    BY <1>1, <1>2, <2>1, FS_Subset
<1>4. PICK m \in up : \A k \in up : k <= m
  BY <1>3, Extrema
<1>5. PICK q \in UpTo(bit) : m = q + 1
  BY DEF up
<1>6. UpTo(bit) \subseteq -1 .. bit
  BY DEF UpTo
<1>7. ASSUME NEW k \in UpTo(bit) PROVE k <= q
  <2>1. k + 1 \in up
    BY DEF up
  <2>2. k + 1 <= q + 1
    BY <1>4, <1>5, <2>1
  <2> QED
    BY <1>6, <2>2
<1>8. LastUsed(bit) \in UpTo(bit) /\ \A k \in UpTo(bit) : k <= LastUsed(bit)
  BY <1>7 DEF LastUsed
<1> HIDE DEF LastUsed
<1> QED
  BY <1>8 DEF UpTo

LEMMA LastUsedIsOne ==
  ASSUME NEW bit \in Nat, NEW p \in -1 .. bit, p = -1 \/ p \in mFreeBitMap,
         \A k \in p + 1 .. bit : k \notin mFreeBitMap
  PROVE  LastUsed(bit) = p
<1> DEFINE q == LastUsed(bit)
<1>1. /\ q \in -1 .. bit /\ (q = -1 \/ q \in mFreeBitMap)
      /\ \A k \in q + 1 .. bit : k \notin mFreeBitMap
  BY LastUsedIs
<1> HIDE DEF q
<1>2. CASE q < p
  <2>1. p \in q + 1 .. bit /\ p # -1
    BY <1>1, <1>2
  <2> QED
    BY <1>1, <2>1
<1>3. CASE p < q
  <2>1. q \in p + 1 .. bit /\ q # -1
    BY <1>1, <1>3
  <2> QED
    BY <1>1, <2>1
<1>4. q = p
  BY <1>1, <1>2, <1>3
<1> QED
  BY <1>4 DEF q

\* f counts the bits of the run of free ones that ends at each bit.
Runs(f) ==
  f = [bit \in Memory!Bits |->
         IF bit \in mFreeBitMap THEN 0 ELSE IF bit = 0 THEN 1 ELSE f[bit - 1] + 1]

LEMMA RunStep ==
  ASSUME NEW bit \in Nat
  PROVE  bit - LastUsed(bit) = IF bit \in mFreeBitMap THEN 0
                               ELSE IF bit = 0 THEN 1
                               ELSE (bit - 1 - LastUsed(bit - 1)) + 1
<1>1. CASE bit \in mFreeBitMap
  <2>1. LastUsed(bit) = bit
    BY <1>1, LastUsedIsOne
  <2> QED
    BY <1>1, <2>1
<1>2. CASE bit \notin mFreeBitMap /\ bit = 0
  <2>1. -1 \in -1 .. bit /\ \A k \in -1 + 1 .. bit : k \notin mFreeBitMap
    BY <1>2
  <2>2. LastUsed(bit) = -1
    BY <2>1, LastUsedIsOne
  <2> QED
    BY <1>2, <2>2
<1>3. CASE bit \notin mFreeBitMap /\ bit # 0
  <2> DEFINE p == LastUsed(bit - 1)
  <2>1. bit - 1 \in Nat
    BY <1>3
  <2>2. /\ p \in -1 .. bit - 1 /\ (p = -1 \/ p \in mFreeBitMap)
        /\ \A k \in p + 1 .. bit - 1 : k \notin mFreeBitMap
    BY <2>1, LastUsedIs
  <2> HIDE DEF p
  <2>3. p \in -1 .. bit /\ \A k \in p + 1 .. bit : k \notin mFreeBitMap
    BY <1>3, <2>1, <2>2
  <2>4. LastUsed(bit) = p
    BY <2>2, <2>3, LastUsedIsOne
  <2>5. bit - p = (bit - 1 - p) + 1
    BY <2>2
  <2> QED
    BY <1>3, <2>4, <2>5 DEF p
<1> QED
  BY <1>1, <1>2, <1>3

LEMMA RunLengthIs ==
  ASSUME NEW bit \in Memory!Bits
  PROVE  Memory!RunLength[bit] = bit - LastUsed(bit)
<1> DEFINE Bits == Memory!Bits
<1>0. Bits = 0 .. Memory!Slices - 1 /\ Memory!Slices \in Nat
  BY WordsAndBits DEF Memory!Bits
<1>1. Memory!RunLength = CHOOSE f : Runs(f)
  BY DEF Memory!RunLength, Runs
<1> HIDE DEF Bits
<1>2. PICK g : g = [b \in Bits |-> b - LastUsed(b)]
  OBVIOUS
<1>3. ASSUME NEW b \in Bits PROVE b # 0 => b - 1 \in Bits
  BY <1>0
<1>4. ASSUME NEW b \in Bits
      PROVE  g[b] = IF b \in mFreeBitMap THEN 0 ELSE IF b = 0 THEN 1 ELSE g[b - 1] + 1
  <2>1. b \in Nat
    BY <1>0
  <2> QED
    BY <1>2, <1>3, <2>1, RunStep
<1>5. Runs(g)
  BY <1>2, <1>4 DEF Runs, Bits
<1>6. PICK f : f = Memory!RunLength
  OBVIOUS
<1>7. Runs(f)
  BY <1>1, <1>5, <1>6
<1> DEFINE T == {b \in Bits : f[b] # g[b]}
<1>8. CASE T # {}
  <2> DEFINE b == Memory!Min(T)
  <2>1. T \subseteq 0 .. Memory!Slices - 1 /\ Memory!Slices - 1 \in Nat
    BY <1>0, WordsAndBits
  <2>2. b \in T /\ \A c \in T : b <= c
    <3> HIDE DEF T
    <3> QED
      BY <1>8, <2>1, MinOf
  <2> HIDE DEF b
  <2>3. b \in Bits /\ b \in Nat /\ f[b] # g[b]
    BY <1>0, <2>2
  <2>4. f[b] = IF b \in mFreeBitMap THEN 0 ELSE IF b = 0 THEN 1 ELSE f[b - 1] + 1
    BY <1>7, <2>3 DEF Runs, Bits
  <2>5. b # 0 => f[b - 1] = g[b - 1]
    <3> SUFFICES ASSUME b # 0 PROVE f[b - 1] = g[b - 1]
      OBVIOUS
    <3>1. b - 1 \in Bits
      BY <1>3, <2>3
    <3>2. b - 1 \notin T
      <4>1. ~(b <= b - 1)
        BY <2>3
      <4> QED
        BY <2>2, <4>1
    <3> QED
      BY <3>1, <3>2
  <2> QED
    BY <1>4, <2>3, <2>4, <2>5
<1>9. CASE T = {}
  BY <1>2, <1>6, <1>9 DEF Bits
<1> QED
  BY <1>8, <1>9

\* A long enough run of free bits holds one that has just become long enough.
LEMMA RunOf ==
  ASSUME NEW n \in Nat \ {0}, NEW nr \in Fits(n)
  PROVE  \E bit \in Memory!Bits : Memory!RunLength[bit] = n /\ bit <= nr + n - 1
<1> DEFINE last == nr + n - 1
           p == LastUsed(last)
           bit == p + n
<1>1. /\ nr \in Nat /\ n \in Nat /\ n > 0 /\ nr + n <= Memory!Slices
      /\ \A k \in nr .. last : k \notin mFreeBitMap
      /\ Memory!Slices \in Nat
  BY WordsAndBits DEF Fits, Unused
<1>2. last \in Nat /\ last < Memory!Slices
  BY <1>1
<1>3. /\ p \in -1 .. last /\ (p = -1 \/ p \in mFreeBitMap)
      /\ \A k \in p + 1 .. last : k \notin mFreeBitMap
  BY <1>2, LastUsedIs
<1> HIDE DEF p
<1>4. p < nr
  <2>1. CASE nr <= p
    <3>1. p \in nr .. last /\ p # -1
      BY <1>1, <1>3, <2>1
    <3> QED
      BY <1>1, <1>3, <3>1
  <2> QED
    BY <1>1, <1>3, <2>1
<1>5. bit \in Nat /\ bit <= last /\ p \in -1 .. bit
  BY <1>1, <1>3, <1>4
<1>6. \A k \in p + 1 .. bit : k \notin mFreeBitMap
  BY <1>1, <1>3, <1>5
<1>7. bit \in Memory!Bits
  BY <1>1, <1>2, <1>5 DEF Memory!Bits
<1>8. LastUsed(bit) = p
  BY <1>3, <1>5, <1>6, LastUsedIsOne
<1>9. Memory!RunLength[bit] = n
  <2>1. Memory!RunLength[bit] = bit - p
    BY <1>7, <1>8, RunLengthIs
  <2> QED
    BY <1>1, <1>3, <2>1
<1> QED
  BY <1>5, <1>7, <1>9

\* and the other way round
LEMMA RunFits ==
  ASSUME NEW n \in Nat \ {0}, NEW bit \in Memory!Bits, Memory!RunLength[bit] = n
  PROVE  bit - n + 1 \in Fits(n)
<1> DEFINE p == LastUsed(bit)
<1>1. bit \in Nat /\ bit < Memory!Slices /\ Memory!Slices \in Nat
  BY WordsAndBits DEF Memory!Bits
<1>2. p \in -1 .. bit /\ \A k \in p + 1 .. bit : k \notin mFreeBitMap
  BY <1>1, LastUsedIs
<1>3. n = bit - p
  BY RunLengthIs
<1> HIDE DEF p
<1>4. bit - n + 1 = p + 1 /\ p + 1 + n - 1 = bit
  BY <1>1, <1>2, <1>3
<1>5. p + 1 \in 0 .. Memory!Slices - n
  BY <1>1, <1>2, <1>3
<1>6. p + 1 .. bit \subseteq Unused
  BY <1>1, <1>2 DEF Unused, Memory!Bits
<1> QED
  BY <1>4, <1>5, <1>6 DEF Fits

\* The bits behind which the first word is in use
LEMMA TrailingFits ==
  ASSUME NEW n \in Nat \ {0}, Memory!Trailing >= n
  PROVE  0 \in Fits(n) /\ Memory!Min(Fits(n)) = 0
<1>1. Memory!InWord(0) = 0 .. Word - 1
  BY WordsAndBits DEF Memory!InWord
<1>2. Memory!Trailing \in Nat /\ Memory!Trailing <= Word
      /\ \A k \in 0 .. Memory!Trailing - 1 : k \notin mFreeBitMap
  <2>1. CASE Memory!FreeIn(0) = Memory!InWord(0)
    BY <1>1, <2>1, WordsAndBits DEF Memory!Trailing, Memory!FreeIn
  <2>2. CASE Memory!FreeIn(0) # Memory!InWord(0)
    <3> DEFINE used == Memory!InWord(0) \cap mFreeBitMap
               x == Memory!Min(used)
    <3>1. used # {} /\ used \subseteq 0 .. Word - 1 /\ Word - 1 \in Nat
      BY <1>1, <2>2, WordsAndBits DEF Memory!FreeIn
    <3>2. Memory!Trailing = x
      BY <2>2 DEF Memory!Trailing
    <3>3. x \in used /\ x \in Nat /\ \A y \in used : x <= y
      <4> HIDE DEF used
      <4> QED
        BY <3>1, MinOf
    <3> HIDE DEF x
    <3>4. x <= Word - 1
      BY <3>1, <3>3
    <3>5. ASSUME NEW k \in 0 .. x - 1, k \in mFreeBitMap PROVE FALSE
      <4>1. k \in used
        BY <1>1, <3>1, <3>3, <3>4, <3>5
      <4> QED
        BY <3>3, <4>1
    <3>6. x \in Nat /\ x <= Word
      BY <3>3, <3>4, WordsAndBits
    <3> QED
      BY <3>2, <3>5, <3>6
  <2> QED
    BY <2>1, <2>2
<1>3. n <= Word /\ n <= Memory!Slices /\ Memory!Slices \in Nat
  BY <1>2, WordsAndBits
<1>4. 0 .. 0 + n - 1 \subseteq Unused
  BY <1>2, <1>3 DEF Unused, Memory!Bits
<1>5. 0 \in Fits(n)
  BY <1>3, <1>4 DEF Fits
<1>6. Fits(n) \subseteq Int /\ \A y \in Fits(n) : 0 <= y
  BY <1>3 DEF Fits
<1> QED
  BY <1>5, <1>6, MinIs

LEMMA ManyFit ==
  ASSUME NEW n \in Nat \ {0}
  PROVE  Memory!FindMany(n) = IF Fits(n) = {} THEN 0 ELSE Memory!Min(Fits(n)) + 1
<1> DEFINE enough == {bit \in Memory!Bits : Memory!RunLength[bit] = n}
<1>1. Memory!FindMany(n) =
        IF Memory!Trailing >= n THEN 1
        ELSE IF enough = {} THEN 0 ELSE Memory!Min(enough) + 2 - n
  BY DEF Memory!FindMany
<1>2. CASE Memory!Trailing >= n
  BY <1>1, <1>2, TrailingFits
<1>3. CASE ~(Memory!Trailing >= n) /\ enough = {}
  <2>1. Fits(n) = {}
    BY <1>3, RunOf
  <2> QED
    BY <1>1, <1>3, <2>1
<1>4. CASE ~(Memory!Trailing >= n) /\ enough # {}
  <2> DEFINE e == Memory!Min(enough)
  <2>1. enough \subseteq 0 .. Memory!Slices - 1 /\ Memory!Slices - 1 \in Nat
    BY WordsAndBits DEF Memory!Bits
  <2>2. e \in enough /\ e \in Nat /\ \A y \in enough : e <= y
    <3> HIDE DEF enough
    <3> QED
      BY <1>4, <2>1, MinOf
  <2> HIDE DEF e
  <2>3. e - n + 1 \in Fits(n)
    BY <2>2, RunFits
  <2>4. Fits(n) \subseteq Int
    BY WordsAndBits DEF Fits
  <2>5. ASSUME NEW y \in Fits(n) PROVE e - n + 1 <= y
    <3>1. PICK bit \in Memory!Bits : Memory!RunLength[bit] = n /\ bit <= y + n - 1
      BY RunOf
    <3>2. bit \in enough /\ bit \in Int
      BY <2>1, <3>1
    <3>3. e <= bit
      BY <2>2, <3>2
    <3> HIDE DEF enough
    <3>4. y \in Int
      BY <2>4
    <3> QED
      BY <2>2, <3>1, <3>2, <3>3, <3>4
  <2>6. Memory!Min(Fits(n)) = e - n + 1
    BY <2>3, <2>4, <2>5, MinIs
  <2>7. Memory!FindMany(n) = e + 2 - n
    BY <1>1, <1>4 DEF e
  <2>8. e + 2 - n = (e - n + 1) + 1
    BY <2>2
  <2> HIDE DEF enough
  <2> QED
    BY <2>3, <2>6, <2>7, <2>8
<1> QED
  BY <1>2, <1>3, <1>4

LEMMA FindFits ==
  ASSUME NEW n \in Nat \ {0}
  PROVE  Memory!Find(n) = IF Fits(n) = {} THEN 0 ELSE Memory!Min(Fits(n)) + 1
  BY OneFits, ManyFit DEF Memory!Find

(***************************************************************************)
(* What the bitmap and the users have                                      *)
(***************************************************************************)

BlocksFit ==
  \A h \in held :
    /\ h = <<h[1], h[2]>> /\ h[1] \in Nat \ {0} /\ h[2] \in Wanted
    /\ h[1] + h[2] - 1 <= Memory!Slices
BlocksApart ==
  \A g, h \in held : g # h => Memory!Block(g) \cap Memory!Block(h) = {}
BitmapInv == IsFiniteSet(held) /\ BlocksFit /\ BlocksApart /\ Memory!BitsAreHeld

LEMMA BitmapInit == ProgramsInit => BitmapInv
<1> SUFFICES ASSUME Memory!BitmapInit PROVE BitmapInv
  BY DEF ProgramsInit
<1>1. mFreeBitMap = {} /\ held = {}
  BY DEF Memory!BitmapInit
<1>2. IsFiniteSet({})
  BY FS_EmptySet
<1> QED
  BY <1>1, <1>2 DEF BitmapInv, BlocksFit, BlocksApart, Memory!BitsAreHeld

\* What an acquire hands out was nobody's.
LEMMA AcquireTakes ==
  ASSUME BitmapInv, NEW n \in Wanted, Memory!BitmapAcquire(n)
  PROVE  \E begin \in Nat \ {0} :
           /\ begin + n - 1 <= Memory!Slices /\ n \in Nat \ {0}
           /\ begin - 1 .. begin + n - 2 \subseteq Unused
           /\ mFreeBitMap' = mFreeBitMap \cup (begin - 1 .. begin + n - 2)
           /\ held' = held \cup {<<begin, n>>}
           /\ Memory!Block(<<begin, n>>) = begin .. begin + n - 1
           /\ \A h \in held : Memory!Block(<<begin, n>>) \cap Memory!Block(h) = {}
<1> DEFINE begin == Memory!Find(n)
<1>1. n \in Nat \ {0} /\ Memory!Slices \in Nat
  BY ProgramsAssumption, WordsAndBits
<1>2. /\ begin # 0 /\ mFreeBitMap' = mFreeBitMap \cup Memory!BitmapOP(begin - 1, n)
      /\ held' = held \cup {<<begin, n>>}
  BY DEF Memory!BitmapAcquire
<1>3. begin = IF Fits(n) = {} THEN 0 ELSE Memory!Min(Fits(n)) + 1
  BY <1>1, FindFits
<1>4. Fits(n) # {} /\ begin = Memory!Min(Fits(n)) + 1
  BY <1>2, <1>3
<1>5. Memory!Min(Fits(n)) \in Fits(n) /\ Memory!Min(Fits(n)) \in Nat
  <2>1. Fits(n) \subseteq 0 .. Memory!Slices
    BY <1>1 DEF Fits
  <2> QED
    BY <1>1, <1>4, <2>1, MinOf
<1> HIDE DEF begin
<1>6. begin \in Nat \ {0} /\ begin - 1 \in Nat /\ begin - 1 \in Fits(n)
  BY <1>4, <1>5
<1>7. begin + n - 1 <= Memory!Slices /\ begin - 1 .. begin + n - 2 \subseteq Unused
  BY <1>1, <1>6 DEF Fits
<1>8. Memory!BitmapOP(begin - 1, n) = begin - 1 .. begin + n - 2
  <2>1. Memory!BitmapOP(begin - 1, n) = begin - 1 .. (begin - 1) + n - 1
    BY <1>1, <1>6, BitmapRun
  <2>2. (begin - 1) + n - 1 = begin + n - 2
    BY <1>1, <1>6
  <2> QED
    BY <2>1, <2>2
<1>9. Memory!Block(<<begin, n>>) = begin .. begin + n - 1
  BY DEF Memory!Block
<1>10. ASSUME NEW h \in held, NEW x \in Memory!Block(<<begin, n>>), x \in Memory!Block(h)
       PROVE  FALSE
  <2>1. x \in Int /\ begin <= x /\ x <= begin + n - 1
    BY <1>1, <1>6, <1>9, <1>10
  <2>2. x - 1 \in begin - 1 .. begin + n - 2
    BY <1>1, <1>6, <2>1
  <2>3. x - 1 \notin mFreeBitMap
    BY <1>7, <2>2 DEF Unused
  <2>4. x - 1 \in mFreeBitMap
    BY <1>10 DEF BitmapInv, Memory!BitsAreHeld
  <2> QED
    BY <2>3, <2>4
<1> QED
  BY <1>1, <1>2, <1>6, <1>7, <1>8, <1>9, <1>10

LEMMA AcquireStep ==
  ASSUME BitmapInv, NEW n \in Wanted, Memory!BitmapAcquire(n)
  PROVE  BitmapInv'
<1>1. PICK begin \in Nat \ {0} :
           /\ begin + n - 1 <= Memory!Slices /\ n \in Nat \ {0}
           /\ begin - 1 .. begin + n - 2 \subseteq Unused
           /\ mFreeBitMap' = mFreeBitMap \cup (begin - 1 .. begin + n - 2)
           /\ held' = held \cup {<<begin, n>>}
           /\ Memory!Block(<<begin, n>>) = begin .. begin + n - 1
           /\ \A h \in held : Memory!Block(<<begin, n>>) \cap Memory!Block(h) = {}
  BY AcquireTakes
<1> DEFINE b == <<begin, n>>
<1>2. b = <<b[1], b[2]>> /\ b[1] = begin /\ b[2] = n
  OBVIOUS
<1> HIDE DEF b
<1>3. held' = held \cup {b} /\ \A h \in held : Memory!Block(b) \cap Memory!Block(h) = {}
  BY <1>1 DEF b
<1>4. IsFiniteSet(held)'
  BY <1>3, FS_AddElement DEF BitmapInv
<1>5. BlocksFit'
  BY <1>1, <1>2, <1>3 DEF BitmapInv, BlocksFit, Memory!Slices
<1>6. BlocksApart'
  BY <1>3 DEF BitmapInv, BlocksApart, Memory!Block
<1>7. Memory!BitsAreHeld'
  <2>1. mFreeBitMap = {slice - 1 : slice \in UNION {Memory!Block(h) : h \in held}}
    BY DEF BitmapInv, Memory!BitsAreHeld
  <2>2. Memory!Block(b) = begin .. begin + n - 1
    BY <1>1 DEF b
  <2>3. begin - 1 .. begin + n - 2 = {slice - 1 : slice \in Memory!Block(b)}
    <3>1. \A x \in begin - 1 .. begin + n - 2 : x + 1 \in begin .. begin + n - 1 /\ x = (x + 1) - 1
      BY <1>1
    <3>2. \A y \in begin .. begin + n - 1 : y - 1 \in begin - 1 .. begin + n - 2
      BY <1>1
    <3> QED
      BY <2>2, <3>1, <3>2
  <2>4. UNION {Memory!Block(h) : h \in held \cup {b}} =
          Memory!Block(b) \cup UNION {Memory!Block(h) : h \in held}
    OBVIOUS
  <2> DEFINE old == UNION {Memory!Block(h) : h \in held}
             new == Memory!Block(b)
  <2>5. {slice - 1 : slice \in new \cup old} =
          {slice - 1 : slice \in old} \cup {slice - 1 : slice \in new}
    <3> HIDE DEF old, new
    <3> QED
      OBVIOUS
  <2>6. mFreeBitMap' = {slice - 1 : slice \in UNION {Memory!Block(h) : h \in held'}}
    BY <1>1, <1>3, <2>1, <2>3, <2>4, <2>5
  <2> QED
    BY <2>6 DEF Memory!BitsAreHeld, Memory!Block
<1> QED
  BY <1>4, <1>5, <1>6, <1>7 DEF BitmapInv

LEMMA ReleaseStep ==
  ASSUME BitmapInv, NEW b \in held, Memory!BitmapRelease(b[1], b[2])
  PROVE  BitmapInv'
<1> DEFINE begin == b[1]
           n == b[2]
<1>1. /\ b = <<begin, n>> /\ begin \in Nat \ {0} /\ n \in Nat \ {0}
      /\ begin + n - 1 <= Memory!Slices
  BY ProgramsAssumption DEF BitmapInv, BlocksFit
<1>2. mFreeBitMap' = mFreeBitMap \ Memory!BitmapOP(begin - 1, n) /\ held' = held \ {b}
  BY <1>1 DEF Memory!BitmapRelease
<1>3. Memory!Block(b) = begin .. begin + n - 1
  BY DEF Memory!Block
<1> HIDE DEF begin, n
<1>4. Memory!BitmapOP(begin - 1, n) = begin - 1 .. begin + n - 2
  <2>0. begin - 1 \in Nat
    BY <1>1
  <2>1. Memory!BitmapOP(begin - 1, n) = begin - 1 .. (begin - 1) + n - 1
    BY <1>1, <2>0, BitmapRun
  <2>2. (begin - 1) + n - 1 = begin + n - 2
    BY <1>1
  <2> QED
    BY <2>1, <2>2
<1>5. IsFiniteSet(held)'
  BY <1>2, FS_Subset DEF BitmapInv
<1>6. BlocksFit' /\ BlocksApart'
  BY <1>2 DEF BitmapInv, BlocksFit, BlocksApart, Memory!Block, Memory!Slices
<1>7. Memory!BitsAreHeld'
  <2> DEFINE rest == UNION {Memory!Block(h) : h \in held \ {b}}
             mine == Memory!Block(b)
  <2>1. mFreeBitMap = {slice - 1 : slice \in UNION {Memory!Block(h) : h \in held}}
    BY DEF BitmapInv, Memory!BitsAreHeld
  <2>2. UNION {Memory!Block(h) : h \in held} = mine \cup rest
    OBVIOUS
  <2>3. mine \cap rest = {}
    BY DEF BitmapInv, BlocksApart
  <2>4. rest \subseteq Int
    BY DEF BitmapInv, BlocksFit, Memory!Block
  <2>5. mine = begin .. begin + n - 1
    BY <1>3
  <2> HIDE DEF rest, mine
  <2>7. {slice - 1 : slice \in mine \cup rest} \ (begin - 1 .. begin + n - 2) =
          {slice - 1 : slice \in rest}
    <3>1. ASSUME NEW y \in rest PROVE y - 1 \notin begin - 1 .. begin + n - 2
      BY <1>1, <2>3, <2>4, <2>5
    <3>2. ASSUME NEW y \in mine PROVE y - 1 \in begin - 1 .. begin + n - 2
      BY <1>1, <2>5
    <3> QED
      BY <3>1, <3>2
  <2>8. mFreeBitMap' = {slice - 1 : slice \in UNION {Memory!Block(h) : h \in held \ {b}}}
    BY <1>2, <1>4, <2>1, <2>2, <2>7 DEF rest
  <2> QED
    BY <1>2, <2>8 DEF Memory!BitsAreHeld, Memory!Block
<1> QED
  BY <1>5, <1>6, <1>7 DEF BitmapInv

LEMMA BitmapStep == BitmapInv /\ [Memory!BitmapNext]_bitmapVars => BitmapInv'
<1> SUFFICES ASSUME BitmapInv, [Memory!BitmapNext]_bitmapVars PROVE BitmapInv'
  OBVIOUS
<1>1. CASE Memory!BitmapNext
  BY <1>1, AcquireStep, ReleaseStep DEF Memory!BitmapNext
<1>2. CASE UNCHANGED bitmapVars
  BY <1>2 DEF bitmapVars, BitmapInv, BlocksFit, BlocksApart, Memory!BitsAreHeld,
              Memory!Block, Memory!Slices
<1> QED
  BY <1>1, <1>2

\* Sets that do not overlap have as many elements as all of them together.
LEMMA UnionCount ==
  ASSUME NEW S, IsFiniteSet(S), NEW A, \A x \in S : IsFiniteSet(A[x]),
         \A x, y \in S : x # y => A[x] \cap A[y] = {}
  PROVE  /\ IsFiniteSet(UNION {A[x] : x \in S})
         /\ Cardinality(UNION {A[x] : x \in S}) = Total([x \in S |-> Cardinality(A[x])], S)
<1> PICK g : g = [x \in S |-> Cardinality(A[x])]
  OBVIOUS
<1> DEFINE all(s) == UNION {A[x] : x \in s}
           right(s) == IsFiniteSet(all(s)) /\ Cardinality(all(s)) = Total(g, s)
           T == {s \in SUBSET S : ~right(s)}
<1>1. \A x \in S : g[x] = Cardinality(A[x]) /\ g[x] \in Nat
  BY FS_CardinalityType
<1>2. CASE T # {}
  <2>1. PICK U \in T : \A V \in T : V \subseteq U => V = U
    <3>1. T \subseteq SUBSET S
      OBVIOUS
    <3> HIDE DEF T
    <3> QED
      BY <1>2, <3>1, Smallest
  <2>2. U \in SUBSET S /\ IsFiniteSet(U) /\ ~right(U)
    <3>1. U \in SUBSET S /\ ~right(U)
      OBVIOUS
    <3> QED
      BY <3>1, FS_Subset
  <2>3. CASE U = {}
    <3>1. all(U) = {}
      BY <2>3
    <3>2. Total(g, U) = 0
      BY <2>3, TotalEmpty
    <3> QED
      BY <2>2, <3>1, <3>2, FS_EmptySet
  <2>4. CASE U # {}
    <3> DEFINE x == First(U)
               V == U \ {x}
    <3>1. x \in U /\ x \in S /\ V \subseteq U /\ V # U /\ V \in SUBSET S
      BY <2>2, <2>4 DEF First
    <3>2. right(V)
      <4> HIDE DEF V, right
      <4> QED
        BY <2>1, <3>1
    <3>3. Total(g, U) = g[x] + Total(g, V)
      BY <2>2, <2>4, TotalStep
    <3>4. all(U) = A[x] \cup all(V)
      BY <3>1
    <3>5. A[x] \cap all(V) = {}
      BY <2>2, <3>1
    <3>6. IsFiniteSet(A[x]) /\ g[x] = Cardinality(A[x]) /\ g[x] \in Nat
      BY <1>1, <3>1
    <3> HIDE DEF x, V, all, T
    <3>7. IsFiniteSet(all(V)) /\ Cardinality(all(V)) = Total(g, V)
          /\ Cardinality(all(V)) \in Nat
      BY <3>2, FS_CardinalityType
    <3>8. IsFiniteSet(all(U)) /\ Cardinality(all(U)) =
            Cardinality(A[x]) + Cardinality(all(V)) - Cardinality(A[x] \cap all(V))
      BY <3>4, <3>6, <3>7, FS_Union
    <3>9. Cardinality(all(U)) = Total(g, U)
      <4>1. Cardinality(A[x] \cap all(V)) = 0
        BY <3>5, FS_EmptySet
      <4> QED
        BY <3>3, <3>6, <3>7, <3>8, <4>1
    <3> QED
      BY <2>2, <3>8, <3>9
  <2> QED
    BY <2>3, <2>4
<1>3. CASE T = {}
  <2>1. right(S)
    BY <1>3
  <2> QED
    BY <2>1
<1> QED
  BY <1>2, <1>3

\* size() adds the free bits of the words.
FreeCounts == [i \in 0 .. Words - 1 |-> Cardinality(Memory!FreeIn(i))]
AddsWords(f) ==
  f = [s \in SUBSET (0 .. Words - 1) |->
         IF s = {} THEN 0 ELSE Cardinality(Memory!FreeIn(First(s))) + f[s \ {First(s)}]]

LEMMA SizeIsTotal == Memory!size = Total(FreeCounts, 0 .. Words - 1)
<1> DEFINE S == 0 .. Words - 1
<1>1. Memory!size = (CHOOSE f : AddsWords(f))[S]
  BY DEF Memory!size, Memory!MapThenSumSet, Memory!MapThenFoldSet, First, AddsWords,
         Memory!Cardinality, Cardinality
<1>2. IsFiniteSet(S)
  BY WordsAndBits, FS_Interval
<1>3. ASSUME NEW f PROVE SumFn(FreeCounts, S, f) <=> AddsWords(f)
  <2>1. \A s \in SUBSET S : s # {} => FreeCounts[First(s)] = Cardinality(Memory!FreeIn(First(s)))
    BY DEF First, FreeCounts
  <2> QED
    BY <2>1 DEF SumFn, AddsWords
<1> HIDE DEF S
<1>4. PICK h : h = (CHOOSE f : AddsWords(f))
  OBVIOUS
<1>5. PICK k : k = (CHOOSE f : SumFn(FreeCounts, S, f))
  OBVIOUS
<1>6. SumFn(FreeCounts, S, k)
  BY <1>2, <1>5, SumExists
<1>7. SumFn(FreeCounts, S, h)
  BY <1>3, <1>4, <1>6
<1>8. h = k
  BY <1>2, <1>6, <1>7, SumUnique
<1> QED
  BY <1>1, <1>4, <1>5, <1>8, TotalUnfolds DEF S

\* ... and the sum of what is held is taken over the blocks.
Held == [h \in held |-> h[2]]
AddsBlocks(f) ==
  f = [s \in SUBSET held |-> IF s = {} THEN 0 ELSE First(s)[2] + f[s \ {First(s)}]]

LEMMA HeldIsTotal ==
  ASSUME IsFiniteSet(held)
  PROVE  Memory!MapThenSumSet(LAMBDA h : h[2], held) = Total(Held, held)
<1>1. Memory!MapThenSumSet(LAMBDA h : h[2], held) = (CHOOSE f : AddsBlocks(f))[held]
  BY DEF Memory!MapThenSumSet, Memory!MapThenFoldSet, First, AddsBlocks
<1>2. ASSUME NEW f PROVE SumFn(Held, held, f) <=> AddsBlocks(f)
  <2>1. \A s \in SUBSET held : s # {} => Held[First(s)] = First(s)[2]
    BY DEF First, Held
  <2> QED
    BY <2>1 DEF SumFn, AddsBlocks
<1>3. PICK h : h = (CHOOSE f : AddsBlocks(f))
  OBVIOUS
<1>4. PICK k : k = (CHOOSE f : SumFn(Held, held, f))
  OBVIOUS
<1>5. SumFn(Held, held, k)
  BY <1>4, SumExists
<1>6. SumFn(Held, held, h)
  BY <1>2, <1>3, <1>5
<1>7. h = k
  BY <1>5, <1>6, SumUnique
<1> QED
  BY <1>1, <1>3, <1>4, <1>7, TotalUnfolds

LEMMA SizeIsFree ==
  ASSUME BitmapInv
  PROVE  Memory!size = Memory!Slices - Memory!MapThenSumSet(LAMBDA h : h[2], held)
<1>1. IsFiniteSet(held) /\ BlocksFit /\ BlocksApart /\ Memory!BitsAreHeld
  BY DEF BitmapInv
<1>2. Cardinality(Unused) = Total(FreeCounts, 0 .. Words - 1)
  <2> DEFINE S == 0 .. Words - 1
  <2> PICK A : A = [i \in S |-> Memory!FreeIn(i)]
    OBVIOUS
  <2>1. IsFiniteSet(S)
    BY WordsAndBits, FS_Interval
  <2>2. \A i \in S : IsFiniteSet(A[i])
    <3> SUFFICES ASSUME NEW i \in S PROVE IsFiniteSet(A[i])
      OBVIOUS
    <3>1. IsFiniteSet(Memory!InWord(i)) /\ Memory!FreeIn(i) \in SUBSET Memory!InWord(i)
      <4>1. i * Word \in Int /\ (i + 1) * Word - 1 \in Int
        BY WordsAndBits, Product
      <4> QED
        BY <4>1, FS_Interval DEF Memory!InWord, Memory!FreeIn
    <3> QED
      BY <3>1, FS_Subset
  <2>3. \A i, j \in S : i # j => A[i] \cap A[j] = {}
    <3> SUFFICES ASSUME NEW i \in S, NEW j \in S, i # j,
                        NEW x \in Memory!FreeIn(i), x \in Memory!FreeIn(j)
                 PROVE  FALSE
      OBVIOUS
    <3>1. i \in Int /\ j \in Int /\ i + 1 \in Int /\ j + 1 \in Int
      OBVIOUS
    <3>2. x \in Int /\ i * Word <= x /\ x < (i + 1) * Word
          /\ j * Word <= x /\ x < (j + 1) * Word
      BY <3>1, FreeInIs
    <3>3. i < j + 1 /\ j < i + 1
      BY <3>1, <3>2, InWords
    <3> QED
      BY <3>1, <3>3
  <2>4. UNION {A[i] : i \in S} = Unused
    <3>1. \A x : x \in Unused <=> \E i \in S : x \in A[i]
      BY FreeInWord
    <3> QED
      BY <3>1
  <2>5. FreeCounts = [i \in S |-> Cardinality(A[i])]
    BY DEF FreeCounts
  <2> HIDE DEF S
  <2>6. Cardinality(UNION {A[i] : i \in S}) = Total([i \in S |-> Cardinality(A[i])], S)
    BY <2>1, <2>2, <2>3, UnionCount
  <2> QED
    BY <2>4, <2>5, <2>6 DEF S
<1>3. Cardinality(mFreeBitMap) = Total(Held, held)
  <2> PICK A : A = [h \in held |-> {slice - 1 : slice \in Memory!Block(h)}]
    OBVIOUS
  <2>1. ASSUME NEW h \in held
        PROVE  /\ IsFiniteSet(A[h]) /\ Cardinality(A[h]) = h[2]
    <3>1. h[1] \in Nat \ {0} /\ h[2] \in Nat \ {0}
      BY <1>1, ProgramsAssumption DEF BlocksFit
    <3> DEFINE a == h[1]
               n == h[2]
    <3>2. A[h] = {slice - 1 : slice \in a .. a + n - 1}
      BY DEF Memory!Block
    <3> HIDE DEF a, n
    <3>3. a \in Nat /\ n \in Nat /\ n > 0
      BY <3>1 DEF a, n
    <3>4. A[h] = a - 1 .. a + n - 2
      <4>1. \A x \in a - 1 .. a + n - 2 : x + 1 \in a .. a + n - 1 /\ x = (x + 1) - 1
        BY <3>3
      <4>2. \A y \in a .. a + n - 1 : y - 1 \in a - 1 .. a + n - 2
        BY <3>3
      <4> QED
        BY <3>2, <4>1, <4>2
    <3>5. a - 1 \in Int /\ a + n - 2 \in Int
      BY <3>3
    <3>6. IsFiniteSet(A[h]) /\ Cardinality(A[h]) =
            IF a - 1 > a + n - 2 THEN 0 ELSE (a + n - 2) - (a - 1) + 1
      BY <3>4, <3>5, FS_Interval
    <3>7. Cardinality(A[h]) = n
      BY <3>3, <3>6
    <3> QED
      BY <3>6, <3>7 DEF n
  <2>2. ASSUME NEW g \in held, NEW h \in held, g # h PROVE A[g] \cap A[h] = {}
    <3>1. Memory!Block(g) \cap Memory!Block(h) = {}
      BY <1>1, <2>2 DEF BlocksApart
    <3>2. Memory!Block(g) \subseteq Int /\ Memory!Block(h) \subseteq Int
      BY <1>1 DEF BlocksFit, Memory!Block
    <3> HIDE DEF BitmapInv
    <3>3. ASSUME NEW x \in Memory!Block(g), NEW y \in Memory!Block(h), x - 1 = y - 1
          PROVE  FALSE
      <4>1. x \in Int /\ y \in Int
        BY <3>2
      <4>2. x = y
        BY <3>3, <4>1
      <4> QED
        BY <3>1, <4>2
    <3> QED
      BY <3>3
  <2>3. UNION {A[h] : h \in held} = mFreeBitMap
    BY <1>1 DEF Memory!BitsAreHeld
  <2>4. Held = [h \in held |-> Cardinality(A[h])]
    BY <2>1 DEF Held
  <2>5. \A h \in held : IsFiniteSet(A[h])
    BY <2>1
  <2>6. \A g, h \in held : g # h => A[g] \cap A[h] = {}
    BY <2>2
  <2>7. Cardinality(UNION {A[h] : h \in held})
          = Total([h \in held |-> Cardinality(A[h])], held)
    <3> PICK H : H = held
      OBVIOUS
    <3>1. IsFiniteSet(H) /\ \A h \in H : IsFiniteSet(A[h])
      BY <1>1, <2>5
    <3>2. \A g, h \in H : g # h => A[g] \cap A[h] = {}
      BY <2>6
    <3>3. Cardinality(UNION {A[h] : h \in H}) = Total([h \in H |-> Cardinality(A[h])], H)
      BY ONLY <3>1, <3>2, UnionCount
    <3> QED
      BY <3>3
  <2> QED
    BY <2>3, <2>4, <2>7
<1>4. mFreeBitMap \subseteq Memory!Bits
  <2> SUFFICES ASSUME NEW h \in held, NEW x \in Memory!Block(h) PROVE x - 1 \in Memory!Bits
    BY <1>1 DEF Memory!BitsAreHeld
  <2>1. h[1] \in Nat \ {0} /\ h[2] \in Nat \ {0} /\ h[1] + h[2] - 1 <= Memory!Slices
        /\ Memory!Slices \in Nat
    BY <1>1, ProgramsAssumption, WordsAndBits DEF BlocksFit
  <2>2. x \in h[1] .. h[1] + h[2] - 1
    BY DEF Memory!Block
  <2> QED
    BY <2>1, <2>2 DEF Memory!Bits
<1>5. IsFiniteSet(Memory!Bits) /\ Cardinality(Memory!Bits) = Memory!Slices
      /\ Memory!Slices \in Nat
  <2>1. Memory!Slices \in Nat \ {0} /\ Memory!Slices - 1 \in Int
    BY WordsAndBits
  <2>2. IsFiniteSet(0 .. Memory!Slices - 1) /\ Cardinality(0 .. Memory!Slices - 1) =
          IF 0 > Memory!Slices - 1 THEN 0 ELSE (Memory!Slices - 1) - 0 + 1
    BY <2>1, FS_Interval
  <2> QED
    BY <2>1, <2>2 DEF Memory!Bits
<1>6. Cardinality(Unused) = Cardinality(Memory!Bits) - Cardinality(mFreeBitMap)
  <2>1. Memory!Bits \cap mFreeBitMap = mFreeBitMap
    BY <1>4
  <2> QED
    BY <1>5, <2>1, FS_Difference DEF Unused
<1>7. Cardinality(mFreeBitMap) \in Nat
  BY <1>4, <1>5, FS_Subset, FS_CardinalityType
<1> QED
  BY <1>1, <1>2, <1>3, <1>5, <1>6, <1>7, SizeIsTotal, HeldIsTotal

LEMMA BitmapGives == BitmapInv => Memory!BitsAreHeld /\ Memory!FindsFirstFit
<1> SUFFICES ASSUME BitmapInv PROVE Memory!BitsAreHeld /\ Memory!FindsFirstFit
  OBVIOUS
<1>1. Memory!BitsAreHeld
  BY DEF BitmapInv
<1>2. ASSUME NEW slices \in Wanted
      PROVE  LET fits == {nr \in 0 .. Memory!Slices - slices :
                            nr .. nr + slices - 1 \subseteq Memory!Bits \ mFreeBitMap}
             IN  Memory!Find(slices) = IF fits = {} THEN 0 ELSE Memory!Min(fits) + 1
  <2>1. slices \in Nat \ {0}
    BY ProgramsAssumption
  <2> QED
    BY <2>1, FindFits DEF Fits, Unused
<1>3. Memory!FindsFirstFit
  BY <1>2, OneFits, SizeIsFree DEF Memory!FindsFirstFit
<1> QED
  BY <1>1, <1>3

(***************************************************************************)
(* The allocators are pools                                                *)
(***************************************************************************)

LEMMA BitmapPoolInit == ProgramsInit => Memory!SlicePool!Init
<1> SUFFICES ASSUME Memory!BitmapInit PROVE Memory!SlicePool!Init
  BY DEF ProgramsInit
<1> QED
  BY DEF Memory!BitmapInit, Memory!SlicePool!Init

LEMMA BitmapPoolStep ==
  BitmapInv /\ [Memory!BitmapNext]_bitmapVars =>
    [Memory!SlicePool!Next]_{Memory!Block(h) : h \in held}
<1> DEFINE live == {Memory!Block(h) : h \in held}
<1> SUFFICES ASSUME BitmapInv, [Memory!BitmapNext]_bitmapVars
             PROVE  Memory!SlicePool!Next \/ live' = live
  BY DEF Memory!Block
<1>0. live' = {Memory!Block(h) : h \in held'}
  BY DEF Memory!Block
<1>1. CASE \E n \in Wanted : Memory!BitmapAcquire(n)
  <2>1. PICK n \in Wanted : Memory!BitmapAcquire(n)
    BY <1>1
  <2>2. PICK begin \in Nat \ {0} :
           /\ begin + n - 1 <= Memory!Slices /\ n \in Nat \ {0}
           /\ begin - 1 .. begin + n - 2 \subseteq Unused
           /\ mFreeBitMap' = mFreeBitMap \cup (begin - 1 .. begin + n - 2)
           /\ held' = held \cup {<<begin, n>>}
           /\ Memory!Block(<<begin, n>>) = begin .. begin + n - 1
           /\ \A h \in held : Memory!Block(<<begin, n>>) \cap Memory!Block(h) = {}
    BY <2>1, AcquireTakes
  <2> DEFINE block == Memory!Block(<<begin, n>>)
  <2>3. block \subseteq 1 .. Memory!Slices /\ begin \in block
    BY <2>2, WordsAndBits
  <2>4. live' = live \cup {block}
    BY <1>0, <2>2
  <2>5. \A other \in live : block \cap other = {}
    BY <2>2
  <2> HIDE DEF block, live
  <2>6. block \in (SUBSET (1 .. Memory!Slices)) \ {{}}
    BY <2>3
  <2>7. Memory!SlicePool!Acquire(block)
    BY <2>4, <2>5, <2>6 DEF Memory!SlicePool!Acquire, live, Memory!Block
  <2>8. block \in live \cup live'
    BY <2>4
  <2> QED
    BY <2>7, <2>8 DEF Memory!SlicePool!Next, live, Memory!Block
<1>2. CASE \E h \in held : Memory!BitmapRelease(h[1], h[2])
  <2>1. PICK b \in held : Memory!BitmapRelease(b[1], b[2])
    BY <1>2
  <2>2. \A h \in held : h = <<h[1], h[2]>> /\ h[1] \in Nat \ {0} /\ h[2] \in Nat \ {0}
    BY ProgramsAssumption DEF BitmapInv, BlocksFit
  <2>3. held' = held \ {b}
    BY <2>1, <2>2 DEF Memory!BitmapRelease
  <2>4. \A h \in held : h[1] \in Memory!Block(h)
    BY <2>2 DEF Memory!Block
  <2>5. \A h \in held : h # b => Memory!Block(h) # Memory!Block(b)
    BY <2>4 DEF BitmapInv, BlocksApart
  <2>6. live' = live \ {Memory!Block(b)} /\ Memory!Block(b) \in live
    BY <1>0, <2>3, <2>5
  <2> HIDE DEF live
  <2>7. Memory!SlicePool!Release(Memory!Block(b))
    BY <2>6 DEF Memory!SlicePool!Release, live, Memory!Block
  <2>8. Memory!Block(b) \in live \cup live'
    BY <2>6
  <2> QED
    BY <2>7, <2>8 DEF Memory!SlicePool!Next, live, Memory!Block
<1>3. CASE UNCHANGED bitmapVars
  BY <1>0, <1>3 DEF bitmapVars
<1> QED
  BY <1>1, <1>2, <1>3 DEF Memory!BitmapNext

(***************************************************************************)
(* The pool of orders                                                      *)
(***************************************************************************)

\* The objects from mSize on are nobody's, each of them once.
OrdersInv ==
  /\ FreeSlots \in [Memory!Objects -> Memory!Objects]
  /\ IsFiniteSet(out) /\ out \subseteq Memory!Objects
  /\ mSize \in Nat /\ mSize <= Capacity /\ Cardinality(out) = mSize
  /\ \A i \in Memory!Objects : mSize <= i => FreeSlots[i] \notin out
  /\ \A i, j \in Memory!Objects :
       mSize <= i /\ mSize <= j /\ FreeSlots[i] = FreeSlots[j] => i = j

LEMMA OrdersInit == ProgramsInit => OrdersInv /\ Memory!ObjectPool!Init
<1> SUFFICES ASSUME Memory!PoolInit PROVE OrdersInv /\ Memory!ObjectPool!Init
  BY DEF ProgramsInit
<1>1. FreeSlots = [i \in Memory!Objects |-> i] /\ mSize = 0 /\ out = {}
  BY DEF Memory!PoolInit
<1>2. OrdersInv
  BY <1>1, FS_EmptySet, ProgramsAssumption DEF OrdersInv
<1> QED
  BY <1>1, <1>2 DEF Memory!ObjectPool!Init

LEMMA AllocateTakes ==
  ASSUME OrdersInv, Memory!allocate
  PROVE  /\ OrdersInv'
         /\ \E x \in Memory!Objects \ out : out' = out \cup {x}
<1>1. /\ mSize # Capacity /\ out' = out \cup {FreeSlots[mSize]} /\ mSize' = mSize + 1
      /\ FreeSlots' = FreeSlots
  BY DEF Memory!allocate, Memory!full
<1>2. mSize \in Nat /\ mSize < Capacity /\ mSize \in Memory!Objects
  BY <1>1, ProgramsAssumption DEF OrdersInv, Memory!Objects
<1> DEFINE x == FreeSlots[mSize]
<1>3. x \in Memory!Objects \ out
  BY <1>2 DEF OrdersInv
<1>4. IsFiniteSet(out') /\ Cardinality(out') = mSize'
  <2> HIDE DEF x
  <2>1. out' = out \cup {x}
    BY <1>1 DEF x
  <2> QED
    BY <1>1, <1>3, <2>1, FS_AddElement DEF OrdersInv
<1>5. \A i \in Memory!Objects : mSize' <= i => FreeSlots'[i] \notin out'
  <2> SUFFICES ASSUME NEW i \in Memory!Objects, mSize + 1 <= i PROVE FreeSlots[i] \notin out \cup {x}
    BY <1>1
  <2>1. i \in Int /\ mSize <= i /\ i # mSize
    BY <1>2, ProgramsAssumption DEF Memory!Objects
  <2> QED
    BY <1>2, <2>1 DEF OrdersInv
<1>6. \A i, j \in Memory!Objects :
        mSize' <= i /\ mSize' <= j /\ FreeSlots'[i] = FreeSlots'[j] => i = j
  <2> SUFFICES ASSUME NEW i \in Memory!Objects, NEW j \in Memory!Objects,
                      mSize + 1 <= i, mSize + 1 <= j, FreeSlots[i] = FreeSlots[j]
               PROVE  i = j
    BY <1>1
  <2>1. i \in Int /\ j \in Int /\ mSize <= i /\ mSize <= j
    BY <1>2, ProgramsAssumption DEF Memory!Objects
  <2> QED
    BY <2>1 DEF OrdersInv
<1>7. OrdersInv'
  <2>1. mSize' \in Nat /\ mSize' <= Capacity
    BY <1>1, <1>2, ProgramsAssumption
  <2>2. FreeSlots' \in [Memory!Objects -> Memory!Objects] /\ out' \subseteq Memory!Objects
    BY <1>1, <1>3 DEF OrdersInv
  <2> QED
    BY <1>4, <1>5, <1>6, <2>1, <2>2 DEF OrdersInv
<1> QED
  BY <1>1, <1>3, <1>7

LEMMA DeallocateReturns ==
  ASSUME OrdersInv, NEW ptr \in out, Memory!deallocate(ptr)
  PROVE  OrdersInv' /\ out' = out \ {ptr}
<1>1. /\ mSize' = mSize - 1 /\ FreeSlots' = [FreeSlots EXCEPT ![mSize - 1] = ptr]
      /\ out' = out \ {ptr}
  BY DEF Memory!deallocate, Memory!Returned
<1>2. ptr \in Memory!Objects
  BY DEF OrdersInv
<1>3. IsFiniteSet(out') /\ Cardinality(out') = mSize - 1 /\ mSize \in Nat
      /\ Cardinality(out') \in Nat
  <2>1. IsFiniteSet(out') /\ Cardinality(out') = Cardinality(out) - 1
    BY <1>1, FS_RemoveElement DEF OrdersInv
  <2> QED
    BY <2>1, FS_CardinalityType DEF OrdersInv
<1>4. mSize - 1 \in Nat /\ mSize - 1 < Capacity /\ mSize - 1 \in Memory!Objects
  BY <1>3, ProgramsAssumption DEF OrdersInv, Memory!Objects
<1>5. FreeSlots'[mSize - 1] = ptr
      /\ \A i \in Memory!Objects : i # mSize - 1 => FreeSlots'[i] = FreeSlots[i]
  BY <1>1, <1>4 DEF OrdersInv
<1>6. \A i \in Memory!Objects : mSize - 1 <= i => i = mSize - 1 \/ mSize <= i
  BY <1>3, ProgramsAssumption DEF Memory!Objects
<1>7. \A i \in Memory!Objects : mSize' <= i => FreeSlots'[i] \notin out'
  BY <1>1, <1>5, <1>6 DEF OrdersInv
<1>8. \A i, j \in Memory!Objects :
        mSize' <= i /\ mSize' <= j /\ FreeSlots'[i] = FreeSlots'[j] => i = j
  BY <1>1, <1>5, <1>6 DEF OrdersInv
<1>9. FreeSlots' \in [Memory!Objects -> Memory!Objects]
  BY <1>1, <1>2, <1>4 DEF OrdersInv
<1>10. OrdersInv'
  <2>1. mSize' \in Nat /\ mSize' <= Capacity
    BY <1>1, <1>4, ProgramsAssumption
  <2>2. out' \subseteq Memory!Objects
    BY <1>1 DEF OrdersInv
  <2>3. IsFiniteSet(out)' /\ Cardinality(out)' = mSize'
    BY <1>1, <1>3
  <2> QED
    BY <1>7, <1>8, <1>9, <2>1, <2>2, <2>3 DEF OrdersInv
<1> QED
  BY <1>1, <1>10

LEMMA OrdersStep ==
  OrdersInv /\ [Memory!PoolNext]_poolVars =>
    /\ OrdersInv'
    /\ [Memory!ObjectPool!Next]_{{ptr} : ptr \in out}
    /\ [mSize' # mSize => out' # out]_<<FreeSlots, mSize, out>>
<1> DEFINE live == {{ptr} : ptr \in out}
<1> SUFFICES ASSUME OrdersInv, [Memory!PoolNext]_poolVars
             PROVE  /\ OrdersInv' /\ (Memory!ObjectPool!Next \/ live' = live)
                    /\ mSize' # mSize => out' # out
  OBVIOUS
<1>1. CASE Memory!allocate
  <2>1. PICK x \in Memory!Objects \ out : out' = out \cup {x}
    BY <1>1, AllocateTakes
  <2>2. live' = live \cup {{x}}
    BY <2>1
  <2>3. \A other \in live : {x} \cap other = {}
    BY <2>1
  <2>4. {x} \in (SUBSET Memory!Objects) \ {{}}
    BY <2>1
  <2> HIDE DEF live
  <2>5. Memory!ObjectPool!Acquire({x})
    BY <2>2, <2>3, <2>4 DEF Memory!ObjectPool!Acquire, live
  <2>6. Memory!ObjectPool!Next
    BY <2>2, <2>5 DEF Memory!ObjectPool!Next, live
  <2> QED
    BY <1>1, <2>1, <2>6, AllocateTakes
<1>2. CASE \E ptr \in out : Memory!deallocate(ptr)
  <2>1. PICK ptr \in out : Memory!deallocate(ptr)
    BY <1>2
  <2>2. OrdersInv' /\ out' = out \ {ptr}
    BY <2>1, DeallocateReturns
  <2>3. live' = live \ {{ptr}} /\ {ptr} \in live
    BY <2>2
  <2> HIDE DEF live
  <2>4. Memory!ObjectPool!Release({ptr})
    BY <2>3 DEF Memory!ObjectPool!Release, live
  <2>5. Memory!ObjectPool!Next
    BY <2>3, <2>4 DEF Memory!ObjectPool!Next, live
  <2> QED
    BY <2>2, <2>5
<1>3. CASE UNCHANGED poolVars
  BY <1>3 DEF poolVars, OrdersInv, Memory!Objects
<1> QED
  BY <1>1, <1>2, <1>3 DEF Memory!PoolNext

(***************************************************************************)
(* The stacks of slots                                                     *)
(***************************************************************************)

Slots == 0 .. Elements - 1

\* The slots of each order are on its stack once or taken.
OnStack(o, k) == \E i \in 1 .. Len(mFreeSlots[o]) : mFreeSlots[o][i] = k
StackOf(o) ==
  /\ mFreeSlots[o] \in Seq(Slots)
  /\ \A i, j \in 1 .. Len(mFreeSlots[o]) : mFreeSlots[o][i] = mFreeSlots[o][j] => i = j
  /\ taken[o] = {k * Bytes[o] : k \in {l \in Slots : ~OnStack(o, l)}}
StacksInv ==
  /\ DOMAIN mFreeSlots = 0 .. 1 /\ DOMAIN taken = 0 .. 1
  /\ \A o \in 0 .. 1 : StackOf(o)

\* The bytes of what the users have of an order
Live(o) == {ptr .. ptr + Bytes[o] - 1 : ptr \in taken[o]}

LEMMA SlotsApart ==
  ASSUME NEW o \in 0 .. 1, NEW k \in Slots, NEW l \in Slots
  PROVE  /\ Bytes[o] \in Nat \ {0} /\ k \in Nat /\ k < 65536
         /\ k * Bytes[o] \in Nat /\ k * Bytes[o] + Bytes[o] <= Elements * Bytes[o]
         /\ Elements * Bytes[o] \in Nat
         /\ k < l => k * Bytes[o] + Bytes[o] <= l * Bytes[o]
         /\ Memory!ToSlot(o, k * Bytes[o]) = k
<1> DEFINE b == Bytes[o]
<1>1. b \in Nat \ {0} /\ Elements \in Nat /\ Elements <= 65536
  BY ProgramsAssumption
<1>2. k \in Nat /\ k < Elements /\ l \in Nat
  BY <1>1 DEF Slots
<1> HIDE DEF b
<1>3. ASSUME NEW m \in Nat, k < m PROVE k * b + b <= m * b
  <2>1. PICK d \in Nat : m = k + 1 + d
    <3>1. m - k - 1 \in Nat /\ m = k + 1 + (m - k - 1)
      BY <1>2, <1>3
    <3> QED
      BY <3>1
  <2>2. m * b = k * b + b + d * b /\ d * b \in Nat /\ k * b \in Nat
    BY <1>1, <1>2, <2>1
  <2> QED
    BY <1>1, <2>2
<1>4. k * b \in Nat /\ Elements * b \in Nat
  BY <1>1, <1>2
<1>5. (k * b) \div b = k
  <2> DEFINE q == (k * b) \div b
             r == (k * b) % b
             p == k * b
  <2>1. p \in Nat /\ b \in Nat /\ b > 0
    BY <1>1, <1>4
  <2> HIDE DEF p
  <2>2. q \in Nat /\ r \in Nat /\ r < b /\ p = q * b + r
    <3> SUFFICES /\ p \div b \in Nat /\ p % b \in Nat /\ p % b < b
                 /\ p = (p \div b) * b + (p % b)
      BY DEF p
    <3> QED
      BY <2>1
  <2> HIDE DEF q, r
  <2>3. CASE k < q
    <3>1. p + b <= q * b
      BY <1>3, <2>2, <2>3 DEF p
    <3>2. q * b \in Nat
      BY <2>1, <2>2
    <3> HIDE DEF p
    <3> QED
      BY <2>1, <2>2, <3>1, <3>2
  <2>4. CASE q < k
    <3>1. PICK d \in Nat : k = q + 1 + d
      <4>1. k - q - 1 \in Nat /\ k = q + 1 + (k - q - 1)
        BY <1>2, <2>2, <2>4
      <4> QED
        BY <4>1
    <3>2. p = q * b + b + d * b /\ d * b \in Nat /\ q * b \in Nat
      BY <1>1, <2>2, <3>1 DEF p
    <3> QED
      BY <2>1, <2>2, <3>2
  <2>5. CASE q = k
    BY <2>5 DEF q
  <2> QED
    BY <1>2, <2>2, <2>3, <2>4, <2>5
<1>6. k < 65536 /\ k % 65536 = k
  BY <1>1, <1>2
<1>7. Memory!ToSlot(o, k * b) = k
  BY <1>5, <1>6 DEF Memory!ToSlot, b
<1> QED
  BY <1>1, <1>2, <1>3, <1>4, <1>6, <1>7 DEF b

LEMMA SameSlot ==
  ASSUME NEW o \in 0 .. 1, NEW k \in Slots, NEW l \in Slots, k * Bytes[o] = l * Bytes[o]
  PROVE  k = l
  BY SlotsApart

LEMMA StacksInit == ProgramsInit => StacksInv /\ Live(0) = {} /\ Live(1) = {}
<1> SUFFICES ASSUME Memory!StackInit PROVE StacksInv /\ Live(0) = {} /\ Live(1) = {}
  BY DEF ProgramsInit
<1>1. /\ mFreeSlots = [o \in 0 .. 1 |-> [i \in 1 .. Elements |-> Elements - i]]
      /\ taken = [o \in 0 .. 1 |-> {}]
  BY DEF Memory!StackInit, Memory!Orders
<1>2. ASSUME NEW o \in 0 .. 1 PROVE StackOf(o)
  <2> DEFINE s == [i \in 1 .. Elements |-> Elements - i]
  <2>1. Elements \in Nat
    BY ProgramsAssumption
  <2>2. \A i \in 1 .. Elements : Elements - i \in Slots
    BY <2>1 DEF Slots
  <2>3. s \in Seq(Slots) /\ Len(s) = Elements
    BY <2>1, <2>2
  <2>4. mFreeSlots[o] = s
    BY <1>1
  <2>5. \A k \in Slots : OnStack(o, k)
    <3> SUFFICES ASSUME NEW k \in Slots PROVE OnStack(o, k)
      OBVIOUS
    <3>1. Elements - k \in 1 .. Elements /\ Elements - (Elements - k) = k
      BY <2>1 DEF Slots
    <3> QED
      BY <2>3, <2>4, <3>1 DEF OnStack
  <2>6. \A i, j \in 1 .. Elements : s[i] = s[j] => i = j
    BY <2>1
  <2> HIDE DEF s
  <2>7. taken[o] = {}
    BY <1>1
  <2> QED
    BY <2>3, <2>4, <2>5, <2>6, <2>7 DEF StackOf
<1>3. StacksInv
  BY <1>1, <1>2 DEF StacksInv
<1> QED
  BY <1>1, <1>3 DEF Live

\* Popping a slot takes an object that nobody has.
LEMMA StackPops ==
  ASSUME StacksInv, NEW o \in 0 .. 1, Memory!StackAcquire(o)
  PROVE  \E k \in Slots :
           /\ k * Bytes[o] \notin taken[o]
           /\ taken' = [taken EXCEPT ![o] = @ \cup {k * Bytes[o]}]
           /\ StacksInv'
<1> DEFINE s == mFreeSlots[o]
           n == Len(s)
           k == s[n]
           short == SubSeq(s, 1, n - 1)
<1>1. /\ n # 0 /\ taken' = [taken EXCEPT ![o] = @ \cup {k * Bytes[o]}]
      /\ mFreeSlots' = [mFreeSlots EXCEPT ![o] = short]
  BY DEF Memory!StackAcquire, Memory!ToAddr
<1>2. s \in Seq(Slots) /\ \A i, j \in 1 .. n : s[i] = s[j] => i = j
  BY DEF StacksInv, StackOf
<1>3. taken[o] = {l * Bytes[o] : l \in {m \in Slots : ~OnStack(o, m)}}
  BY DEF StacksInv, StackOf
<1>4. n \in Nat \ {0} /\ n \in 1 .. n /\ k \in Slots
  BY <1>1, <1>2
<1>5. /\ short \in Seq(Slots) /\ Len(short) = n - 1
      /\ \A i \in 1 .. n - 1 : short[i] = s[i] /\ i \in 1 .. n /\ i # n
  BY <1>2, <1>4
<1>6. mFreeSlots'[o] = short /\ taken'[o] = taken[o] \cup {k * Bytes[o]}
      /\ \A p \in (0 .. 1) \ {o} : mFreeSlots'[p] = mFreeSlots[p] /\ taken'[p] = taken[p]
      /\ DOMAIN mFreeSlots' = 0 .. 1 /\ DOMAIN taken' = 0 .. 1
  BY <1>1 DEF StacksInv
<1> HIDE DEF k, short, n, s
<1>7. OnStack(o, k)
  BY <1>4 DEF OnStack, k, n, s
<1>8. k * Bytes[o] \notin taken[o]
  <2> SUFFICES ASSUME NEW l \in Slots, ~OnStack(o, l), k * Bytes[o] = l * Bytes[o] PROVE FALSE
    BY <1>3
  <2> QED
    BY <1>4, <1>7, SameSlot
<1>9. \A l \in Slots : OnStack(o, l)' <=> OnStack(o, l) /\ l # k
  <2> SUFFICES ASSUME NEW l \in Slots PROVE OnStack(o, l)' <=> OnStack(o, l) /\ l # k
    OBVIOUS
  <2>1. OnStack(o, l) <=> \E i \in 1 .. n : s[i] = l
    BY DEF OnStack, n, s
  <2>2. OnStack(o, l)' <=> \E i \in 1 .. n - 1 : s[i] = l
    BY <1>5, <1>6 DEF OnStack
  <2>3. (\E i \in 1 .. n - 1 : s[i] = l) <=> (\E i \in 1 .. n : s[i] = l) /\ l # k
    <3>1. \A i \in 1 .. n : i = n \/ i \in 1 .. n - 1
      BY <1>4
    <3> QED
      BY <1>2, <1>4, <1>5, <3>1 DEF k
  <2> QED
    BY <2>1, <2>2, <2>3
<1>10. StackOf(o)'
  <2>1. taken'[o] = {l * Bytes[o] : l \in {m \in Slots : ~OnStack(o, m)'}}
    BY <1>3, <1>4, <1>6, <1>9
  <2>2. \A i, j \in 1 .. n - 1 : short[i] = short[j] => i = j
    BY <1>2, <1>5
  <2> QED
    BY <1>5, <1>6, <2>1, <2>2 DEF StackOf
<1>11. \A p \in (0 .. 1) \ {o} : StackOf(p)'
  <2> SUFFICES ASSUME NEW p \in (0 .. 1) \ {o} PROVE StackOf(p)'
    OBVIOUS
  <2>1. StackOf(p)
    BY DEF StacksInv
  <2> QED
    BY <1>6, <2>1 DEF StackOf, OnStack
<1>12. StacksInv'
  BY <1>6, <1>10, <1>11 DEF StacksInv
<1> QED
  BY <1>1, <1>4, <1>8, <1>12

\* Pushing the slot of an object gives the object back.
LEMMA StackPushes ==
  ASSUME StacksInv, NEW o \in 0 .. 1, NEW ptr \in taken[o], Memory!StackRelease(o, ptr)
  PROVE  StacksInv' /\ taken' = [taken EXCEPT ![o] = @ \ {ptr}]
<1> DEFINE s == mFreeSlots[o]
           n == Len(s)
<1>1. taken[o] = {l * Bytes[o] : l \in {m \in Slots : ~OnStack(o, m)}}
  BY DEF StacksInv, StackOf
<1>2. PICK k \in Slots : ~OnStack(o, k) /\ ptr = k * Bytes[o]
  BY <1>1
<1> DEFINE long == Append(s, k)
<1>3. /\ mFreeSlots' = [mFreeSlots EXCEPT ![o] = long]
      /\ taken' = [taken EXCEPT ![o] = @ \ {ptr}]
  <2>1. Memory!ToSlot(o, ptr) = k
    BY <1>2, SlotsApart
  <2> QED
    BY <2>1 DEF Memory!StackRelease
<1>4. s \in Seq(Slots) /\ \A i, j \in 1 .. n : s[i] = s[j] => i = j
  BY DEF StacksInv, StackOf
<1>5. /\ long \in Seq(Slots) /\ Len(long) = n + 1 /\ long[n + 1] = k /\ n \in Nat
      /\ \A i \in 1 .. n : long[i] = s[i]
  BY <1>4
<1>6. mFreeSlots'[o] = long /\ taken'[o] = taken[o] \ {ptr}
      /\ \A p \in (0 .. 1) \ {o} : mFreeSlots'[p] = mFreeSlots[p] /\ taken'[p] = taken[p]
      /\ DOMAIN mFreeSlots' = 0 .. 1 /\ DOMAIN taken' = 0 .. 1
  BY <1>3 DEF StacksInv
<1> HIDE DEF long, n, s
<1>7. \A i \in 1 .. n + 1 : i = n + 1 \/ i \in 1 .. n
  BY <1>5
<1>8. \A l \in Slots : OnStack(o, l)' <=> OnStack(o, l) \/ l = k
  <2> SUFFICES ASSUME NEW l \in Slots PROVE OnStack(o, l)' <=> OnStack(o, l) \/ l = k
    OBVIOUS
  <2>1. OnStack(o, l) <=> \E i \in 1 .. n : s[i] = l
    BY DEF OnStack, n, s
  <2>2. OnStack(o, l)' <=> \E i \in 1 .. n + 1 : long[i] = l
    BY <1>5, <1>6 DEF OnStack
  <2>3. n + 1 \in 1 .. n + 1 /\ \A i \in 1 .. n : i \in 1 .. n + 1
    BY <1>5
  <2> QED
    BY <1>5, <1>7, <2>1, <2>2, <2>3
<1>9. StackOf(o)'
  <2>1. \A l \in Slots : l * Bytes[o] = ptr => l = k
    BY <1>2, SameSlot
  <2>2. taken'[o] = {l * Bytes[o] : l \in {m \in Slots : ~OnStack(o, m)'}}
    BY <1>1, <1>2, <1>6, <1>8, <2>1
  <2>3. \A i \in 1 .. n : s[i] # k
    BY <1>2 DEF OnStack, n, s
  <2>4. \A i, j \in 1 .. n + 1 : long[i] = long[j] => i = j
    BY <1>4, <1>5, <1>7, <2>3
  <2> QED
    BY <1>5, <1>6, <2>2, <2>4 DEF StackOf
<1>10. \A p \in (0 .. 1) \ {o} : StackOf(p)'
  <2> SUFFICES ASSUME NEW p \in (0 .. 1) \ {o} PROVE StackOf(p)'
    OBVIOUS
  <2>1. StackOf(p)
    BY DEF StacksInv
  <2> QED
    BY <1>6, <2>1 DEF StackOf, OnStack
<1>11. StacksInv'
  BY <1>6, <1>9, <1>10 DEF StacksInv
<1> QED
  BY <1>3, <1>11

\* An order takes a step of a pool when it is its turn, and none otherwise.
PoolStep(o) ==
  \/ Live(o)' = Live(o)
  \/ \E block \in Live(o) \cup Live(o)' :
       \/ /\ block \in (SUBSET (0 .. Elements * Bytes[o] - 1)) \ {{}}
          /\ \A other \in Live(o) : block \cap other = {}
          /\ Live(o)' = Live(o) \cup {block}
       \/ block \in Live(o) /\ Live(o)' = Live(o) \ {block}

LEMMA StacksStep ==
  StacksInv /\ [Memory!StackNext]_stackVars =>
    /\ StacksInv' /\ PoolStep(0) /\ PoolStep(1)
    /\ [mFreeSlots' # mFreeSlots => taken' # taken]_<<mFreeSlots, taken>>
<1> SUFFICES ASSUME StacksInv, [Memory!StackNext]_stackVars
             PROVE  /\ StacksInv' /\ \A o \in 0 .. 1 : PoolStep(o)
                    /\ mFreeSlots' # mFreeSlots => taken' # taken
  OBVIOUS
<1>1. DOMAIN taken = 0 .. 1
  BY DEF StacksInv
<1>2. ASSUME NEW o \in 0 .. 1, NEW ptr \in taken[o]
      PROVE  \E k \in Slots : ptr = k * Bytes[o]
  BY <1>2 DEF StacksInv, StackOf
<1>3. ASSUME NEW o \in 0 .. 1, NEW k \in Slots, NEW l \in Slots, k # l
      PROVE  (k * Bytes[o] .. k * Bytes[o] + Bytes[o] - 1)
               \cap (l * Bytes[o] .. l * Bytes[o] + Bytes[o] - 1) = {}
  <2> DEFINE a == k * Bytes[o]
             c == l * Bytes[o]
             b == Bytes[o]
  <2>1. a \in Nat /\ c \in Nat /\ b \in Nat \ {0} /\ (a + b <= c \/ c + b <= a)
    <3>1. k \in Int /\ l \in Int
      BY ProgramsAssumption DEF Slots
    <3> QED
      BY <1>3, <3>1, SlotsApart
  <2> HIDE DEF a, b, c
  <2>2. (a .. a + b - 1) \cap (c .. c + b - 1) = {}
    BY <2>1
  <2> QED
    BY <2>2 DEF a, b, c
<1>4. ASSUME NEW o \in 0 .. 1, Memory!StackAcquire(o)
      PROVE  /\ StacksInv' /\ \A p \in 0 .. 1 : PoolStep(p)
             /\ taken' # taken
  <2>1. PICK k \in Slots :
           /\ k * Bytes[o] \notin taken[o]
           /\ taken' = [taken EXCEPT ![o] = @ \cup {k * Bytes[o]}]
           /\ StacksInv'
    BY <1>4, StackPops
  <2> DEFINE a == k * Bytes[o]
             block == a .. a + Bytes[o] - 1
  <2>2. taken'[o] = taken[o] \cup {a} /\ \A p \in (0 .. 1) \ {o} : taken'[p] = taken[p]
    BY <1>1, <2>1
  <2>3. \A p \in (0 .. 1) \ {o} : PoolStep(p)
    BY <2>2 DEF PoolStep, Live
  <2>4. Live(o)' = Live(o) \cup {block}
    BY <2>2 DEF Live
  <2>5. \A other \in Live(o) : block \cap other = {}
    <3> SUFFICES ASSUME NEW ptr \in taken[o]
                 PROVE  block \cap (ptr .. ptr + Bytes[o] - 1) = {}
      BY DEF Live
    <3>1. PICK l \in Slots : ptr = l * Bytes[o]
      BY <1>2
    <3>2. k # l
      BY <2>1, <3>1
    <3> QED
      BY <1>3, <3>1, <3>2
  <2>6. block \in (SUBSET (0 .. Elements * Bytes[o] - 1)) \ {{}}
    <3> DEFINE b == Bytes[o]
               top == Elements * Bytes[o]
    <3>1. a \in Nat /\ b \in Nat \ {0} /\ top \in Nat /\ a + b <= top
      BY SlotsApart
    <3> HIDE DEF a, b, top
    <3>2. a \in a .. a + b - 1 /\ a .. a + b - 1 \subseteq 0 .. top - 1
      BY <3>1
    <3> QED
      BY <3>2 DEF b, top
  <2> HIDE DEF block
  <2>7. PoolStep(o)
    BY <2>4, <2>5, <2>6 DEF PoolStep
  <2>8. taken' # taken
    BY <2>1, <2>2
  <2> QED
    BY <2>1, <2>3, <2>7, <2>8
<1>5. ASSUME NEW o \in 0 .. 1, NEW ptr \in taken[o], Memory!StackRelease(o, ptr)
      PROVE  /\ StacksInv' /\ \A p \in 0 .. 1 : PoolStep(p)
             /\ taken' # taken
  <2>1. StacksInv' /\ taken' = [taken EXCEPT ![o] = @ \ {ptr}]
    BY <1>5, StackPushes
  <2> DEFINE block == ptr .. ptr + Bytes[o] - 1
  <2>2. taken'[o] = taken[o] \ {ptr} /\ \A p \in (0 .. 1) \ {o} : taken'[p] = taken[p]
    BY <1>1, <2>1
  <2>3. \A p \in (0 .. 1) \ {o} : PoolStep(p)
    BY <2>2 DEF PoolStep, Live
  <2>4. \A q \in taken[o] : q # ptr => q .. q + Bytes[o] - 1 # block
    <3> SUFFICES ASSUME NEW q \in taken[o], q # ptr PROVE q .. q + Bytes[o] - 1 # block
      OBVIOUS
    <3>1. PICK k \in Slots : ptr = k * Bytes[o]
      BY <1>2
    <3>2. PICK l \in Slots : q = l * Bytes[o]
      BY <1>2
    <3>3. (q .. q + Bytes[o] - 1) \cap block = {}
      BY <1>3, <3>1, <3>2
    <3>4. q \in q .. q + Bytes[o] - 1
      <4>1. q \in Nat /\ Bytes[o] \in Nat \ {0}
        BY <3>2, SlotsApart
      <4> QED
        BY <4>1
    <3> QED
      BY <3>3, <3>4
  <2> HIDE DEF block
  <2>5. Live(o)' = Live(o) \ {block} /\ block \in Live(o)
    BY <2>2, <2>4 DEF Live, block
  <2>6. PoolStep(o)
    BY <2>5 DEF PoolStep
  <2>7. taken' # taken
    BY <2>2
  <2> QED
    BY <2>1, <2>3, <2>6, <2>7
<1>6. CASE UNCHANGED stackVars
  BY <1>6 DEF stackVars, StacksInv, StackOf, OnStack, PoolStep, Live
<1> QED
  BY <1>4, <1>5, <1>6 DEF Memory!StackNext, Memory!Orders

LEMMA StacksMap ==
  /\ Live(0) = {} => Memory!Small!Init
  /\ Live(1) = {} => Memory!Big!Init
  /\ PoolStep(0) => [Memory!Small!Next]_{ptr .. ptr + Bytes[0] - 1 : ptr \in taken[0]}
  /\ PoolStep(1) => [Memory!Big!Next]_{ptr .. ptr + Bytes[1] - 1 : ptr \in taken[1]}
  BY DEF PoolStep, Live, Memory!Small!Init, Memory!Big!Init, Memory!Small!Next, Memory!Big!Next,
         Memory!Small!Acquire, Memory!Small!Release, Memory!Big!Acquire, Memory!Big!Release

\* The bitmap, the stacks of slots and the order pool hand out memory as a pool
\* does, whatever their sizes, the length of a word and the size of a slot.
THEOREM PoolsCorrect == ProgramsSpec => ArePools
<1>1. ProgramsSpec => Memory!BitmapIsPool
  BY OwnSteps, BitmapInit, BitmapStep, BitmapPoolInit, BitmapPoolStep,
     PTL DEF ProgramsSpec, allVars, Memory!BitmapIsPool, Memory!SlicePool!Spec
<1>2. ProgramsSpec => Memory!StacksArePools
  BY OwnSteps, StacksInit, StacksStep, StacksMap,
     PTL DEF ProgramsSpec, allVars, Memory!StacksArePools, Memory!Small!Spec, Memory!Big!Spec,
         Memory!stackVars
<1>3. ProgramsSpec => Memory!OrdersArePool
  BY OwnSteps, OrdersInit, OrdersStep,
     PTL DEF ProgramsSpec, allVars, Memory!OrdersArePool, Memory!ObjectPool!Spec, Memory!poolVars
<1> QED
  BY <1>1, <1>2, <1>3 DEF ArePools

(***************************************************************************)
(* What holds of the programs                                              *)
(***************************************************************************)

\* What holds of the locks alone holds of them among the programs.
THEOREM LocksCorrect ==
  ProgramsSpec => []MutualExclusion /\ []CountExact /\ IsFifoLock
<1>1. ProgramsInit => Init
  BY DEF ProgramsInit
<1>2. ProgramsSpec => Spec
  BY <1>1, OwnSteps, PTL DEF ProgramsSpec, allVars, Spec
<1> QED
  BY <1>2, MutualExclusionCorrect, CountCorrect, FifoLockCorrect, PTL

\* Whatever the numbers of threads, users, messages and signals: where two
\* subscriptions do not meet, a notification reaches those who had subscribed
\* before and both sides agree on the subscriptions; where they do, no entry is
\* counted that nobody added.  No waiter leaves without a flag, and handlers are
\* interrupted by no signal that their masks keep out and lose none.
THEOREM DeliveriesCorrect == ProgramsSpec => []Deliveries
<1>1. ProgramsSpec => [](Observing!ReachesSubscribed /\ Observing!SubscriptionsAgree)
  BY OwnSteps, ObservingInit, ObservingStep, ObservingGives, PTL DEF ProgramsSpec, allVars
<1>2. ProgramsSpec => []Waiting!FlagsMatch
  BY OwnSteps, WaitingInit, WaitingStep, WaitingGives, PTL DEF ProgramsSpec, allVars
<1>3. ProgramsSpec => [](Handling!MasksHold /\ Handling!SignalsCounted /\ Handling!IndexIsOwn)
  BY OwnSteps, HandlingInit, HandlingStep, HandlingGives, PTL DEF ProgramsSpec, allVars
<1>4. /\ Observing!ReachesSubscribed /\ Observing!SubscriptionsAgree
      /\ Waiting!FlagsMatch
      /\ Handling!MasksHold /\ Handling!SignalsCounted /\ Handling!IndexIsOwn
      => Deliveries
  BY DEF Deliveries
<1> QED
  BY <1>1, <1>2, <1>3, <1>4, PTL

\* Any number of processes share one page, unless two have passed the test for
\* it at once, and any number of threads one object; the bitmap is what is held
\* and the first fit is found, whatever the length of a word and the sizes asked
\* for.
THEOREM MadeOnceCorrect == ProgramsSpec => []MadeOnce
<1>1. ProgramsSpec => []Sharing!OnePage
  BY OwnSteps, SharingInit, SharingStep, SharingGives, PTL DEF ProgramsSpec, allVars
<1>2. ProgramsSpec => []Making!OneInstance
  BY OwnSteps, MakingInit, MakingStep, MakingGives, PTL DEF ProgramsSpec, allVars
<1>3. ProgramsSpec => [](Memory!BitsAreHeld /\ Memory!FindsFirstFit)
  BY OwnSteps, BitmapInit, BitmapStep, BitmapGives, PTL DEF ProgramsSpec, allVars
<1>4. Sharing!OnePage /\ Making!OneInstance /\ Memory!BitsAreHeld /\ Memory!FindsFirstFit
      => MadeOnce
  BY DEF MadeOnce
<1> QED
  BY <1>1, <1>2, <1>3, <1>4, PTL
=============================================================================
