---------------------------- MODULE DriversProofs ----------------------------
(***************************************************************************)
(* Proofs about the drivers for any bounds: the devices of access.c for    *)
(* any set of files, users and terminals, then, of those that MCDrivers    *)
(* runs, the ones whose users are counted, each on its own, and last what  *)
(* these give of every behaviour of MCDrivers.                             *)
(***************************************************************************)
EXTENDS MCDrivers, Sums, FiniteSetTheorems, SequenceTheorems, TLAPS

(***************************************************************************)
(* The inductive invariant                                                 *)
(***************************************************************************)

\* The places a file visits on each device.
PlacesOf(d) ==
  CASE d = "scullsingle" -> {"closed", "refused", "open"}
    [] d = "sculluid" -> {"closed", "open"}
    [] d = "scullwuid" -> {"closed", "wait", "peek", "test", "asleep", "again",
                           "open", "waking"}
    [] d = "scullpriv" -> {"closed", "alloc", "open"}

Devices == {"scullsingle", "sculluid", "scullwuid", "scullpriv"}

KindOK ==
  /\ device \in Devices
  /\ uniprocessor \in BOOLEAN
  /\ at \in [Files -> PlacesOf(device)]
  /\ device # "scullsingle" => scull_s_available = 1

\* A waiter on the queue that sleeps, or is about to because it has loaded a
\* count that is no longer true, has a wake-up coming.
WakeInv ==
  \A f \in scull_w_wait :
    /\ at[f] = "asleep" /\ available(f, count, owner) => At({"waking"}) # {}
    /\ at[f] = "test" /\ seen[f] # 0 /\ count = 0 => At({"waking"}) # {}

\* One file at a time looks for a device that is not on the list.
PrivAlone ==
  /\ \A f \in Files : at[f] = "alloc" <=> f \in scull_c_lock
  /\ \A f, g \in scull_c_lock : f = g
  /\ \A f \in scull_c_lock : \A i \in DOMAIN scull_c_list :
       scull_c_list[i] # Tty[f]
  /\ \A i, j \in DOMAIN scull_c_list :
       scull_c_list[i] = scull_c_list[j] => i = j
  /\ \A f \in Files : at[f] = "open" =>
       /\ private_data[f] \in DOMAIN scull_c_list
       /\ scull_c_list[private_data[f]] = Tty[f]

PrivInv ==
  /\ scull_c_list \in Seq({Tty[f] : f \in Files})
  /\ private_data = [f \in Files |-> private_data[f]]
  /\ scull_c_lock \subseteq Files
  /\ device = "scullpriv" /\ ~uniprocessor => PrivAlone

IInv == KindOK /\ TypeOK /\ SingleOpen /\ OneUser /\ WakeInv /\ PrivInv

(***************************************************************************)
(* Files and where they are                                                *)
(***************************************************************************)

\* The counters, device by device.
CountsOK ==
  /\ device = "scullsingle" =>
       scull_s_available = 1 - Cardinality(At({"open", "refused"}))
  /\ device \in {"sculluid", "scullwuid"} => count = Cardinality(At({"open"}))
  /\ device = "scullpriv" => scull_s_available = 1 /\ count = 0

OthersOK ==
  /\ owner \in {Uid[f] : f \in Files} \cup {Root}
  /\ scull_w_wait \subseteq Files
  /\ seen \in [Files -> 0 .. Cardinality(Files)]

LEMMA KindPlaces ==
  ASSUME KindOK
  PROVE  /\ at \in [Files -> Places]
         /\ device = "scullsingle" =>
              \A f \in Files : at[f] \in {"closed", "refused", "open"}
         /\ device = "sculluid" => \A f \in Files : at[f] \in {"closed", "open"}
         /\ device = "scullwuid" =>
              \A f \in Files : at[f] \notin {"refused", "alloc"}
         /\ device = "scullpriv" =>
              \A f \in Files : at[f] \in {"closed", "alloc", "open"}
<1>1. PlacesOf(device) \subseteq Places
  BY DEF KindOK, Devices, PlacesOf, Places
<1>2. /\ device = "scullsingle" =>
           PlacesOf(device) = {"closed", "refused", "open"}
      /\ device = "sculluid" => PlacesOf(device) = {"closed", "open"}
      /\ device = "scullwuid" =>
           "refused" \notin PlacesOf(device) /\ "alloc" \notin PlacesOf(device)
      /\ device = "scullpriv" => PlacesOf(device) = {"closed", "alloc", "open"}
  BY DEF PlacesOf
<1> QED
  BY <1>1, <1>2 DEF KindOK

LEMMA TypeParts == KindOK => (TypeOK <=> CountsOK /\ OthersOK)
<1> SUFFICES ASSUME KindOK PROVE TypeOK <=> CountsOK /\ OthersOK
  OBVIOUS
<1>1. at \in [Files -> Places]
  BY KindPlaces
<1>2. CASE device = "scullsingle"
  BY <1>1, <1>2 DEF TypeOK, CountsOK, OthersOK
<1>3. CASE device \in {"sculluid", "scullwuid"}
  BY <1>1, <1>3 DEF TypeOK, CountsOK, OthersOK
<1>4. CASE device = "scullpriv"
  BY <1>1, <1>4 DEF TypeOK, CountsOK, OthersOK
<1> QED
  BY <1>2, <1>3, <1>4 DEF KindOK, Devices

LEMMA AtCount ==
  ASSUME NEW P
  PROVE  /\ IsFiniteSet(At(P))
         /\ Cardinality(At(P)) \in Nat
         /\ Cardinality(At(P)) <= Cardinality(Files)
         /\ Cardinality(At(P)) = 0 => \A f \in Files : at[f] \notin P
<1>1. At(P) \in SUBSET Files
  BY DEF At
<1>2. IsFiniteSet(At(P)) /\ Cardinality(At(P)) <= Cardinality(Files)
  BY <1>1, FS_Subset, AccessAssumption
<1>3. Cardinality(At(P)) \in Nat
  BY <1>2, FS_CardinalityType
<1>4. Cardinality(At(P)) = 0 => At(P) = {}
  BY <1>2, FS_EmptySet
<1> QED
  BY <1>2, <1>3, <1>4 DEF At

\* What one move does to the number of files at some places.
LEMMA MoveCount ==
  ASSUME KindOK, NEW f \in Files, NEW where, NEW P,
         at' = [at EXCEPT ![f] = where]
  PROVE  /\ at[f] \notin P /\ where \in P =>
              Cardinality(At(P)') = Cardinality(At(P)) + 1
         /\ at[f] \in P /\ where \notin P =>
              Cardinality(At(P)') = Cardinality(At(P)) - 1
         /\ (at[f] \in P <=> where \in P) => At(P)' = At(P)
<1>1. at \in [Files -> Places]
  BY KindPlaces
<1>2. IsFiniteSet(At(P))
  BY AtCount
<1>3. ASSUME at[f] \notin P, where \in P
      PROVE  Cardinality(At(P)') = Cardinality(At(P)) + 1
  <2>1. At(P)' = At(P) \cup {f} /\ f \notin At(P)
    BY <1>1, <1>3 DEF At
  <2> QED
    BY <1>2, <2>1, FS_AddElement
<1>4. ASSUME at[f] \in P, where \notin P
      PROVE  Cardinality(At(P)') = Cardinality(At(P)) - 1
  <2>1. At(P)' = At(P) \ {f} /\ f \in At(P)
    BY <1>1, <1>4 DEF At
  <2> QED
    BY <1>2, <2>1, FS_RemoveElement
<1>5. ASSUME at[f] \in P <=> where \in P PROVE At(P)' = At(P)
  BY <1>1, <1>5 DEF At
<1> QED
  BY <1>3, <1>4, <1>5

\* The steps of each device.
UserStep(f) == scull_u_open(f) \/ scull_u_release(f)
WaitStep(f) ==
  \/ scull_w_open(f) \/ Wait(f) \/ Peek(f) \/ Test(f)
  \/ (\E signalled \in BOOLEAN : Woke(f, signalled))
  \/ scull_w_release(f) \/ Wake(f)

LEMMA StepOfDevice ==
  ASSUME KindOK, Next
  PROVE  \E f \in Files : \/ device = "scullsingle" /\ Single(f)
                          \/ device = "sculluid" /\ UserStep(f)
                          \/ device = "scullwuid" /\ WaitStep(f)
                          \/ device = "scullpriv" /\ Private(f)
<1>1. PICK f \in Files :
         \/ Single(f) \/ scull_u_open(f) \/ scull_w_open(f) \/ Private(f)
         \/ Wait(f) \/ Peek(f) \/ Test(f) \/ Wake(f)
         \/ scull_u_release(f) \/ scull_w_release(f)
         \/ \E signalled \in BOOLEAN : Woke(f, signalled)
  BY DEF Next
<1>2. device \in Devices
  BY DEF KindOK
<1>3. ASSUME Single(f) PROVE device = "scullsingle"
  BY <1>2, <1>3, KindPlaces DEF Single, Dec, Busy, scull_s_release, Devices
<1>4. ASSUME scull_u_open(f) \/ scull_u_release(f) PROVE device = "sculluid"
  BY <1>4 DEF scull_u_open, scull_u_release
<1>5. ASSUME WaitStep(f) PROVE device = "scullwuid"
  BY <1>2, <1>5, KindPlaces
  DEF WaitStep, scull_w_open, Wait, Peek, Test, Woke, scull_w_release, Wake,
      Devices
<1>6. ASSUME Private(f) PROVE device = "scullpriv"
  BY <1>2, <1>6, KindPlaces
  DEF Private, scull_c_open, Clone, scull_c_release, Devices
<1> QED
  BY <1>1, <1>3, <1>4, <1>5, <1>6 DEF UserStep, WaitStep

LEMMA KindStep ==
  ASSUME KindOK, Next
  PROVE  KindOK' /\ kind' = kind
<1> SUFFICES /\ at' \in [Files -> PlacesOf(device)] /\ kind' = kind
             /\ device # "scullsingle" =>
                  scull_s_available' = scull_s_available
  BY DEF KindOK, kind, Devices, PlacesOf
<1>1. PICK f \in Files : \/ device = "scullsingle" /\ Single(f)
                         \/ device = "sculluid" /\ UserStep(f)
                         \/ device = "scullwuid" /\ WaitStep(f)
                         \/ device = "scullpriv" /\ Private(f)
  BY StepOfDevice
<1>2. at \in [Files -> PlacesOf(device)]
  BY DEF KindOK
<1>3. CASE device = "scullsingle" /\ Single(f)
  BY <1>2, <1>3 DEF Single, Dec, Busy, scull_s_release, Go, PlacesOf
<1>4. CASE device = "sculluid" /\ UserStep(f)
  BY <1>2, <1>4
  DEF UserStep, scull_u_open, scull_u_release, Admit, Go, vars, PlacesOf
<1>5. CASE device = "scullwuid" /\ WaitStep(f)
  BY <1>2, <1>5
  DEF WaitStep, scull_w_open, Admit, Wait, Peek, Test, Woke, scull_w_release,
      Wake, Go, PlacesOf
<1>6. CASE device = "scullpriv" /\ Private(f)
  BY <1>2, <1>6
  DEF Private, scull_c_open, Clone, scull_c_release, Go, PlacesOf
<1> QED
  BY <1>1, <1>3, <1>4, <1>5, <1>6

(***************************************************************************)
(* The counters                                                            *)
(***************************************************************************)

LEMMA CountsSingle ==
  ASSUME KindOK, CountsOK, device = "scullsingle", NEW f \in Files, Single(f)
  PROVE  CountsOK'
<1> DEFINE held == {"open", "refused"}
<1>1. /\ device' = device
      /\ scull_s_available = 1 - Cardinality(At(held))
      /\ Cardinality(At(held)) \in Nat
  BY AtCount DEF Single, Dec, Busy, scull_s_release, kind, CountsOK
<1>2. CASE Dec(f)
  <2>1. PICK where \in {"open", "refused"} : at' = [at EXCEPT ![f] = where]
    BY <1>2 DEF Dec, Go
  <2>2. Cardinality(At(held)') = Cardinality(At(held)) + 1
    BY <1>2, <2>1, MoveCount DEF Dec
  <2> QED
    BY <1>1, <1>2, <2>2 DEF Dec, CountsOK
<1>3. CASE Busy(f) \/ scull_s_release(f)
  <2>1. /\ at[f] \in held /\ at' = [at EXCEPT ![f] = "closed"]
        /\ scull_s_available' = scull_s_available + 1
    BY <1>3 DEF Busy, scull_s_release, Restored, Go
  <2>2. "closed" \notin held
    OBVIOUS
  <2> HIDE DEF held
  <2>3. Cardinality(At(held)') = Cardinality(At(held)) - 1
    BY <2>1, <2>2, MoveCount
  <2> QED
    BY <1>1, <2>1, <2>3 DEF CountsOK, held
<1> QED
  BY <1>2, <1>3 DEF Single

\* An opening that is granted, of sculluid or scullwuid.
LEMMA CountsAdmit ==
  ASSUME KindOK, CountsOK, device \in {"sculluid", "scullwuid"},
         NEW f \in Files, at[f] # "open", Admit(f)
  PROVE  CountsOK'
<1>1. count' = count + 1 /\ at' = [at EXCEPT ![f] = "open"] /\ device' = device
  BY DEF Admit, Counted, Go, kind
<1>2. Cardinality(At({"open"})') = Cardinality(At({"open"})) + 1
  BY <1>1, MoveCount
<1> QED
  BY <1>1, <1>2 DEF CountsOK

LEMMA CountsRelease ==
  ASSUME KindOK, CountsOK, device \in {"sculluid", "scullwuid"},
         NEW f \in Files, scull_u_release(f) \/ scull_w_release(f)
  PROVE  CountsOK'
<1>1. PICK where \in {"closed", "waking"} : at' = [at EXCEPT ![f] = where]
  BY DEF scull_u_release, scull_w_release, Go
<1>2. at[f] = "open" /\ count' = count - 1 /\ device' = device
  BY DEF scull_u_release, scull_w_release, kind
<1>3. Cardinality(At({"open"})') = Cardinality(At({"open"})) - 1
  BY <1>1, <1>2, MoveCount
<1> QED
  BY <1>2, <1>3 DEF CountsOK

\* The steps of a file that waits change no counter.
LEMMA CountsWait ==
  ASSUME KindOK, CountsOK, device = "scullwuid", NEW f \in Files,
         at[f] # "open", at'[f] # "open", at' = [at EXCEPT ![f] = at'[f]],
         count' = count, device' = device
  PROVE  CountsOK'
<1>1. At({"open"})' = At({"open"})
  BY MoveCount
<1> QED
  BY <1>1 DEF CountsOK

LEMMA CountsStep == KindOK /\ CountsOK /\ [Next]_vars => CountsOK'
<1> SUFFICES ASSUME KindOK, CountsOK, [Next]_vars PROVE CountsOK'
  OBVIOUS
<1>1. CASE UNCHANGED vars
  BY <1>1 DEF vars, kind, userVars, CountsOK, At
<1>2. CASE Next
  <2>1. PICK f \in Files : \/ device = "scullsingle" /\ Single(f)
                           \/ device = "sculluid" /\ UserStep(f)
                           \/ device = "scullwuid" /\ WaitStep(f)
                           \/ device = "scullpriv" /\ Private(f)
    BY <1>2, StepOfDevice
  <2>2. at \in [Files -> Places] /\ kind' = kind
    BY <1>2, KindPlaces, KindStep
  <2>3. CASE device = "scullsingle" /\ Single(f)
    BY <2>3, CountsSingle
  <2>4. CASE device = "sculluid" /\ UserStep(f)
    <3>1. CASE scull_u_open(f)
      <4>1. CASE Admit(f)
        BY <2>4, <3>1, <4>1, CountsAdmit DEF scull_u_open
      <4>2. CASE UNCHANGED vars
        BY <4>2 DEF vars, kind, userVars, CountsOK, At
      <4> QED
        BY <3>1, <4>1, <4>2 DEF scull_u_open
    <3>2. CASE scull_u_release(f)
      BY <2>4, <3>2, CountsRelease
    <3> QED
      BY <2>4, <3>1, <3>2 DEF UserStep
  <2>5. CASE device = "scullwuid" /\ WaitStep(f)
    <3>1. CASE Admit(f) /\ ~scull_w_release(f)
      <4>1. at[f] # "open"
        BY <2>5, <3>1 DEF WaitStep, scull_w_open, Wait, Peek, Test, Woke, Wake
      <4> QED
        BY <2>5, <3>1, <4>1, CountsAdmit
    <3>2. CASE scull_w_release(f)
      BY <2>5, <3>2, CountsRelease
    <3>3. CASE ~Admit(f) /\ ~scull_w_release(f)
      BY <2>2, <2>5, <3>3, CountsWait
      DEF WaitStep, scull_w_open, Wait, Peek, Test, Woke, Wake, Go, kind,
          userVars
    <3> QED
      BY <3>1, <3>2, <3>3
  <2>6. CASE device = "scullpriv" /\ Private(f)
    BY <2>2, <2>6
    DEF Private, scull_c_open, Clone, scull_c_release, userVars, kind, CountsOK
  <2> QED
    BY <2>1, <2>3, <2>4, <2>5, <2>6
<1> QED
  BY <1>1, <1>2

LEMMA OthersStep == KindOK /\ CountsOK /\ OthersOK /\ [Next]_vars => OthersOK'
<1> SUFFICES ASSUME KindOK, CountsOK, OthersOK, [Next]_vars PROVE OthersOK'
  OBVIOUS
<1>1. CASE UNCHANGED vars
  BY <1>1 DEF vars, userVars, OthersOK
<1>2. CASE Next
  <2>1. PICK f \in Files : \/ device = "scullsingle" /\ Single(f)
                           \/ device = "sculluid" /\ UserStep(f)
                           \/ device = "scullwuid" /\ WaitStep(f)
                           \/ device = "scullpriv" /\ Private(f)
    BY <1>2, StepOfDevice
  <2>2. CASE Admit(f)
    BY <2>2 DEF Admit, Grabbed, OthersOK
  <2>3. CASE Peek(f)
    <3>1. device = "scullwuid"
      BY <2>3, KindPlaces DEF Peek, KindOK, Devices
    <3>2. count \in 0 .. Cardinality(Files)
      BY <3>1, AtCount, FS_CardinalityType, AccessAssumption DEF CountsOK
    <3> QED
      BY <2>3, <3>2 DEF Peek, OthersOK
  <2>4. CASE Test(f)
    <3>1. 0 \in 0 .. Cardinality(Files)
      BY FS_CardinalityType, AccessAssumption
    <3> QED
      BY <2>4, <3>1 DEF Test, OthersOK
  <2>5. CASE ~Admit(f) /\ ~Peek(f) /\ ~Test(f)
    BY <2>1, <2>5
    DEF Single, Dec, Busy, scull_s_release, UserStep, scull_u_open,
        scull_u_release, WaitStep, scull_w_open, Wait, Woke, scull_w_release,
        Wake, Private, scull_c_open, Clone, scull_c_release, userVars, vars,
        OthersOK
  <2> QED
    BY <2>2, <2>3, <2>4, <2>5
<1> QED
  BY <1>1, <1>2

(***************************************************************************)
(* One file has scullsingle, one user the two after it                     *)
(***************************************************************************)

LEMMA SingleOpenStep ==
  KindOK /\ CountsOK /\ SingleOpen /\ [Next]_vars => SingleOpen'
<1> SUFFICES ASSUME KindOK, CountsOK, SingleOpen, [Next]_vars,
                    device' = "scullsingle"
             PROVE  \A f, g \in Files :
                      at'[f] = "open" /\ at'[g] = "open" => f = g
  BY DEF SingleOpen
<1>1. CASE UNCHANGED vars
  BY <1>1 DEF vars, kind, SingleOpen
<1>2. CASE Next
  <2>1. device = "scullsingle" /\ at \in [Files -> Places]
    BY <1>2, KindStep, KindPlaces DEF kind
  <2>2. PICK f \in Files : Single(f)
    BY <1>2, <2>1, StepOfDevice
  <2>3. CASE Dec(f) /\ Granted
    <3>1. Cardinality(At({"open", "refused"})) = 0
      BY <2>1, <2>3, AtCount DEF Granted, CountsOK
    <3>2. \A g \in Files : at[g] # "open"
      BY <3>1, AtCount
    <3> QED
      BY <2>1, <2>3, <3>2 DEF Dec, Go
  <2>4. CASE ~(Dec(f) /\ Granted)
    BY <2>1, <2>2, <2>4
    DEF Single, Dec, Busy, scull_s_release, Go, SingleOpen
  <2> QED
    BY <2>3, <2>4
<1> QED
  BY <1>1, <1>2

LEMMA OneUserStep ==
  KindOK /\ CountsOK /\ OneUser /\ [Next]_vars => OneUser'
<1> SUFFICES ASSUME KindOK, CountsOK, OneUser, [Next]_vars,
                    device' \in {"sculluid", "scullwuid"}
             PROVE  \A f \in Files : at'[f] = "open" =>
                      f \in Capable \/ owner' \in {Uid[f], Euid[f]}
  BY DEF OneUser, At
<1>1. CASE UNCHANGED vars
  BY <1>1 DEF vars, kind, userVars, OneUser, At
<1>2. CASE Next
  <2>1. device \in {"sculluid", "scullwuid"} /\ at \in [Files -> Places]
    BY <1>2, KindStep, KindPlaces DEF kind
  <2>2. PICK f \in Files : UserStep(f) \/ WaitStep(f)
    BY <1>2, <2>1, StepOfDevice
  <2>3. CASE Admit(f)
    <3>1. CASE count = 0
      <4>1. \A g \in Files : at[g] # "open"
        BY <2>1, <3>1, AtCount DEF CountsOK
      <4> QED
        BY <2>1, <2>3, <3>1, <4>1 DEF Admit, Grabbed, Go
    <3>2. CASE count # 0
      BY <2>1, <2>3, <3>2 DEF Admit, Grabbed, Go, available, OneUser, At
    <3> QED
      BY <3>1, <3>2
  <2>4. CASE ~Admit(f)
    <3>1. owner' = owner
      BY <2>2, <2>4
      DEF UserStep, scull_u_open, scull_u_release, WaitStep, scull_w_open,
          Wait, Peek, Test, Woke, scull_w_release, Wake, userVars, vars
    <3>2. \A g \in Files : at'[g] = "open" => at[g] = "open"
      BY <2>1, <2>2, <2>4
      DEF UserStep, scull_u_open, scull_u_release, WaitStep, scull_w_open,
          Wait, Peek, Test, Woke, scull_w_release, Wake, Go, vars
    <3> QED
      BY <2>1, <3>1, <3>2 DEF OneUser, At
  <2> QED
    BY <2>3, <2>4
<1> QED
  BY <1>1, <1>2

(***************************************************************************)
(* No lost wake-up                                                         *)
(***************************************************************************)

LEMMA WakeStep ==
  KindOK /\ CountsOK /\ OthersOK /\ WakeInv /\ [Next]_vars => WakeInv'
<1> SUFFICES ASSUME KindOK, CountsOK, OthersOK, WakeInv, [Next]_vars,
                    NEW g \in scull_w_wait',
                    \/ at'[g] = "asleep" /\ available(g, count', owner')
                    \/ at'[g] = "test" /\ seen'[g] # 0 /\ count' = 0
             PROVE  \E w \in Files : at'[w] = "waking"
  BY DEF WakeInv, At, available
<1>1. CASE UNCHANGED vars
  BY <1>1 DEF vars, userVars, WakeInv, At, available
<1>2. CASE Next
  <2>1. g \in Files
    BY <1>2, OthersStep DEF OthersOK
  <2>2. device = "scullwuid" /\ at \in [Files -> Places]
    BY <1>2, <2>1, KindStep, KindPlaces DEF kind, KindOK, Devices, PlacesOf
  <2>3. PICK f \in Files : WaitStep(f)
    BY <1>2, <2>2, StepOfDevice
  <2>21. ASSUME at[f] # "waking", \E where : Go(f, where), At({"waking"}) # {}
        PROVE  \E w \in Files : at'[w] = "waking"
    BY <2>2, <2>21 DEF At, Go
  <2>4. CASE Admit(f)
    <3>1. /\ count' = count + 1 /\ count \in Nat
          /\ scull_w_wait' = scull_w_wait
          /\ count # 0 => owner' = owner
      BY <2>2, <2>4, AtCount DEF Admit, Counted, Grabbed, CountsOK
    <3>2. at'[g] = "asleep" /\ available(g, count + 1, owner')
      BY <3>1
    <3>3. at[g] = "asleep" /\ available(g, count, owner)
      BY <2>1, <2>2, <2>4, <3>1, <3>2 DEF Admit, Go, available
    <3>4. at[f] # "waking"
      BY <2>2, <2>3, <2>4
      DEF WaitStep, scull_w_open, Wait, Peek, Test, Woke, scull_w_release,
          Wake, Admit, Go
    <3> QED
      BY <2>4, <2>21, <3>1, <3>3, <3>4 DEF WakeInv, Admit
  <2>5. CASE ~Admit(f) /\ scull_w_open(f)
    <3>1. /\ at[f] \in {"closed", "again"}
          /\ \E where \in {"closed", "wait"} : Go(f, where)
          /\ UNCHANGED userVars
      BY <2>5 DEF scull_w_open
    <3>2. g # f /\ at'[g] = at[g]
      BY <2>1, <2>2, <3>1 DEF Go
    <3> QED
      BY <2>21, <3>1, <3>2 DEF WakeInv, userVars, available
  <2>6. CASE Wait(f)
    <3>1. g # f /\ at'[g] = at[g] /\ g \in scull_w_wait
      BY <2>1, <2>2, <2>6 DEF Wait, Go
    <3> QED
      BY <2>6, <2>21, <3>1 DEF WakeInv, Wait, available
  <2>7. CASE Peek(f)
    <3>1. CASE g = f
      BY <2>2, <2>7, <3>1 DEF Peek, Go, OthersOK
    <3>2. CASE g # f
      <4>1. at'[g] = at[g] /\ seen'[g] = seen[g]
        BY <2>1, <2>2, <2>7, <3>2 DEF Peek, Go, OthersOK
      <4> QED
        BY <2>7, <2>21, <4>1 DEF WakeInv, Peek, available
    <3> QED
      BY <3>1, <3>2
  <2>8. CASE Test(f)
    <3>0. at[f] = "test" /\ (\E where : Go(f, where))
      BY <2>8 DEF Test
    <3>1. CASE g = f
      <4>1. /\ at'[f] = "asleep" /\ MustSleep(f)
            /\ f \in scull_w_wait /\ count' = count /\ owner' = owner
        BY <2>2, <2>8, <3>1 DEF Test, Go, OthersOK
      <4>2. seen[f] # 0 /\ count = 0
        BY <3>1, <4>1 DEF MustSleep, available
      <4> QED
        BY <2>21, <3>0, <4>1, <4>2 DEF WakeInv
    <3>2. CASE g # f
      <4>1. /\ at'[g] = at[g] /\ seen'[g] = seen[g] /\ g \in scull_w_wait
            /\ count' = count /\ owner' = owner
        BY <2>1, <2>2, <2>8, <3>2 DEF Test, Go, OthersOK
      <4> QED
        BY <2>21, <3>0, <4>1 DEF WakeInv
    <3> QED
      BY <3>1, <3>2
  <2>9. CASE \E signalled \in BOOLEAN : Woke(f, signalled)
    <3>1. at[f] = "asleep" /\ Go(f, "wait") /\ UNCHANGED userVars
      BY <2>9 DEF Woke
    <3>2. g # f /\ at'[g] = at[g]
      BY <2>1, <2>2, <3>1 DEF Go
    <3> QED
      BY <2>21, <3>1, <3>2 DEF WakeInv, userVars, available
  <2>10. CASE scull_w_release(f)
    <3>1. CASE count - 1 = 0
      BY <2>2, <2>10, <3>1 DEF scull_w_release, WakesOthers, Go
    <3>2. CASE count - 1 # 0
      <4>1. /\ at[f] = "open" /\ Go(f, "closed") /\ count' # 0
            /\ owner' = owner /\ scull_w_wait' = scull_w_wait
        BY <2>10, <3>2 DEF scull_w_release, WakesOthers
      <4>2. at'[g] = "asleep" /\ available(g, count, owner)
        BY <4>1 DEF available
      <4>3. at[g] = "asleep"
        BY <2>1, <2>2, <4>1, <4>2 DEF Go
      <4> QED
        BY <2>21, <4>1, <4>2, <4>3 DEF WakeInv
    <3> QED
      BY <3>1, <3>2
  <2>11. CASE Wake(f)
    BY <2>11 DEF Wake
  <2> QED
    BY <2>3, <2>4, <2>5, <2>6, <2>7, <2>8, <2>9, <2>10, <2>11 DEF WaitStep
<1> QED
  BY <1>1, <1>2

(***************************************************************************)
(* A terminal has one device                                               *)
(***************************************************************************)

\* Where no key is on the list twice the search finds it.
LEMMA FoundListed ==
  ASSUME PrivInv, PrivAlone, NEW key
  PROVE  /\ Found(key) # 0 => /\ Found(key) \in DOMAIN scull_c_list
                              /\ scull_c_list[Found(key)] = key
         /\ Found(key) = 0 => \A i \in DOMAIN scull_c_list :
                                scull_c_list[i] # key
<1> DEFINE newest(i) ==
             /\ scull_c_list[i] = key
             /\ \A j \in DOMAIN scull_c_list : scull_c_list[j] = key => j <= i
<1>1. ASSUME NEW i \in DOMAIN scull_c_list, scull_c_list[i] = key
      PROVE  /\ Found(key) \in DOMAIN scull_c_list
             /\ scull_c_list[Found(key)] = key
             /\ Found(key) # 0
  <2>1. newest(i)
    <3>1. i \in Nat
      BY DEF PrivInv
    <3>2. \A j \in DOMAIN scull_c_list : scull_c_list[j] = key => j = i
      BY <1>1 DEF PrivAlone
    <3> QED
      BY <1>1, <3>1, <3>2
  <2>2. Found(key) = CHOOSE n \in DOMAIN scull_c_list : newest(n)
    BY <1>1 DEF Found
  <2>3. Found(key) \in DOMAIN scull_c_list /\ newest(Found(key))
    BY <2>1, <2>2
  <2> QED
    BY <2>3 DEF PrivInv
<1>2. (\A i \in DOMAIN scull_c_list : scull_c_list[i] # key) => Found(key) = 0
  BY DEF Found
<1> QED
  BY <1>1, <1>2

LEMMA PrivStep == KindOK /\ PrivInv /\ [Next]_vars => PrivInv'
<1> SUFFICES ASSUME KindOK, PrivInv, [Next]_vars PROVE PrivInv'
  OBVIOUS
<1>1. CASE UNCHANGED vars
  BY <1>1 DEF vars, kind, privVars, PrivInv, PrivAlone
<1>2. CASE Next
  <2>1. at \in [Files -> Places] /\ kind' = kind
    BY <1>2, KindStep, KindPlaces
  <2>2. CASE device # "scullpriv"
    <3>1. UNCHANGED privVars
      BY <1>2, <2>2, StepOfDevice
      DEF Single, Dec, Busy, scull_s_release, UserStep, scull_u_open,
          scull_u_release, WaitStep, scull_w_open, Wait, Peek, Test, Woke,
          scull_w_release, Wake, Admit, privVars, vars
    <3> QED
      BY <2>1, <2>2, <3>1 DEF kind, privVars, PrivInv
  <2>3. CASE device = "scullpriv"
    <3>1. PICK f \in Files : Private(f)
      BY <1>2, <2>3, StepOfDevice
    <3>2. private_data' = [g \in Files |-> private_data'[g]]
      BY <3>1 DEF Private, scull_c_open, Clone, scull_c_release, PrivInv
    <3>3. CASE scull_c_open(f)
      <4>1. scull_c_list' = scull_c_list /\ scull_c_lock' \subseteq Files
        BY <3>3 DEF scull_c_open, PrivInv
      <4>2. ASSUME ~uniprocessor PROVE PrivAlone'
        <5>1. scull_c_lock = {} /\ PrivAlone
          BY <2>3, <3>3, <4>2 DEF scull_c_open, PrivInv
        <5>2. private_data' = [private_data EXCEPT ![f] = Found(Tty[f])]
          BY <3>3 DEF scull_c_open
        <5>3. CASE Found(Tty[f]) # 0
          <6>1. Go(f, "open") /\ scull_c_lock' = scull_c_lock
            BY <3>3, <5>3 DEF scull_c_open
          <6>2. /\ Found(Tty[f]) \in DOMAIN scull_c_list
                /\ scull_c_list[Found(Tty[f])] = Tty[f]
            BY <5>1, <5>3, FoundListed
          <6> QED
            BY <2>1, <4>1, <5>1, <5>2, <6>1, <6>2 DEF Go, PrivAlone, PrivInv
        <5>4. CASE Found(Tty[f]) = 0
          <6>1. Go(f, "alloc") /\ scull_c_lock' = {f}
            BY <3>3, <5>1, <5>4 DEF scull_c_open
          <6>2. \A i \in DOMAIN scull_c_list : scull_c_list[i] # Tty[f]
            BY <5>1, <5>4, FoundListed
          <6> QED
            BY <2>1, <4>1, <5>1, <5>2, <6>1, <6>2 DEF Go, PrivAlone, PrivInv
        <5> QED
          BY <5>3, <5>4
      <4> QED
        BY <2>1, <2>3, <3>2, <4>1, <4>2 DEF kind, PrivInv
    <3>4. CASE Clone(f)
      <4> DEFINE keys == {Tty[g] : g \in Files}
                 longer == Append(scull_c_list, Tty[f])
      <4>1. /\ longer \in Seq(keys)
            /\ DOMAIN longer = DOMAIN scull_c_list \cup {Len(longer)}
            /\ Len(longer) \notin DOMAIN scull_c_list
            /\ longer[Len(longer)] = Tty[f]
            /\ \A i \in DOMAIN scull_c_list : longer[i] = scull_c_list[i]
        BY AppendProperties DEF PrivInv
      <4>2. scull_c_list' \in Seq(keys) /\ scull_c_lock' \subseteq Files
        BY <3>4, <4>1 DEF Clone, Listed, PrivInv
      <4>3. ASSUME ~uniprocessor PROVE PrivAlone'
        <5>1. PrivAlone /\ f \in scull_c_lock /\ scull_c_lock' = {}
          BY <2>3, <3>4, <4>3 DEF Clone, PrivInv, PrivAlone
        <5>2. CASE /\ scull_c_list' = longer
                   /\ private_data' =
                        [private_data EXCEPT ![f] = Len(longer)]
                   /\ Go(f, "open")
          <6>1. \A i, j \in DOMAIN longer : longer[i] = longer[j] => i = j
            BY <4>1, <5>1 DEF PrivAlone
          <6>2. ASSUME NEW g \in Files, at'[g] = "open"
                PROVE  /\ private_data'[g] \in DOMAIN longer
                       /\ longer[private_data'[g]] = Tty[g]
            <7>1. CASE g = f
              BY <4>1, <5>2, <7>1 DEF PrivInv
            <7>2. CASE g # f
              BY <2>1, <4>1, <5>1, <5>2, <6>2, <7>2 DEF Go, PrivAlone, PrivInv
            <7> QED
              BY <7>1, <7>2
          <6> HIDE DEF longer
          <6> QED
            BY <2>1, <5>1, <5>2, <6>1, <6>2 DEF Go, PrivAlone
        <5>3. CASE Go(f, "closed") /\ UNCHANGED <<scull_c_list, private_data>>
          BY <2>1, <5>1, <5>3 DEF Go, PrivAlone
        <5> QED
          BY <3>4, <5>2, <5>3 DEF Clone, Listed
      <4> QED
        BY <2>1, <2>3, <3>2, <4>2, <4>3 DEF kind, PrivInv
    <3>5. CASE scull_c_release(f)
      <4>1. /\ UNCHANGED <<scull_c_lock, scull_c_list>> /\ at[f] = "open"
            /\ private_data' = [private_data EXCEPT ![f] = 0]
            /\ at' = [at EXCEPT ![f] = "closed"]
        BY <3>5 DEF scull_c_release, Go
      <4>2. PrivAlone => PrivAlone'
        BY <2>1, <4>1 DEF PrivAlone, PrivInv
      <4> QED
        BY <2>1, <3>2, <4>1, <4>2 DEF kind, PrivInv
    <3> QED
      BY <3>1, <3>3, <3>4, <3>5 DEF Private
  <2> QED
    BY <2>2, <2>3
<1> QED
  BY <1>1, <1>2

(***************************************************************************)
(* The theorems                                                            *)
(***************************************************************************)

LEMMA InitInv == Init => IInv
<1> SUFFICES ASSUME Init PROVE IInv
  OBVIOUS
<1>1. KindOK
  <2>1. "closed" \in PlacesOf(device)
    BY DEF Init, PlacesOf
  <2> QED
    BY <2>1 DEF Init, KindOK, Devices
<1>2. CountsOK
  <2>1. At({"open", "refused"}) = {} /\ At({"open"}) = {}
    BY DEF Init, At
  <2>2. /\ Cardinality(At({"open", "refused"})) = 0
        /\ Cardinality(At({"open"})) = 0
    BY <2>1, FS_EmptySet
  <2> QED
    BY <2>2 DEF Init, CountsOK
<1>3. OthersOK
  <2>1. 0 \in 0 .. Cardinality(Files)
    BY FS_CardinalityType, AccessAssumption
  <2> QED
    BY <2>1 DEF Init, OthersOK
<1>4. PrivInv
  <2>1. <<>> \in Seq({Tty[f] : f \in Files})
    OBVIOUS
  <2> QED
    BY <2>1 DEF Init, PrivInv, PrivAlone
<1>5. SingleOpen /\ OneUser /\ WakeInv
  BY DEF Init, SingleOpen, OneUser, At, WakeInv
<1> QED
  BY <1>1, <1>2, <1>3, <1>4, <1>5, TypeParts DEF IInv

LEMMA IInvStep ==
  ASSUME IInv, [Next]_vars
  PROVE  IInv'
<1>1. KindOK /\ CountsOK /\ OthersOK
  BY TypeParts DEF IInv
<1>2. KindOK'
  <2>1. CASE Next
    BY <1>1, <2>1, KindStep
  <2>2. CASE UNCHANGED vars
    BY <1>1, <2>2 DEF vars, kind, KindOK
  <2> QED
    BY <2>1, <2>2
<1>3. CountsOK' /\ OthersOK'
  BY <1>1, CountsStep, OthersStep
<1>4. TypeOK'
  BY <1>2, <1>3, TypeParts, PTL
<1>5. SingleOpen' /\ OneUser' /\ WakeInv' /\ PrivInv'
  BY <1>1, SingleOpenStep, OneUserStep, WakeStep, PrivStep DEF IInv
<1> QED
  BY <1>2, <1>4, <1>5 DEF IInv

LEMMA IInvProves ==
  ASSUME IInv
  PROVE  AccessOK
<1>1. Reopenable
  <2> SUFFICES ASSUME At({"closed"}) = Files
               PROVE  scull_s_available = 1
    BY DEF Reopenable
  <2>1. CASE device = "scullsingle"
    <3>1. At({"open", "refused"}) = {}
      BY DEF At
    <3>2. Cardinality(At({"open", "refused"})) = 0
      BY <3>1, FS_EmptySet
    <3> QED
      BY <2>1, <3>2, TypeParts DEF IInv, CountsOK
  <2>2. CASE device # "scullsingle"
    BY <2>2 DEF IInv, KindOK
  <2> QED
    BY <2>1, <2>2
<1>2. OpensOK /\ OneUser
  BY <1>1 DEF IInv, OpensOK
<1>3. OneDevicePerTerminal
  BY DEF IInv, PrivInv, PrivAlone, OneDevicePerTerminal, At
<1>4. NoLostWakeup
  BY DEF IInv, WakeInv, NoLostWakeup
<1> QED
  BY <1>2, <1>3, <1>4 DEF AccessOK

\* For any files, users, terminals and signals: the counters of the devices
\* agree with the files, scullsingle has one user and becomes free again, the
\* two devices of one user admit only that user and root, a terminal has one
\* device where spinlocks lock, and no waiter sleeps through its wake-up.
THEOREM AccessCorrect == Spec => []AccessOK
<1>1. IInv /\ [Next]_vars => IInv'
  BY IInvStep
<1>2. IInv => AccessOK
  BY IInvProves
<1> QED
  BY <1>1, <1>2, InitInv, PTL DEF Spec

(***************************************************************************)
(* usb-skeleton                                                            *)
(***************************************************************************)

\* Structures are numbered in the order of their devices.
Structures == 1 .. MaxPlugs

UsbTypes ==
  /\ plug \in [count : Nat, at : {"out", "probed", "in", "leaving", "left"}]
  /\ plug.count <= MaxPlugs
  /\ kref \in [Structures -> Int] /\ deleted \in [Structures -> BOOLEAN]
  /\ us_at \in [UsbFiles -> {"closed", "found", "open", "copy"}]
  /\ us_private_data \in [UsbFiles -> Nat] /\ found \in [UsbFiles -> Int]
  /\ bulk_in_buffer \in [Structures -> Int] /\ sent \in Int

\* The files of a structure, and the reference of its interface
Holders(k) == {f \in UsbFiles : us_private_data[f] = k}
Interface(k) == IF k = plug.count /\ plug.at # "out" THEN 1 ELSE 0

UsbPlaces ==
  /\ plug.at # "out" => plug.count # 0
  /\ intfdata = IF plug.at \in {"probed", "in"} THEN plug.count ELSE 0
  /\ minor <=> plug.at \in {"in", "leaving"}
  /\ \A f \in UsbFiles :
       /\ us_at[f] = "found" =>
            f \in lock /\ plug.at = "in" /\ found[f] = plug.count
       /\ us_private_data[f] <= plug.count
       /\ us_private_data[f] # 0 <=> us_at[f] \in {"open", "copy"}

UsbRefs ==
  \A k \in Structures :
    /\ kref[k] = Cardinality(Holders(k)) + Interface(k)
    /\ deleted[k] <=> k <= plug.count /\ kref[k] = 0

UsbReads ==
  "two readers" \notin us_trouble =>
    /\ \A f, g \in UsbFiles : us_at[f] = "copy" /\ us_at[g] = "copy" => f = g
    /\ \A f \in UsbFiles : us_at[f] = "copy" =>
         bulk_in_buffer[us_private_data[f]] = found[f]
    /\ "misread" \notin us_trouble

UsbUnused == {"found a deleted one", "used a deleted one"} \cap us_trouble = {}

UsbInv == UsbTypes /\ UsbPlaces /\ UsbRefs /\ UsbReads /\ UsbUnused

LEMMA StructuresAreNumbers ==
  ASSUME NEW k
  PROVE  /\ MaxPlugs \in Nat
         /\ k \in Structures <=> k \in Nat /\ k # 0 /\ k <= MaxPlugs
PROOF
  BY UsbAssumption DEF Structures

LEMMA UpdateTyped ==
  ASSUME NEW S, NEW T, NEW h \in [S -> T], NEW x \in S, NEW v \in T
  PROVE  [h EXCEPT ![x] = v] \in [S -> T]
PROOF
  OBVIOUS

LEMMA UsbCardinality ==
  ASSUME NEW k
  PROVE  Usb!Cardinality({f \in UsbFiles : us_private_data[f] = k})
           = Cardinality(Holders(k))
PROOF
  BY DEF Usb!Cardinality, Cardinality, Holders

\* The files of a structure as one more or one fewer has it open
LEMMA HoldersMore ==
  ASSUME UsbTypes, NEW f \in UsbFiles, NEW k \in Nat, NEW p \in Nat,
         us_private_data' = [us_private_data EXCEPT ![f] = p], us_private_data[f] # p
  PROVE  /\ Cardinality(Holders(k)) \in Nat
         /\ Cardinality(Holders(k))' =
              Cardinality(Holders(k)) + (IF k = p THEN 1 ELSE 0)
                                      - (IF k = us_private_data[f] THEN 1 ELSE 0)
         /\ f \in Holders(k) => Cardinality(Holders(k)) >= 1
PROOF
  <1> DEFINE H == Holders(k)
             H1 == Holders(k)'
  <1>1. IsFiniteSet(H)
    <2>1. H \subseteq UsbFiles
      BY DEF Holders
    <2> QED BY <2>1, UsbAssumption, FS_Subset
  <1>2. /\ k = p => H1 = H \cup {f} /\ f \notin H
        /\ k = us_private_data[f] => H1 = H \ {f} /\ f \in H
        /\ k # p /\ k # us_private_data[f] => H1 = H
    BY DEF Holders, UsbTypes
  <1>3. /\ Cardinality(H) \in Nat
        /\ f \notin H => Cardinality(H \cup {f}) = Cardinality(H) + 1
        /\ f \in H => Cardinality(H \ {f}) = Cardinality(H) - 1
        /\ Cardinality(H \ {f}) \in Nat
    <2> HIDE DEF H
    <2>1. IsFiniteSet(H \ {f})
      BY <1>1, FS_RemoveElement
    <2> QED BY <1>1, <2>1, FS_CardinalityType, FS_AddElement, FS_RemoveElement
  <1>4. Cardinality(Holders(k))' = Cardinality(H1)
    OBVIOUS
  <1>5. f \in H => Cardinality(H) >= 1
    <2> HIDE DEF H
    <2> QED BY <1>3
  <1> HIDE DEF H, H1
  <1>6. Cardinality(H1) = Cardinality(H) + (IF k = p THEN 1 ELSE 0)
                                - (IF k = us_private_data[f] THEN 1 ELSE 0)
    <2>1. /\ k = p => Cardinality(H1) = Cardinality(H) + 1
          /\ k = us_private_data[f] => Cardinality(H1) = Cardinality(H) - 1
          /\ k # p /\ k # us_private_data[f] => Cardinality(H1) = Cardinality(H)
      BY <1>2, <1>3, Zenon
    <2> QED BY <2>1, <1>3
  <1> QED BY <1>3, <1>4, <1>5, <1>6 DEF H

LEMMA HoldersCounted ==
  ASSUME NEW k
  PROVE  /\ Cardinality(Holders(k)) \in Nat
         /\ \A f \in UsbFiles : us_private_data[f] = k => Cardinality(Holders(k)) >= 1
PROOF
  <1>1. IsFiniteSet(Holders(k))
    <2>1. Holders(k) \subseteq UsbFiles
      BY DEF Holders
    <2> QED BY <2>1, UsbAssumption, FS_Subset
  <1>2. Cardinality(Holders(k)) \in Nat
    BY <1>1, FS_CardinalityType
  <1>3. ASSUME NEW f \in UsbFiles, us_private_data[f] = k
        PROVE  Cardinality(Holders(k)) >= 1
    <2>1. f \in Holders(k)
      BY <1>3 DEF Holders
    <2>2. Cardinality(Holders(k)) # 0
      BY <1>1, <2>1, FS_EmptySet
    <2> QED BY <1>2, <2>2
  <1> QED BY <1>2, <1>3

LEMMA HoldersSame ==
  ASSUME UNCHANGED us_private_data, NEW k
  PROVE  Cardinality(Holders(k))' = Cardinality(Holders(k))
PROOF
  BY DEF Holders

LEMMA UsbInitInv ==
  ASSUME Usb!Init
  PROVE  UsbInv
PROOF
  <1> USE DEF Usb!Init, Usb!Devs, Structures
  <1>1. UsbTypes /\ UsbPlaces /\ UsbReads /\ UsbUnused
    BY UsbAssumption DEF UsbTypes, UsbPlaces, UsbReads, UsbUnused
  <1>2. ASSUME NEW k \in Structures
        PROVE  kref[k] = Cardinality(Holders(k)) + Interface(k) /\ ~deleted[k]
    <2>1. Holders(k) = {}
      BY DEF Holders
    <2>2. Cardinality(Holders(k)) = 0
      BY <2>1, FS_EmptySet
    <2> QED BY <2>2 DEF Interface
  <1>3. UsbRefs
    BY <1>2 DEF UsbRefs
  <1> QED BY <1>1, <1>3 DEF UsbInv

LEMMA SkelProbe ==
  ASSUME UsbInv, Usb!skel_probe
  PROVE  UsbInv'
PROOF
  <1> USE DEF UsbInv, Usb!Devs
  <1>1. UsbTypes' /\ UsbPlaces' /\ UsbReads' /\ UsbUnused'
    <2> DEFINE n == plug.count + 1
    <2>1. n \in Structures /\ n \in Nat /\ plug.at = "out"
      BY StructuresAreNumbers DEF Usb!skel_probe, UsbTypes
    <2>2. /\ UNCHANGED <<minor, lock, us_at, us_private_data, found, bulk_in_buffer,
                         sent, us_trouble>>
          /\ \/ /\ plug' = [count |-> n, at |-> "probed"]
                /\ kref' = [kref EXCEPT ![n] = 1]
                /\ intfdata' = n
                /\ deleted' = deleted
             \/ /\ plug' = [count |-> n, at |-> "out"]
                /\ deleted' = [deleted EXCEPT ![n] = TRUE]
                /\ kref' = kref /\ intfdata' = intfdata
      BY DEF Usb!skel_probe
    <2> HIDE DEF n
    <2>3. UsbTypes'
      <3>1. plug' \in [count : Nat, at : {"out", "probed", "in", "leaving", "left"}]
            /\ plug'.count <= MaxPlugs
        BY <2>1, <2>2, StructuresAreNumbers
      <3>2. kref' \in [Structures -> Int] /\ deleted' \in [Structures -> BOOLEAN]
        <4>1. kref \in [Structures -> Int] /\ deleted \in [Structures -> BOOLEAN]
          BY DEF UsbTypes
        <4>2. /\ [kref EXCEPT ![n] = 1] \in [Structures -> Int]
              /\ [deleted EXCEPT ![n] = TRUE] \in [Structures -> BOOLEAN]
          BY <2>1, <4>1
        <4> QED BY <2>2, <4>1, <4>2, Zenon
      <3> QED BY <3>1, <3>2, <2>2 DEF UsbTypes
    <2>4. UsbPlaces'
      <3>1. plug'.count = n /\ plug'.at \in {"out", "probed"}
            /\ intfdata' = IF plug'.at = "probed" THEN n ELSE 0
        BY <2>1, <2>2 DEF UsbPlaces
      <3>2. \A f \in UsbFiles : us_private_data[f] <= n /\ us_at[f] # "found"
        BY <2>1 DEF UsbPlaces, UsbTypes, n
      <3>3. ~minor' /\ us_private_data' = us_private_data /\ us_at' = us_at
        BY <2>1, <2>2 DEF UsbPlaces
      <3>4. \A f \in UsbFiles : us_private_data[f] # 0 <=> us_at[f] \in {"open", "copy"}
        BY DEF UsbPlaces
      <3>5. n # 0
        BY <2>1, StructuresAreNumbers
      <3> QED BY <2>1, <3>1, <3>2, <3>3, <3>4, <3>5 DEF UsbPlaces
    <2>5. UsbReads' /\ UsbUnused'
      BY <2>2, Zenon DEF UsbReads, UsbUnused
    <2> QED BY <2>3, <2>4, <2>5
  <1>2. ASSUME NEW k \in Structures
        PROVE  /\ kref'[k] = Cardinality(Holders(k))' + Interface(k)'
               /\ deleted'[k] <=> k <= plug'.count /\ kref'[k] = 0
    <2>1. Cardinality(Holders(k))' = Cardinality(Holders(k))
      BY HoldersSame DEF Usb!skel_probe
    <2>2. Cardinality(Holders(k)) \in Nat
      BY HoldersCounted
    <2>3. k = plug.count + 1 => Cardinality(Holders(k)) = 0
      <3>1. ASSUME k = plug.count + 1  PROVE Holders(k) = {}
        BY <3>1, StructuresAreNumbers DEF Holders, UsbPlaces, UsbTypes
      <3> QED BY <3>1, FS_EmptySet
    <2>4. /\ kref[k] = Cardinality(Holders(k)) + Interface(k)
          /\ deleted[k] <=> k <= plug.count /\ kref[k] = 0
      BY DEF UsbRefs
    <2>5. plug.at = "out" /\ plug.count \in Nat
      BY DEF Usb!skel_probe, UsbTypes
    <2>6. Interface(k) = 0 /\ Interface(k)' = IF k = plug'.count /\ plug'.at # "out" THEN 1 ELSE 0
      BY <2>5 DEF Interface
    <2>7. kref \in [Structures -> Int] /\ deleted \in [Structures -> BOOLEAN]
      BY DEF UsbTypes
    <2>8. CASE /\ plug' = [count |-> plug.count + 1, at |-> "probed"]
               /\ kref' = [kref EXCEPT ![plug.count + 1] = 1] /\ deleted' = deleted
      <3>1. Interface(k)' = IF k = plug.count + 1 THEN 1 ELSE 0
        BY <2>6, <2>8
      <3>2. kref'[k] = IF k = plug.count + 1 THEN 1 ELSE kref[k]
        BY <2>7, <2>8
      <3>3. plug'.count = plug.count + 1
        BY <2>8
      <3> QED BY <2>1, <2>2, <2>3, <2>4, <2>5, <2>6, <2>7, <2>8, StructuresAreNumbers, <3>1, <3>2, <3>3
    <2>9. CASE /\ plug' = [count |-> plug.count + 1, at |-> "out"]
               /\ deleted' = [deleted EXCEPT ![plug.count + 1] = TRUE] /\ kref' = kref
      <3>1. Interface(k)' = 0 /\ plug'.count = plug.count + 1
        BY <2>6, <2>9
      <3>2. deleted'[k] <=> k = plug.count + 1 \/ deleted[k]
        BY <2>7, <2>9
      <3> QED BY <2>1, <2>2, <2>3, <2>4, <2>5, <2>6, <2>7, <2>9, StructuresAreNumbers, <3>1, <3>2
    <2> QED BY <2>8, <2>9 DEF Usb!skel_probe
  <1>3. UsbRefs'
    BY <1>2 DEF UsbRefs
  <1> QED BY <1>1, <1>3

\* kref_put of the newest structure by its interface
LEMMA InterfacePut ==
  ASSUME UsbInv, plug.at # "out", plug' = [plug EXCEPT !.at = "out"],
         Usb!Put(plug.count), UNCHANGED us_private_data
  PROVE  UsbRefs' /\ kref' \in [Structures -> Int]
         /\ deleted' \in [Structures -> BOOLEAN]
PROOF
  <1> DEFINE n == plug.count
  <1>1. /\ n \in Structures /\ n \in Nat /\ plug'.at = "out" /\ plug'.count = n
        /\ kref \in [Structures -> Int] /\ deleted \in [Structures -> BOOLEAN]
    BY StructuresAreNumbers DEF UsbInv, UsbTypes, UsbPlaces
  <1>2. /\ kref' = [kref EXCEPT ![n] = @ - 1]
        /\ deleted' = [deleted EXCEPT ![n] = @ \/ kref[n] = 1]
    BY DEF Usb!Put
  <1> HIDE DEF n
  <1>3. ASSUME NEW k \in Structures
        PROVE  /\ kref'[k] = Cardinality(Holders(k))' + Interface(k)'
               /\ deleted'[k] <=> k <= plug'.count /\ kref'[k] = 0
    <2>1. Cardinality(Holders(k))' = Cardinality(Holders(k))
      BY HoldersSame
    <2>2. Cardinality(Holders(k)) \in Nat
      BY HoldersCounted
    <2>3. /\ kref[k] = Cardinality(Holders(k)) + Interface(k)
          /\ deleted[k] <=> k <= n /\ kref[k] = 0
      BY DEF UsbInv, UsbRefs, n
    <2>4. /\ Interface(k)' = 0
          /\ Interface(k) = IF k = n THEN 1 ELSE 0
      BY <1>1 DEF Interface, n
    <2>5. kref'[k] = IF k = n THEN kref[k] - 1 ELSE kref[k]
      BY <1>1, <1>2
    <2>6. deleted'[k] <=> deleted[k] \/ (k = n /\ kref[k] = 1)
      BY <1>1, <1>2
    <2> QED BY <1>1, <2>1, <2>2, <2>3, <2>4, <2>5, <2>6
  <1>4. kref' \in [Structures -> Int] /\ deleted' \in [Structures -> BOOLEAN]
    BY <1>1, <1>2
  <1> QED BY <1>3, <1>4 DEF UsbRefs

\* Nothing that counts changes.
LEMMA RefsSame ==
  ASSUME UsbInv, UNCHANGED <<kref, deleted, us_private_data>>,
         plug'.count = plug.count, plug.at # "out" <=> plug'.at # "out"
  PROVE  UsbRefs'
PROOF
  <1>1. ASSUME NEW k  PROVE Interface(k)' = Interface(k)
    BY DEF Interface
  <1>2. ASSUME NEW k  PROVE Cardinality(Holders(k))' = Cardinality(Holders(k))
    BY HoldersSame
  <1> QED BY <1>1, <1>2 DEF UsbRefs, UsbInv

LEMMA SkelRegister ==
  ASSUME UsbInv, Usb!Register
  PROVE  UsbInv'
PROOF
  <1>1. UNCHANGED <<lock, us_at, us_private_data, found, bulk_in_buffer, sent, us_trouble>>
        /\ plug.at = "probed"
    BY DEF Usb!Register
  <1>2. UsbReads' /\ UsbUnused'
    BY <1>1, Zenon DEF UsbInv, UsbReads, UsbUnused
  <1>3. CASE /\ plug' = [plug EXCEPT !.at = "in"] /\ minor' = TRUE
             /\ UNCHANGED <<intfdata, kref, deleted>>
    <2>1. UsbTypes' /\ UsbPlaces'
      BY <1>1, <1>3 DEF UsbInv, UsbTypes, UsbPlaces
    <2>2. plug'.count = plug.count /\ (plug.at # "out" <=> plug'.at # "out")
      BY <1>1, <1>3 DEF UsbInv, UsbTypes
    <2>3. UsbRefs'
      BY <1>1, <1>3, <2>2, RefsSame
    <2> QED BY <1>2, <2>1, <2>3 DEF UsbInv
  <1>4. CASE /\ plug' = [plug EXCEPT !.at = "out"] /\ Usb!Put(plug.count)
             /\ intfdata' = 0 /\ UNCHANGED minor
    <2>1. UsbRefs' /\ kref' \in [Structures -> Int]
          /\ deleted' \in [Structures -> BOOLEAN]
      BY <1>1, <1>4, InterfacePut
    <2>2. UsbTypes' /\ UsbPlaces'
      BY <1>1, <1>4, <2>1 DEF UsbInv, UsbTypes, UsbPlaces
    <2> QED BY <1>2, <2>1, <2>2 DEF UsbInv
  <1> QED BY <1>3, <1>4 DEF Usb!Register, Usb!Hubs, Usb!dev

LEMMA SkelDisconnect ==
  ASSUME UsbInv, Usb!skel_disconnect
  PROVE  UsbInv'
PROOF
  <1>1. UNCHANGED <<us_at, us_private_data, found, bulk_in_buffer, sent, us_trouble>>
    BY DEF Usb!skel_disconnect
  <1>2. UsbReads' /\ UsbUnused'
    BY <1>1, Zenon DEF UsbInv, UsbReads, UsbUnused
  <1>3. CASE /\ plug.at = "in" /\ lock = {} /\ plug' = [plug EXCEPT !.at = "leaving"]
             /\ lock' = lock \cup {Usb!Hub}
             /\ intfdata' = 0 /\ UNCHANGED <<minor, kref, deleted>>
    <2>1. UsbTypes' /\ UsbPlaces'
      BY <1>1, <1>3 DEF UsbInv, UsbTypes, UsbPlaces
    <2>2. plug'.count = plug.count /\ (plug.at # "out" <=> plug'.at # "out")
      BY <1>1, <1>3 DEF UsbInv, UsbTypes
    <2>3. UsbRefs'
      BY <1>1, <1>3, <2>2, RefsSame
    <2> QED BY <1>2, <2>1, <2>3 DEF UsbInv
  <1>4. CASE /\ plug.at = "leaving" /\ plug' = [plug EXCEPT !.at = "left"]
             /\ minor' = FALSE /\ lock' = lock \ {Usb!Hub}
             /\ UNCHANGED <<intfdata, kref, deleted>>
    <2>1. UsbTypes' /\ UsbPlaces'
      BY <1>1, <1>4 DEF UsbInv, UsbTypes, UsbPlaces
    <2>2. plug'.count = plug.count /\ (plug.at # "out" <=> plug'.at # "out")
      BY <1>1, <1>4 DEF UsbInv, UsbTypes
    <2>3. UsbRefs'
      BY <1>1, <1>4, <2>2, RefsSame
    <2> QED BY <1>2, <2>1, <2>3 DEF UsbInv
  <1>5. CASE /\ plug.at = "left" /\ plug' = [plug EXCEPT !.at = "out"]
             /\ Usb!Put(plug.count) /\ UNCHANGED <<intfdata, minor, lock>>
    <2>1. UsbRefs' /\ kref' \in [Structures -> Int]
          /\ deleted' \in [Structures -> BOOLEAN]
      BY <1>1, <1>5, InterfacePut
    <2>2. UsbTypes' /\ UsbPlaces'
      BY <1>1, <1>5, <2>1 DEF UsbInv, UsbTypes, UsbPlaces
    <2> QED BY <1>2, <2>1, <2>2 DEF UsbInv
  <1> QED BY <1>3, <1>4, <1>5 DEF Usb!skel_disconnect, Usb!Hubs, Usb!dev, Usb!Lockable

LEMMA SkelFind ==
  ASSUME UsbInv, NEW f \in UsbFiles, Usb!Find(f)
  PROVE  UsbInv'
PROOF
  <1>1. /\ UNCHANGED <<plug, intfdata, minor, kref, deleted, us_private_data,
                       bulk_in_buffer, sent, us_trouble>>
        /\ us_at[f] = "closed" /\ lock' = {f} /\ minor /\ intfdata # 0
        /\ found' = [found EXCEPT ![f] = intfdata]
        /\ us_at' = [us_at EXCEPT ![f] = "found"]
    BY DEF Usb!Find, Usb!Go
  <1>2. lock = {}
    BY DEF Usb!Find
  <1>3. plug.at = "in" /\ intfdata = plug.count
    BY <1>1 DEF UsbInv, UsbPlaces, UsbTypes
  <1>4. UsbTypes'
    BY <1>1, <1>3 DEF UsbInv, UsbTypes
  <1>5. UsbPlaces'
    <2>1. ASSUME NEW g \in UsbFiles
          PROVE  /\ us_at'[g] = "found" => g \in lock' /\ found'[g] = plug.count
                 /\ us_private_data[g] # 0 <=> us_at'[g] \in {"open", "copy"}
      BY <1>1, <1>2, <1>3 DEF UsbInv, UsbPlaces, UsbTypes
    <2> QED BY <2>1, <1>1, <1>3 DEF UsbInv, UsbPlaces
  <1>6. UsbRefs'
    BY <1>1, RefsSame
  <1>7. UsbReads' /\ UsbUnused'
    <2>1. ASSUME NEW g \in UsbFiles
          PROVE  us_at'[g] = "copy" => us_at[g] = "copy" /\ found'[g] = found[g]
      BY <1>1 DEF UsbInv, UsbTypes
    <2> QED BY <2>1, <1>1 DEF UsbInv, UsbReads, UsbUnused
  <1> QED BY <1>4, <1>5, <1>6, <1>7 DEF UsbInv

LEMMA SkelGet ==
  ASSUME UsbInv, NEW f \in UsbFiles, Usb!Get(f)
  PROVE  UsbInv'
PROOF
  <1> DEFINE n == plug.count
  <1>1. /\ UNCHANGED <<plug, intfdata, minor, deleted, bulk_in_buffer, sent>>
        /\ us_at[f] = "found" /\ lock' = lock \ {f}
        /\ found' = [found EXCEPT ![f] = 0]
        /\ us_at' = [us_at EXCEPT ![f] = "open"]
        /\ kref' = [kref EXCEPT ![found[f]] = @ + 1]
        /\ us_private_data' = [us_private_data EXCEPT ![f] = found[f]]
    BY DEF Usb!Get, Usb!Go
  <1>2. /\ found[f] = n /\ plug.at = "in" /\ us_private_data[f] = 0
        /\ n \in Structures /\ n \in Nat
    <2>1. us_at[f] = "found"
      BY <1>1
    <2>2. found[f] = n /\ plug.at = "in" /\ us_private_data[f] = 0 /\ n # 0
      BY <2>1 DEF UsbInv, UsbPlaces
    <2> QED BY <2>2, StructuresAreNumbers DEF UsbInv, UsbTypes
  <1>3. Cardinality(Holders(n)) \in Nat
    BY HoldersCounted
  <1>4. /\ kref[n] = Cardinality(Holders(n)) + 1
        /\ deleted[n] <=> kref[n] = 0
    BY <1>2 DEF UsbInv, UsbRefs, Interface
  <1>5. ~deleted[n] /\ us_trouble' = us_trouble
    <2>1. ~deleted[n]
      BY <1>3, <1>4
    <2>2. us_trouble' = us_trouble \cup Usb!If("found a deleted one", deleted[found[f]])
      BY DEF Usb!Get
    <2>3. Usb!If("found a deleted one", deleted[found[f]]) = {}
      BY <2>1, <1>2 DEF Usb!If
    <2> QED BY <2>1, <2>2, <2>3
  <1>6. UsbTypes'
    <2>1. /\ kref' = [kref EXCEPT ![n] = @ + 1]
          /\ us_private_data' = [us_private_data EXCEPT ![f] = n]
      BY <1>1, <1>2, Zenon
    <2>2. kref' \in [Structures -> Int]
      <3> HIDE DEF n
      <3> QED BY <2>1, <1>2 DEF UsbInv, UsbTypes
    <2>3. us_private_data' \in [UsbFiles -> Nat]
      <3> HIDE DEF n
      <3> QED BY <2>1, <1>2 DEF UsbInv, UsbTypes
    <2>4. us_at' \in [UsbFiles -> {"closed", "found", "open", "copy"}]
      BY <1>1 DEF UsbInv, UsbTypes
    <2>5. found' \in [UsbFiles -> Int]
      BY <1>1 DEF UsbInv, UsbTypes
    <2> QED BY <2>2, <2>3, <2>4, <2>5, <1>1 DEF UsbInv, UsbTypes
  <1>7. UsbPlaces'
    <2>1. ASSUME NEW g \in UsbFiles
          PROVE  /\ us_at'[g] = "found" => g \in lock' /\ found'[g] = n
                 /\ us_private_data'[g] <= n
                 /\ us_private_data'[g] # 0 <=> us_at'[g] \in {"open", "copy"}
      <3>1. g # f => UNCHANGED <<us_at[g], found[g], us_private_data[g]>>
        BY <1>1 DEF UsbInv, UsbTypes
      <3>2. us_at'[f] = "open" /\ us_private_data'[f] = n
        BY <1>1, <1>2 DEF UsbInv, UsbTypes
      <3>3. /\ us_at[g] = "found" => g \in lock /\ found[g] = n
            /\ us_private_data[g] <= n
            /\ us_private_data[g] # 0 <=> us_at[g] \in {"open", "copy"}
        BY DEF UsbInv, UsbPlaces
      <3> HIDE DEF n
      <3>4. CASE g = f
        BY <3>4, <3>2, <1>2, StructuresAreNumbers
      <3>5. CASE g # f
        BY <3>5, <3>1, <3>3, <1>1
      <3> QED BY <3>4, <3>5
    <2> QED BY <2>1, <1>1, <1>2 DEF UsbInv, UsbPlaces
  <1>8. UsbRefs'
    <2> SUFFICES ASSUME NEW k \in Structures
                 PROVE  /\ kref'[k] = Cardinality(Holders(k))' + Interface(k)'
                        /\ deleted'[k] <=> k <= plug'.count /\ kref'[k] = 0
      BY DEF UsbRefs
    <2>1. us_private_data' = [us_private_data EXCEPT ![f] = n] /\ us_private_data[f] # n
      <3>1. us_private_data' = [us_private_data EXCEPT ![f] = n]
        BY <1>1, <1>2, Zenon
      <3> QED BY <3>1, <1>2, StructuresAreNumbers
    <2>2. Cardinality(Holders(k))' = Cardinality(Holders(k)) + (IF k = n THEN 1 ELSE 0)
          /\ Cardinality(Holders(k)) \in Nat
      <3>1. k \in Nat /\ k # 0
        BY StructuresAreNumbers
      <3>2. /\ Cardinality(Holders(k)) \in Nat
            /\ Cardinality(Holders(k))' =
                 Cardinality(Holders(k)) + (IF k = n THEN 1 ELSE 0)
                                         - (IF k = us_private_data[f] THEN 1 ELSE 0)
        <4> HIDE DEF n
        <4> QED BY <3>1, <2>1, <1>2, HoldersMore DEF UsbInv
      <3> HIDE DEF n
      <3> QED BY <3>1, <3>2, <1>2
    <2>3. kref'[k] = IF k = n THEN kref[k] + 1 ELSE kref[k]
      BY <1>1, <1>2 DEF UsbInv, UsbTypes
    <2>4. Interface(k)' = Interface(k) /\ Interface(k) \in {0, 1}
      BY <1>1 DEF Interface
    <2>5. /\ kref[k] = Cardinality(Holders(k)) + Interface(k)
          /\ deleted[k] <=> k <= n /\ kref[k] = 0
      BY DEF UsbInv, UsbRefs
    <2>6. plug'.count = n /\ deleted' = deleted
      BY <1>1
    <2> HIDE DEF n
    <2> QED BY <1>3, <1>4, <1>5, <2>2, <2>3, <2>4, <2>5, <2>6
  <1>9. UsbReads' /\ UsbUnused'
    <2>1. ASSUME NEW g \in UsbFiles
          PROVE  us_at'[g] = "copy" => /\ us_at[g] = "copy" /\ found'[g] = found[g]
                                       /\ us_private_data'[g] = us_private_data[g]
      BY <1>1 DEF UsbInv, UsbTypes
    <2> QED BY <2>1, <1>1, <1>5 DEF UsbInv, UsbReads, UsbUnused
  <1> QED BY <1>6, <1>7, <1>8, <1>9 DEF UsbInv

LEMMA SkelRelease ==
  ASSUME UsbInv, NEW f \in UsbFiles, Usb!skel_release(f)
  PROVE  UsbInv'
PROOF
  <1> DEFINE p == us_private_data[f]
  <1>1. /\ UNCHANGED <<plug, intfdata, minor, lock, found, bulk_in_buffer, sent, us_trouble>>
        /\ us_at[f] = "open"
        /\ us_at' = [us_at EXCEPT ![f] = "closed"]
        /\ kref' = [kref EXCEPT ![p] = @ - 1]
        /\ deleted' = [deleted EXCEPT ![p] = @ \/ kref[p] = 1]
        /\ us_private_data' = [us_private_data EXCEPT ![f] = 0]
    BY Zenon DEF Usb!skel_release, Usb!Go, Usb!Put
  <1>2. p # 0 /\ p \in Structures /\ p <= plug.count /\ p \in Nat /\ plug.count \in Nat
    BY <1>1, StructuresAreNumbers DEF UsbInv, UsbTypes, UsbPlaces
  <1>3. UsbTypes'
    <2>1. /\ us_private_data' \in [UsbFiles -> Nat]
          /\ us_at' \in [UsbFiles -> {"closed", "found", "open", "copy"}]
      BY <1>1 DEF UsbInv, UsbTypes
    <2>2. kref' \in [Structures -> Int] /\ deleted' \in [Structures -> BOOLEAN]
      <3>1. /\ kref \in [Structures -> Int] /\ deleted \in [Structures -> BOOLEAN]
        BY DEF UsbInv, UsbTypes
      <3> HIDE DEF p
      <3>2. [kref EXCEPT ![p] = @ - 1] \in [Structures -> Int]
        BY <1>2, <3>1
      <3>3. [deleted EXCEPT ![p] = @ \/ kref[p] = 1] \in [Structures -> BOOLEAN]
        BY <1>2, <3>1
      <3> QED BY <1>1, <3>2, <3>3, Zenon
    <2> QED BY <1>1, <2>1, <2>2 DEF UsbInv, UsbTypes
  <1>4. UsbPlaces'
    <2>1. ASSUME NEW g \in UsbFiles
          PROVE  /\ us_at'[g] = "found" => us_at[g] = "found"
                 /\ us_private_data'[g] <= plug.count
                 /\ us_private_data'[g] # 0 <=> us_at'[g] \in {"open", "copy"}
      BY <1>1, <1>2 DEF UsbInv, UsbPlaces, UsbTypes
    <2> QED BY <2>1, <1>1, <1>2 DEF UsbInv, UsbPlaces
  <1>5. UsbRefs'
    <2> SUFFICES ASSUME NEW k \in Structures
                 PROVE  /\ kref'[k] = Cardinality(Holders(k))' + Interface(k)'
                        /\ deleted'[k] <=> k <= plug'.count /\ kref'[k] = 0
      BY DEF UsbRefs
    <2>1. us_private_data[f] # 0
      BY <1>2
    <2>2. /\ Cardinality(Holders(k))' = Cardinality(Holders(k)) - (IF k = p THEN 1 ELSE 0)
          /\ Cardinality(Holders(k)) \in Nat
          /\ k = p => Cardinality(Holders(k)) >= 1
      <3>1. k \in Nat /\ k # 0
        BY StructuresAreNumbers
      <3>2. /\ Cardinality(Holders(k)) \in Nat
            /\ Cardinality(Holders(k))' =
                 Cardinality(Holders(k)) + (IF k = 0 THEN 1 ELSE 0)
                                         - (IF k = us_private_data[f] THEN 1 ELSE 0)
        BY <3>1, <2>1, <1>1, HoldersMore DEF UsbInv
      <3>3. k = p => Cardinality(Holders(k)) >= 1
        BY HoldersCounted
      <3> QED BY <3>1, <3>2, <3>3
    <2>3. kref'[k] = IF k = p THEN kref[k] - 1 ELSE kref[k]
      BY <1>1, <1>2 DEF UsbInv, UsbTypes
    <2>4. deleted'[k] <=> deleted[k] \/ (k = p /\ kref[k] = 1)
      BY <1>1, <1>2 DEF UsbInv, UsbTypes
    <2>5. Interface(k)' = Interface(k) /\ Interface(k) \in {0, 1}
      BY <1>1 DEF Interface
    <2>6. /\ kref[k] = Cardinality(Holders(k)) + Interface(k)
          /\ deleted[k] <=> k <= plug.count /\ kref[k] = 0
          /\ kref[k] \in Int
      BY DEF UsbInv, UsbRefs, UsbTypes
    <2>7. plug'.count = plug.count
      BY <1>1
    <2> HIDE DEF p
    <2>8. kref'[k] = Cardinality(Holders(k))' + Interface(k)'
      <3>1. CASE k = p
        BY <3>1, <2>2, <2>3, <2>5, <2>6
      <3>2. CASE k # p
        BY <3>2, <2>2, <2>3, <2>5, <2>6
      <3> QED BY <3>1, <3>2
    <2>9. ASSUME k = p  PROVE kref[k] >= 1
      <3>1. Cardinality(Holders(k)) >= 1 /\ Cardinality(Holders(k)) \in Nat
        BY <2>2, <2>9
      <3> QED BY <3>1, <2>5, <2>6
    <2>10. deleted'[k] <=> k <= plug.count /\ kref'[k] = 0
      BY <1>2, <2>3, <2>4, <2>6, <2>9
    <2> QED BY <2>7, <2>8, <2>10
  <1>6. UsbReads' /\ UsbUnused'
    <2>1. ASSUME NEW g \in UsbFiles
          PROVE  us_at'[g] = "copy" => /\ us_at[g] = "copy"
                                       /\ us_private_data'[g] = us_private_data[g]
      BY <1>1 DEF UsbInv, UsbTypes
    <2> QED BY <2>1, <1>1 DEF UsbInv, UsbReads, UsbUnused
  <1> QED BY <1>3, <1>4, <1>5, <1>6 DEF UsbInv

\* A structure that is open has not been deleted.
LEMMA OpenNotDeleted ==
  ASSUME UsbInv, NEW f \in UsbFiles, us_private_data[f] # 0
  PROVE  us_private_data[f] \in Structures /\ ~deleted[us_private_data[f]]
PROOF
  <1> DEFINE p == us_private_data[f]
  <1>1. p \in Structures
    BY StructuresAreNumbers DEF UsbInv, UsbTypes, UsbPlaces
  <1>2. Cardinality(Holders(p)) \in Nat /\ Cardinality(Holders(p)) >= 1
    BY HoldersCounted
  <1>3. /\ kref[p] = Cardinality(Holders(p)) + Interface(p)
        /\ deleted[p] <=> p <= plug.count /\ kref[p] = 0
    BY <1>1 DEF UsbInv, UsbRefs
  <1>4. Interface(p) = 0 \/ Interface(p) = 1
    BY DEF Interface
  <1> HIDE DEF p
  <1>5. ~deleted[p]
    BY <1>2, <1>3, <1>4
  <1> QED BY <1>1, <1>5 DEF p

LEMMA NothingAdded ==
  ASSUME NEW what, NEW when, ~when
  PROVE  Usb!If(what, when) = {}
PROOF
  BY DEF Usb!If

LEMMA SkelReceive ==
  ASSUME UsbInv, NEW f \in UsbFiles, Usb!Receive(f)
  PROVE  UsbInv'
PROOF
  <1> DEFINE p == us_private_data[f]
             others == \E g \in UsbFiles : us_at[g] = "copy"
  <1>1. /\ UNCHANGED <<plug, intfdata, minor, kref, deleted, lock, us_private_data>>
        /\ us_at[f] = "open" /\ sent' = sent + 1
        /\ bulk_in_buffer' = [bulk_in_buffer EXCEPT ![p] = sent']
        /\ found' = [found EXCEPT ![f] = sent']
        /\ us_at' = [us_at EXCEPT ![f] = "copy"]
    BY DEF Usb!Receive, Usb!Go
  <1>2. us_private_data[f] # 0
    BY <1>1 DEF UsbInv, UsbPlaces
  <1>3. p \in Structures /\ ~deleted[p]
    BY <1>2, OpenNotDeleted
  <1>4. us_trouble' = us_trouble \cup Usb!If("two readers", others)
    <2>1. us_trouble' = us_trouble \cup Usb!If("two readers", others)
                                   \cup Usb!If("used a deleted one", deleted[p])
      BY Zenon DEF Usb!Receive
    <2>2. Usb!If("used a deleted one", deleted[p]) = {}
      BY <1>3, NothingAdded
    <2> QED BY <2>1, <2>2
  <1>5. UsbTypes'
    <2>1. us_at' \in [UsbFiles -> {"closed", "found", "open", "copy"}]
      BY <1>1 DEF UsbInv, UsbTypes
    <2>2. sent' \in Int
      BY <1>1 DEF UsbInv, UsbTypes
    <2>3. found' \in [UsbFiles -> Int]
      BY <1>1, <2>2 DEF UsbInv, UsbTypes
    <2>4. bulk_in_buffer' \in [Structures -> Int]
      <3> HIDE DEF p
      <3> QED BY <1>1, <1>3, <2>2 DEF UsbInv, UsbTypes
    <2> QED BY <1>1, <2>1, <2>2, <2>3, <2>4 DEF UsbInv, UsbTypes
  <1>6. UsbPlaces'
    <2>1. ASSUME NEW g \in UsbFiles
          PROVE  /\ us_at'[g] = "found" => us_at[g] = "found" /\ found'[g] = found[g]
                 /\ us_at'[g] \in {"open", "copy"} <=> us_at[g] \in {"open", "copy"}
      BY <1>1 DEF UsbInv, UsbTypes
    <2> QED BY <2>1, <1>1 DEF UsbInv, UsbPlaces
  <1>7. UsbRefs'
    BY <1>1, RefsSame
  <1>8. UsbUnused'
    BY <1>4 DEF UsbInv, UsbUnused, Usb!If
  <1>9. UsbReads'
    <2> SUFFICES ASSUME "two readers" \notin us_trouble'
                 PROVE  /\ \A g, h \in UsbFiles :
                             us_at'[g] = "copy" /\ us_at'[h] = "copy" => g = h
                        /\ \A g \in UsbFiles : us_at'[g] = "copy" =>
                             bulk_in_buffer'[us_private_data'[g]] = found'[g]
                        /\ "misread" \notin us_trouble'
      BY DEF UsbReads
    <2>1. "two readers" \notin us_trouble /\ ~others
      BY <1>4 DEF Usb!If
    <2>2. "misread" \notin us_trouble'
      BY <1>4, <2>1 DEF UsbInv, UsbReads, Usb!If
    <2>3. \A g \in UsbFiles : us_at'[g] = "copy" => g = f
      BY <1>1, <2>1 DEF UsbInv, UsbTypes
    <2>4. bulk_in_buffer'[us_private_data'[f]] = found'[f]
      <3>1. found'[f] = sent' /\ us_private_data'[f] = p
        BY <1>1 DEF UsbInv, UsbTypes
      <3>2. bulk_in_buffer'[p] = sent'
        <4> HIDE DEF p
        <4> QED BY <1>1, <1>3 DEF UsbInv, UsbTypes
      <3> QED BY <3>1, <3>2
    <2> QED BY <2>2, <2>3, <2>4
  <1> QED BY <1>5, <1>6, <1>7, <1>8, <1>9 DEF UsbInv

LEMMA SkelCopy ==
  ASSUME UsbInv, NEW f \in UsbFiles, Usb!Copy(f)
  PROVE  UsbInv'
PROOF
  <1> DEFINE p == us_private_data[f]
             wrong == bulk_in_buffer[p] # found[f]
  <1>1. /\ UNCHANGED <<plug, intfdata, minor, kref, deleted, lock, us_private_data,
                       bulk_in_buffer, sent>>
        /\ us_at[f] = "copy"
        /\ found' = [found EXCEPT ![f] = 0]
        /\ us_at' = [us_at EXCEPT ![f] = "open"]
    BY DEF Usb!Copy, Usb!Go
  <1>2. us_private_data[f] # 0
    BY <1>1 DEF UsbInv, UsbPlaces
  <1>3. ~deleted[p]
    BY <1>2, OpenNotDeleted
  <1>4. us_trouble' = us_trouble \cup Usb!If("misread", wrong)
    <2>1. us_trouble' = us_trouble \cup Usb!If("misread", wrong)
                                   \cup Usb!If("used a deleted one", deleted[p])
      BY Zenon DEF Usb!Copy
    <2>2. Usb!If("used a deleted one", deleted[p]) = {}
      BY <1>3, NothingAdded
    <2> QED BY <2>1, <2>2
  <1>5. UsbTypes'
    <2>1. us_at' \in [UsbFiles -> {"closed", "found", "open", "copy"}]
      BY <1>1 DEF UsbInv, UsbTypes
    <2>2. found' \in [UsbFiles -> Int]
      BY <1>1 DEF UsbInv, UsbTypes
    <2> QED BY <1>1, <2>1, <2>2 DEF UsbInv, UsbTypes
  <1>6. ASSUME NEW g \in UsbFiles
        PROVE  /\ us_at'[g] \in {"found", "copy"} =>
                    us_at'[g] = us_at[g] /\ found'[g] = found[g]
               /\ us_at'[g] \in {"open", "copy"} <=> us_at[g] \in {"open", "copy"}
    BY <1>1 DEF UsbInv, UsbTypes
  <1>7. UsbPlaces'
    BY <1>1, <1>6 DEF UsbInv, UsbPlaces
  <1>8. UsbRefs'
    BY <1>1, RefsSame
  <1>9. UsbUnused'
    BY <1>4 DEF UsbInv, UsbUnused, Usb!If
  <1>10. UsbReads'
    <2>1. "two readers" \in us_trouble' <=> "two readers" \in us_trouble
      BY <1>4 DEF Usb!If
    <2>2. "two readers" \notin us_trouble => "misread" \notin us_trouble'
      <3>1. ASSUME "two readers" \notin us_trouble  PROVE ~wrong
        BY <3>1, <1>1 DEF UsbInv, UsbReads
      <3> QED BY <3>1, <1>4 DEF UsbInv, UsbReads, Usb!If
    <2>3. \A g \in UsbFiles : us_at'[g] = "copy" => us_at[g] = "copy" /\ found'[g] = found[g]
      BY <1>6
    <2> QED BY <1>1, <2>1, <2>2, <2>3 DEF UsbInv, UsbReads
  <1> QED BY <1>5, <1>7, <1>8, <1>9, <1>10 DEF UsbInv

LEMMA SkelWrites ==
  ASSUME UsbInv, NEW f \in UsbFiles,
         Usb!skel_write(f) \/ Usb!skel_write_bulk_callback(f)
  PROVE  UsbInv'
PROOF
  <1>1. /\ UNCHANGED <<plug, intfdata, minor, kref, deleted, lock, us_at, us_private_data,
                       found, bulk_in_buffer, sent>>
        /\ us_trouble' = us_trouble
             \/ \E what \in {"no urb", "freed twice"} : us_trouble' = us_trouble \cup {what}
    BY DEF Usb!skel_write, Usb!skel_write_bulk_callback
  <1>2. UsbTypes' /\ UsbPlaces'
    BY <1>1 DEF UsbInv, UsbTypes, UsbPlaces
  <1>3. UsbRefs'
    BY <1>1, RefsSame
  <1>4. UsbReads' /\ UsbUnused'
    BY <1>1 DEF UsbInv, UsbReads, UsbUnused
  <1> QED BY <1>2, <1>3, <1>4 DEF UsbInv

LEMMA UsbSteps ==
  ASSUME UsbInv, Usb!Next
  PROVE  UsbInv'
PROOF
  BY SkelProbe, SkelRegister, SkelDisconnect, SkelFind, SkelGet, SkelRelease,
     SkelReceive, SkelCopy, SkelWrites DEF Usb!Next

LEMMA UsbRests ==
  ASSUME UsbInv,
         UNCHANGED <<plug, intfdata, minor, kref, deleted, lock, us_at, us_private_data,
                     found, bulk_in_buffer, sent, urbs, us_trouble>>
  PROVE  UsbInv'
PROOF
  <1>1. UsbRefs'
    BY RefsSame
  <1> QED BY <1>1 DEF UsbInv, UsbTypes, UsbPlaces, UsbReads, UsbUnused

LEMMA UsbInvProves ==
  ASSUME UsbInv
  PROVE  Usb!RefsExact /\ Usb!NothingDeletedUsed /\ Usb!ReadsOwnPacket
PROOF
  <1>1. ASSUME NEW k \in 1 .. plug.count
        PROVE  /\ kref[k] = Usb!Cardinality({f \in UsbFiles : us_private_data[f] = k})
                            + (IF k = plug.count /\ plug.at # "out" THEN 1 ELSE 0)
               /\ deleted[k] <=> kref[k] = 0
    <2>1. k \in Structures /\ k <= plug.count
      BY UsbAssumption DEF UsbInv, UsbTypes, Structures
    <2>2. Usb!Cardinality({f \in UsbFiles : us_private_data[f] = k})
            = Cardinality(Holders(k))
      BY UsbCardinality
    <2> QED BY <2>1, <2>2 DEF UsbInv, UsbRefs, Interface
  <1>2. Usb!RefsExact
    BY <1>1 DEF Usb!RefsExact, Usb!dev
  <1> QED BY <1>2 DEF UsbInv, UsbUnused, UsbReads, Usb!NothingDeletedUsed, Usb!ReadsOwnPacket

(***************************************************************************)
(* sbull: what the transfers of a request leave behind                     *)
(***************************************************************************)

\* The sectors of one segment of a request, and of all
Part(q, i) == {x \in Nat : q[i] <= x /\ x < q[i + 1]}
Whole(q) == {x \in Nat : q[1] <= x /\ x < q[Len(q)]}

LEMMA RequestFacts ==
  ASSUME NEW q \in Requests
  PROVE  /\ Len(q) \in Nat /\ Len(q) >= 2 /\ DOMAIN q = 1 .. Len(q)
         /\ \A i \in 1 .. Len(q) : q[i] \in Nat /\ q[i] # 0
         /\ \A i, j \in 1 .. Len(q) : i < j => q[i] < q[j]
         /\ \A i, j \in 1 .. Len(q) : i <= j => q[i] <= q[j]
         /\ Disk!Rounds(q) = 1 .. Len(q) - 1
         /\ \A i \in Disk!Rounds(q) : i \in 1 .. Len(q) /\ i + 1 \in 1 .. Len(q)
PROOF
  <1>1. q \in Seq(Nat \ {0}) /\ Len(q) >= 2
        /\ \A i, j \in 1 .. Len(q) : i < j => q[i] < q[j]
    BY DiskAssumption
  <1>2. Len(q) \in Nat /\ DOMAIN q = 1 .. Len(q)
        /\ \A i \in 1 .. Len(q) : q[i] \in Nat \ {0}
    BY <1>1
  <1>3. \A i, j \in 1 .. Len(q) : i <= j => q[i] <= q[j]
    BY <1>1, <1>2
  <1>4. Disk!Rounds(q) = 1 .. Len(q) - 1
    BY DEF Disk!Rounds
  <1> QED BY <1>1, <1>2, <1>3, <1>4

LEMMA PartsApart ==
  ASSUME NEW q \in Requests, NEW i \in Disk!Rounds(q), NEW j \in Disk!Rounds(q),
         NEW x \in Part(q, i), x \in Part(q, j)
  PROVE  i = j
PROOF
  <1>1. /\ i \in Nat /\ j \in Nat /\ x \in Nat
        /\ q[i] <= x /\ x < q[i + 1] /\ q[j] <= x /\ x < q[j + 1]
        /\ q[i] \in Nat /\ q[i + 1] \in Nat /\ q[j] \in Nat /\ q[j + 1] \in Nat
    <2>1. i \in 1 .. Len(q) /\ i + 1 \in 1 .. Len(q) /\ Len(q) \in Nat
      BY RequestFacts, Zenon
    <2>2. j \in 1 .. Len(q) /\ j + 1 \in 1 .. Len(q)
      BY RequestFacts, Zenon
    <2>3. \A k \in 1 .. Len(q) : q[k] \in Nat
      BY RequestFacts, Zenon
    <2>4. x \in Nat /\ q[i] <= x /\ x < q[i + 1] /\ q[j] <= x /\ x < q[j + 1]
      BY Zenon DEF Part
    <2>5. i \in Nat /\ j \in Nat
      BY <2>1, <2>2
    <2> QED BY <2>1, <2>2, <2>3, <2>4, <2>5, Zenon
  <1>2. ASSUME i < j  PROVE FALSE
    <2>1. i + 1 \in 1 .. Len(q) /\ j \in 1 .. Len(q) /\ i + 1 <= j
      BY <1>2, RequestFacts, <1>1
    <2>2. q[i + 1] <= q[j]
      BY <2>1, RequestFacts
    <2> QED BY <1>1, <2>2
  <1>3. ASSUME j < i  PROVE FALSE
    <2>1. j + 1 \in 1 .. Len(q) /\ i \in 1 .. Len(q) /\ j + 1 <= i
      BY <1>3, RequestFacts, <1>1
    <2>2. q[j + 1] <= q[i]
      BY <2>1, RequestFacts
    <2> QED BY <1>1, <2>2
  <1> QED BY <1>1, <1>2, <1>3

LEMMA PartsCover ==
  ASSUME NEW q \in Requests, NEW x \in Nat
  PROVE  x \in Whole(q) <=> \E i \in Disk!Rounds(q) : x \in Part(q, i)
PROOF
  <1>1. ASSUME NEW i \in Disk!Rounds(q), x \in Part(q, i)  PROVE x \in Whole(q)
    <2>1. /\ i \in 1 .. Len(q) /\ i + 1 \in 1 .. Len(q) /\ 1 \in 1 .. Len(q)
          /\ Len(q) \in 1 .. Len(q) /\ 1 <= i /\ i + 1 <= Len(q)
      BY RequestFacts
    <2>2. q[1] <= q[i] /\ q[i + 1] <= q[Len(q)]
      BY <2>1, RequestFacts
    <2>3. /\ q[i] \in Nat /\ q[i + 1] \in Nat /\ q[1] \in Nat /\ q[Len(q)] \in Nat
      BY <2>1, RequestFacts
    <2> QED BY <1>1, <2>2, <2>3 DEF Part, Whole
  <1>2. ASSUME x \in Whole(q)  PROVE \E i \in Disk!Rounds(q) : x \in Part(q, i)
    <2> DEFINE S == {i \in 1 .. Len(q) : x < q[i]}
    <2>1. Len(q) \in S
      BY <1>2, RequestFacts DEF Whole
    <2>2. IsFiniteSet(1 .. Len(q))
      BY RequestFacts, FS_Interval
    <2>3. S \subseteq Nat /\ IsFiniteSet(S) /\ S # {}
      BY <2>1, <2>2, FS_Subset
    <2>4. PICK k \in S : \A i \in S : k <= i
      <3> HIDE DEF S
      <3> QED BY <2>3, Extrema
    <2>5. k \in 1 .. Len(q) /\ x < q[k]
      OBVIOUS
    <2>6. k # 1
      BY <1>2, <2>5, RequestFacts DEF Whole
    <2>7. k \in Nat /\ k - 1 \in 1 .. Len(q) /\ k - 1 \in Disk!Rounds(q) /\ (k - 1) + 1 = k
      BY <2>5, <2>6, RequestFacts
    <2>8. k - 1 \notin S
      BY <2>4, <2>7
    <2>9. q[k - 1] <= x
      BY <2>7, <2>8, RequestFacts
    <2>10. x \in Part(q, k - 1)
      BY <2>5, <2>7, <2>9 DEF Part
    <2> QED BY <2>7, <2>10
  <1> QED BY <1>1, <1>2

\* Segments of one length begin at its multiples.
LEMMA EqualLengths ==
  ASSUME NEW q \in Requests, ~Disk!Unequal(q), NEW i \in Disk!Rounds(q)
  PROVE  /\ q[1] + (i - 1) * Disk!Length(q, 1) = q[i]
         /\ Disk!Length(q, 1) = Disk!Length(q, i)
PROOF
  <1> DEFINE L == Disk!Length(q, 1)
             S == {j \in Disk!Rounds(q) : q[1] + (j - 1) * L # q[j]}
  <1>1. \A j \in Disk!Rounds(q) : L = Disk!Length(q, j)
    BY DEF Disk!Unequal
  <1>2. L \in Int
    BY RequestFacts DEF Disk!Length
  <1>3. S = {}
    <2> SUFFICES ASSUME S # {}  PROVE FALSE
      OBVIOUS
    <2>1. S \subseteq Nat /\ IsFiniteSet(S)
      <3>1. IsFiniteSet(1 .. Len(q))
        BY RequestFacts, FS_Interval
      <3>2. S \subseteq 1 .. Len(q) /\ S \subseteq Nat
        BY RequestFacts
      <3> HIDE DEF S
      <3> QED BY <3>1, <3>2, FS_Subset
    <2>2. PICK k \in S : \A j \in S : k <= j
      <3> HIDE DEF S
      <3> QED BY <2>1, Extrema
    <2>3. k \in Disk!Rounds(q) /\ k \in Nat /\ k \in 1 .. Len(q)
      BY RequestFacts
    <2>4. k # 1
      <3>1. 1 \in 1 .. Len(q)
        BY <2>3
      <3>2. q[1] \in Nat
        BY <3>1, RequestFacts
      <3>3. q[1] + (1 - 1) * L = q[1]
        <4> HIDE DEF L
        <4> QED BY <3>2, <1>2
      <3>4. q[1] + (k - 1) * L # q[k]
        OBVIOUS
      <3> HIDE DEF L, S
      <3> QED BY <3>3, <3>4, Zenon
    <2>5. k - 1 \in Disk!Rounds(q) /\ (k - 1) + 1 = k /\ k - 1 \in 1 .. Len(q)
      <3> HIDE DEF L, S
      <3>1. Disk!Rounds(q) = 1 .. Len(q) - 1 /\ Len(q) \in Nat
        BY RequestFacts
      <3> QED BY <3>1, <2>3, <2>4
    <2>6. k - 1 \notin S
      BY <2>2, <2>3
    <2>7. q[1] + ((k - 1) - 1) * L = q[k - 1]
      BY <2>5, <2>6
    <2>8. L = q[k] - q[k - 1]
      <3>1. L = Disk!Length(q, k - 1)
        BY <1>1, <2>5
      <3>2. Disk!Length(q, k - 1) = q[(k - 1) + 1] - q[k - 1]
        BY DEF Disk!Length
      <3> HIDE DEF L, S
      <3> QED BY <3>1, <3>2, <2>5, Zenon
    <2>9. q[1] \in Nat /\ q[k] \in Nat /\ q[k - 1] \in Nat
      <3>1. 1 \in 1 .. Len(q)
        BY <2>3
      <3>2. \A j \in 1 .. Len(q) : q[j] \in Nat
        BY RequestFacts
      <3> HIDE DEF L, S
      <3> QED BY <2>3, <2>5, <3>1, <3>2
    <2>10. q[1] + (k - 1) * L # q[k]
      OBVIOUS
    <2> HIDE DEF L
    <2>11. (k - 1) * L = ((k - 1) - 1) * L + L
      BY <2>3, <1>2
    <2>12. ((k - 1) - 1) * L \in Int /\ (k - 1) * L \in Int
      BY <2>3, <1>2
    <2> QED BY <2>7, <2>8, <2>9, <2>10, <2>11, <2>12, <1>2
  <1> QED BY <1>1, <1>3

\* Unless its segments differ, each transfer of a request is of one segment.
LEMMA TransfersAre ==
  ASSUME NEW q \in Requests,
         request_mode = "RM_SIMPLE" \/ ~Disk!Unequal(q)
  PROVE  Disk!Transfers(q) =
           [i \in Disk!Rounds(q) |-> [to |-> q[i], n |-> Disk!Length(q, i),
                                      from |-> Disk!Segment(q, i)]]
PROOF
  <1>1. CASE request_mode = "RM_SIMPLE"
    BY <1>1 DEF Disk!Transfers, Disk!sbull_request
  <1>2. CASE request_mode # "RM_SIMPLE"
    <2>1. \A i \in Disk!Rounds(q) :
            /\ q[1] + (i - 1) * Disk!Length(q, 1) = q[i]
            /\ Disk!Length(q, 1) = Disk!Length(q, i)
      BY <1>2, EqualLengths
    <2>2. Disk!sbull_xfer_bio(q) =
            [i \in Disk!Rounds(q) |-> [to |-> q[i], n |-> Disk!Length(q, i),
                                       from |-> Disk!Segment(q, i)]]
      BY <2>1, Zenon DEF Disk!sbull_xfer_bio
    <2> QED BY <1>2, <2>2 DEF Disk!Transfers
  <1> QED BY <1>1, <1>2

\* A request that is within the device fills its sectors and leaves the others.
LEMMA RequestFills ==
  ASSUME NEW q \in Requests, q[Len(q)] - 1 <= Size,
         request_mode = "RM_SIMPLE" \/ ~Disk!Unequal(q), NEW d
  PROVE  Disk!sbull_transfer(d, Disk!Transfers(q)) =
           [x \in Disk!Sectors |-> IF x \in Whole(q) THEN x ELSE d[x]]
PROOF
  <1> DEFINE T == Disk!Transfers(q)
             reached(x) == {i \in DOMAIN T : Disk!Reaches(T[i], x)}
             last(x) == CHOOSE i \in reached(x) : \A j \in reached(x) : j <= i
  <1>1. /\ DOMAIN T = Disk!Rounds(q)
        /\ \A i \in Disk!Rounds(q) :
             T[i] = [to |-> q[i], n |-> Disk!Length(q, i), from |-> Disk!Segment(q, i)]
    <2>1. T = [i \in Disk!Rounds(q) |-> [to |-> q[i], n |-> Disk!Length(q, i),
                                         from |-> Disk!Segment(q, i)]]
      BY TransfersAre
    <2> HIDE DEF T
    <2> QED BY <2>1
  <1>2. ASSUME NEW x \in Disk!Sectors, NEW i \in Disk!Rounds(q)
        PROVE  /\ Disk!Reaches(T[i], x) <=> x \in Part(q, i)
               /\ x \in Part(q, i) => Disk!Copied(T[i], x) = x
    <2>1. T[i].to = q[i] /\ T[i].n = q[i + 1] - q[i] /\ T[i].from.first = q[i]
          /\ T[i].from.n = q[i + 1] - q[i]
      BY <1>1 DEF Disk!Length, Disk!Segment
    <2>2. q[i] \in Nat /\ q[i + 1] \in Nat /\ q[Len(q)] \in Nat /\ q[i + 1] <= q[Len(q)]
      <3>1. i \in 1 .. Len(q) /\ i + 1 \in 1 .. Len(q) /\ Len(q) \in 1 .. Len(q)
            /\ i + 1 <= Len(q)
        BY RequestFacts
      <3> QED BY <3>1, RequestFacts
    <2>3. x \in Nat
      BY DiskAssumption DEF Disk!Sectors
    <2> DEFINE t == T[i]
    <2>4. /\ Disk!Reaches(t, x) <=> x \in t.to .. t.to + t.n - 1 /\ t.to + t.n - 1 <= Size
          /\ Disk!Copied(t, x) = IF x - t.to < t.from.n THEN t.from.first + (x - t.to)
                                 ELSE Disk!Junk
      BY Zenon DEF Disk!Reaches, Disk!Copied
    <2>5. t.to = q[i] /\ t.n = q[i + 1] - q[i] /\ t.from.first = q[i]
          /\ t.from.n = q[i + 1] - q[i]
      BY <2>1
    <2> HIDE DEF t, T
    <2>6. /\ Disk!Reaches(t, x) <=> x \in Part(q, i)
          /\ x \in Part(q, i) => Disk!Copied(t, x) = x
      <3>1. x \in t.to .. t.to + t.n - 1 <=> q[i] <= x /\ x < q[i + 1]
        BY <2>2, <2>3, <2>5
      <3>2. t.to + t.n - 1 <= Size
        BY <2>2, <2>5, DiskAssumption
      <3>3. q[i] <= x /\ x < q[i + 1] => x - t.to < t.from.n /\ t.from.first + (x - t.to) = x
        BY <2>2, <2>3, <2>5
      <3>4. x \in Part(q, i) <=> q[i] <= x /\ x < q[i + 1]
        BY <2>3 DEF Part
      <3> QED BY <2>4, <3>1, <3>2, <3>3, <3>4, Zenon
    <2> QED BY <2>6 DEF t
  <1>3. ASSUME NEW x \in Disk!Sectors
        PROVE  (IF reached(x) = {} THEN d[x] ELSE Disk!Copied(T[last(x)], x))
                 = IF x \in Whole(q) THEN x ELSE d[x]
    <2>1. x \in Nat
      BY DiskAssumption DEF Disk!Sectors
    <2>2. x \in Whole(q) <=> \E i \in Disk!Rounds(q) : x \in Part(q, i)
      BY <2>1, PartsCover
    <2>3. reached(x) = {i \in Disk!Rounds(q) : x \in Part(q, i)}
      BY <1>1, <1>2
    <2>4. CASE x \notin Whole(q)
      <3>1. reached(x) = {}
        BY <2>2, <2>3, <2>4
      <3> QED BY <3>1, <2>4
    <2>5. CASE x \in Whole(q)
      <3>1. PICK i \in Disk!Rounds(q) : x \in Part(q, i)
        BY <2>2, <2>5
      <3>2. reached(x) = {i}
        BY <2>3, <3>1, PartsApart
      <3>3. i \in Nat
        BY RequestFacts
      <3>4. last(x) = i
        <4> HIDE DEF reached
        <4> QED BY <3>2, <3>3
      <3>5. Disk!Copied(T[i], x) = x
        BY <1>2, <3>1
      <3> HIDE DEF reached, last, T
      <3> QED BY <2>5, <3>2, <3>4, <3>5
    <2> QED BY <2>4, <2>5
  <1>4. Disk!sbull_transfer(d, T) =
          [x \in Disk!Sectors |->
             IF reached(x) = {} THEN d[x] ELSE Disk!Copied(T[last(x)], x)]
    BY Zenon DEF Disk!sbull_transfer
  <1> HIDE DEF reached, last, T
  <1>5. Disk!sbull_transfer(d, T) =
          [x \in Disk!Sectors |-> IF x \in Whole(q) THEN x ELSE d[x]]
    BY <1>3, <1>4, Zenon
  <1> QED BY <1>5 DEF T

(***************************************************************************)
(* sbull: users, timer and medium                                          *)
(***************************************************************************)

DiskTypes ==
  /\ sb_open \subseteq Users /\ opener \in Users \cup {"nobody"}
  /\ sb_timer \in {"none", "set", "running"} /\ media_change \in BOOLEAN
  /\ written \subseteq Nat

\* While somebody has the device, or is about to, the timer rests.
DiskUsers ==
  /\ users = Cardinality(sb_open)
  /\ opener # "nobody" => sb_timer = "none" /\ opener \notin sb_open
  /\ sb_open # {} => sb_timer = "none" /\ media_change = FALSE
  /\ "added twice" \notin sb_trouble /\ "sanity check" \notin sb_trouble

Held == [x \in Disk!Sectors |-> IF x \in written THEN x ELSE 0]

\* From the end of the delay to the next open nothing has been written that
\* could be missed.
DiskMedium ==
  "unequal segments" \notin sb_trouble =>
    /\ sb_open # {} \/ (sb_timer # "running" /\ media_change = FALSE) => data = Held
    /\ sb_open = {} /\ (sb_timer = "running" \/ media_change = TRUE) => written = {}

DiskInv == DiskTypes /\ DiskUsers /\ DiskMedium

LEMMA DiskCardinality == ASSUME NEW S PROVE Disk!Cardinality(S) = Cardinality(S)
PROOF
  BY DEF Disk!Cardinality, Cardinality

LEMMA UsersFinite ==
  ASSUME DiskTypes
  PROVE  /\ IsFiniteSet(sb_open) /\ Cardinality(sb_open) \in Nat
         /\ Cardinality(sb_open) = 0 <=> sb_open = {}
PROOF
  <1>1. IsFiniteSet(sb_open)
    BY DiskAssumption, FS_Subset DEF DiskTypes
  <1> QED BY <1>1, FS_CardinalityType, FS_EmptySet

LEMMA DiskInitInv ==
  ASSUME Disk!Init
  PROVE  DiskInv
PROOF
  <1>1. sb_open = {} /\ users = 0 /\ data = Disk!Cleared /\ written = {}
        /\ media_change = FALSE /\ sb_timer = "none" /\ opener = "nobody" /\ sb_trouble = {}
    BY DEF Disk!Init, Disk!Nobody
  <1>2. Cardinality(sb_open) = 0
    BY <1>1, FS_EmptySet
  <1>3. data = Held
    BY <1>1 DEF Disk!Cleared, Held
  <1> QED BY <1>1, <1>2, <1>3 DEF DiskInv, DiskTypes, DiskUsers, DiskMedium

LEMMA DiskRests ==
  ASSUME DiskInv,
         UNCHANGED <<request_mode, users, media_change, sb_timer, data, opener, sb_open,
                     written, sb_trouble>>
  PROVE  DiskInv'
PROOF
  BY DEF DiskInv, DiskTypes, DiskUsers, DiskMedium, Held

LEMMA DiskDeleteTimer ==
  ASSUME DiskInv, NEW p \in Users, Disk!DeleteTimer(p)
  PROVE  DiskInv'
PROOF
  <1>1. /\ opener = "nobody" /\ p \notin sb_open /\ sb_timer # "running"
        /\ opener' = p /\ sb_timer' = IF sb_timer = "set" THEN "none" ELSE sb_timer
        /\ UNCHANGED <<users, media_change, data, sb_open, written, sb_trouble>>
    BY DEF Disk!DeleteTimer, Disk!Quiet, Disk!Nobody
  <1>2. sb_timer' = "none"
    BY <1>1 DEF DiskInv, DiskTypes
  <1>3. Held' = Held
    BY <1>1 DEF Held
  <1> QED BY <1>1, <1>2, <1>3 DEF DiskInv, DiskTypes, DiskUsers, DiskMedium

LEMMA DiskOpen ==
  ASSUME DiskInv, NEW p \in Users, Disk!sbull_open(p)
  PROVE  DiskInv'
PROOF
  <1>1. /\ opener = p /\ opener' = "nobody" /\ sb_open' = sb_open \cup {p}
        /\ users' = users + 1
        /\ UNCHANGED <<sb_timer, written, sb_trouble>>
        /\ p # "nobody"
    BY DiskAssumption DEF Disk!sbull_open, Disk!Nobody
  <1>2. IF users = 0 /\ media_change
        THEN media_change' = FALSE /\ data' = Disk!Cleared
        ELSE media_change' = media_change /\ data' = data
    BY DEF Disk!sbull_open
  <1>3. IsFiniteSet(sb_open) /\ Cardinality(sb_open) \in Nat
        /\ (Cardinality(sb_open) = 0 <=> sb_open = {})
    BY UsersFinite DEF DiskInv
  <1>4. sb_timer = "none" /\ p \notin sb_open /\ users = Cardinality(sb_open)
    BY <1>1 DEF DiskInv, DiskUsers
  <1>5. Cardinality(sb_open') = Cardinality(sb_open) + 1
    BY <1>1, <1>3, <1>4, FS_AddElement
  <1>6. Held' = Held
    BY <1>1 DEF Held
  <1>7. written = {} => Held = Disk!Cleared
    BY DEF Held, Disk!Cleared
  <1>8. media_change' = FALSE
    BY <1>2, <1>3, <1>4 DEF DiskInv, DiskTypes, DiskUsers
  <1>9. DiskTypes'
    BY <1>1, <1>8 DEF DiskInv, DiskTypes
  <1>10. DiskUsers'
    BY <1>1, <1>4, <1>5, <1>8 DEF DiskInv, DiskUsers
  <1>11. DiskMedium'
    <2>1. CASE users = 0 /\ media_change
      <3>1. sb_open = {} /\ media_change = TRUE
        BY <2>1, <1>3, <1>4 DEF DiskInv, DiskTypes
      <3>2. "unequal segments" \notin sb_trouble => data' = Held'
        BY <2>1, <3>1, <1>2, <1>6, <1>7 DEF DiskInv, DiskMedium
      <3> QED BY <3>2, <1>1, <1>4, <1>8 DEF DiskMedium
    <2>2. CASE ~(users = 0 /\ media_change)
      <3>1. sb_open # {} \/ media_change = FALSE
        BY <2>2, <1>3, <1>4 DEF DiskInv, DiskTypes
      <3>2. "unequal segments" \notin sb_trouble => data' = Held'
        BY <2>2, <3>1, <1>2, <1>4, <1>6 DEF DiskInv, DiskMedium
      <3> QED BY <3>2, <1>1, <1>4, <1>8 DEF DiskMedium
    <2> QED BY <2>1, <2>2
  <1> QED BY <1>9, <1>10, <1>11 DEF DiskInv

LEMMA DiskRelease ==
  ASSUME DiskInv, NEW p \in Users, Disk!sbull_release(p)
  PROVE  DiskInv'
PROOF
  <1>1. /\ opener = "nobody" /\ p \in sb_open /\ sb_open' = sb_open \ {p}
        /\ users' = users - 1
        /\ UNCHANGED <<media_change, data, opener, written>>
    BY DEF Disk!sbull_release, Disk!Nobody
  <1>2. IF users' = 0
        THEN /\ sb_timer' = "set"
             /\ sb_trouble' = sb_trouble \cup (IF sb_timer # "none" THEN {"added twice"} ELSE {})
        ELSE sb_timer' = sb_timer /\ sb_trouble' = sb_trouble
    BY Zenon DEF Disk!sbull_release
  <1>3. IsFiniteSet(sb_open) /\ Cardinality(sb_open) \in Nat
    BY UsersFinite DEF DiskInv
  <1>4. sb_timer = "none" /\ media_change = FALSE /\ users = Cardinality(sb_open)
    BY <1>1 DEF DiskInv, DiskUsers
  <1>5. Cardinality(sb_open') = Cardinality(sb_open) - 1
    BY <1>1, <1>3, FS_RemoveElement
  <1>6. sb_trouble' = sb_trouble
    <2>1. (IF sb_timer # "none" THEN {"added twice"} ELSE {}) = {}
      BY <1>4
    <2> QED BY <2>1, <1>2
  <1>7. IF users' = 0 THEN sb_timer' = "set" ELSE sb_timer' = "none"
    BY <1>2, <1>4
  <1>8. Held' = Held
    BY <1>1 DEF Held
  <1>9. DiskTypes'
    BY <1>1, <1>7 DEF DiskInv, DiskTypes
  <1>10. users' = Cardinality(sb_open') /\ (users' = 0 <=> sb_open' = {})
    <2>1. IsFiniteSet(sb_open')
      BY <1>1, <1>3, FS_RemoveElement
    <2>2. Cardinality(sb_open') = 0 <=> sb_open' = {}
      BY <2>1, FS_EmptySet
    <2>3. users' = Cardinality(sb_open')
      BY <1>1, <1>4, <1>5
    <2> QED BY <2>2, <2>3
  <1>11. DiskUsers'
    BY <1>1, <1>4, <1>6, <1>7, <1>10 DEF DiskInv, DiskUsers
  <1>12. DiskMedium'
    BY <1>1, <1>4, <1>6, <1>7, <1>8 DEF DiskInv, DiskMedium
  <1> QED BY <1>9, <1>11, <1>12 DEF DiskInv

LEMMA DiskTimer ==
  ASSUME DiskInv, Disk!Expires \/ Disk!sbull_invalidate
  PROVE  DiskInv'
PROOF
  <1>1. sb_open = {} /\ opener = "nobody" /\ users = 0
    <2>1. sb_timer # "none"
      BY DEF Disk!Expires, Disk!sbull_invalidate
    <2>2. sb_open = {} /\ opener = "nobody" /\ users = Cardinality(sb_open)
      BY <2>1 DEF DiskInv, DiskUsers
    <2> QED BY <2>2, FS_EmptySet
  <1>2. CASE Disk!Expires
    <2>1. /\ sb_timer = "set" /\ sb_timer' = "running" /\ written' = {}
          /\ UNCHANGED <<users, media_change, data, opener, sb_open, sb_trouble>>
      BY <1>2 DEF Disk!Expires
    <2> QED BY <2>1, <1>1 DEF DiskInv, DiskTypes, DiskUsers, DiskMedium
  <1>3. CASE Disk!sbull_invalidate
    <2>1. /\ sb_timer = "running" /\ sb_timer' = "none" /\ media_change' = TRUE
          /\ UNCHANGED <<users, data, opener, sb_open, written, sb_trouble>>
      BY <1>1, <1>3 DEF Disk!sbull_invalidate
    <2> QED BY <2>1, <1>1 DEF DiskInv, DiskTypes, DiskUsers, DiskMedium
  <1> QED BY <1>2, <1>3

LEMMA DiskRequest ==
  ASSUME DiskInv, NEW q \in Requests, Disk!Request(q)
  PROVE  DiskInv'
PROOF
  <1> DEFINE bad == request_mode # "RM_SIMPLE" /\ Disk!Unequal(q)
  <1>1. /\ sb_open # {} /\ q[Len(q)] - 1 <= Size
        /\ data' = Disk!sbull_transfer(data, Disk!Transfers(q))
        /\ written' = written \cup (q[1] .. q[Len(q)] - 1)
        /\ UNCHANGED <<users, media_change, sb_timer, opener, sb_open>>
    BY DEF Disk!Request
  <1>2. sb_trouble' = sb_trouble \cup (IF bad THEN {"unequal segments"} ELSE {})
    BY Zenon DEF Disk!Request
  <1>3. q[1] .. q[Len(q)] - 1 = Whole(q)
    <2>1. 1 \in 1 .. Len(q) /\ Len(q) \in 1 .. Len(q)
      BY RequestFacts
    <2>2. q[1] \in Nat /\ q[Len(q)] \in Nat
      BY <2>1, RequestFacts
    <2> QED BY <2>2 DEF Whole
  <1>4. DiskTypes'
    <2>1. Whole(q) \subseteq Nat
      BY DEF Whole
    <2> QED BY <2>1, <1>1, <1>3 DEF DiskInv, DiskTypes
  <1>5. DiskUsers'
    BY <1>1, <1>2 DEF DiskInv, DiskUsers
  <1>6. ASSUME "unequal segments" \notin sb_trouble'
        PROVE  data' = Held'
    <2>1. ~bad /\ "unequal segments" \notin sb_trouble
      BY <1>2, <1>6
    <2>2. data = Held
      BY <1>1, <2>1 DEF DiskInv, DiskMedium
    <2>3. data' = [x \in Disk!Sectors |-> IF x \in Whole(q) THEN x ELSE data[x]]
      BY <1>1, <2>1, RequestFills
    <2>4. \A x \in Disk!Sectors : data[x] = IF x \in written THEN x ELSE 0
      BY <2>2 DEF Held
    <2>5. \A x \in Disk!Sectors : (IF x \in Whole(q) THEN x ELSE data[x])
                                    = IF x \in written' THEN x ELSE 0
      BY <2>4, <1>1, <1>3
    <2> QED BY <2>3, <2>5, Zenon DEF Held
  <1> QED BY <1>1, <1>4, <1>5, <1>6 DEF DiskInv, DiskMedium

LEMMA DiskSteps ==
  ASSUME DiskInv, Disk!Next
  PROVE  DiskInv'
PROOF
  BY DiskDeleteTimer, DiskOpen, DiskRelease, DiskTimer, DiskRequest DEF Disk!Next

LEMMA DiskInvProves ==
  ASSUME DiskInv
  PROVE  Disk!UsersExact /\ Disk!MediumKept
PROOF
  <1>1. users = Cardinality(sb_open) /\ Cardinality(sb_open) \in Nat
        /\ (Cardinality(sb_open) = 0 <=> sb_open = {})
    BY UsersFinite DEF DiskInv, DiskUsers
  <1>2. Disk!UsersExact
    BY <1>1, DiskCardinality DEF DiskInv, DiskUsers, Disk!UsersExact
  <1>3. Disk!MediumKept
    <2>1. ASSUME users > 0, "unequal segments" \notin sb_trouble  PROVE data = Held
      <3>1. users # 0
        <4>1. users \in Nat
          BY <1>1, Zenon
        <4>2. users > 0
          BY <2>1, Zenon
        <4> QED BY <4>1, <4>2
      <3>2. sb_open # {}
        BY <1>1, <3>1, Zenon
      <3> QED BY <2>1, <3>2 DEF DiskInv, DiskMedium
    <2> QED BY <2>1 DEF Held, Disk!MediumKept
  <1> QED BY <1>2, <1>3

(***************************************************************************)
(* Devices of bytes                                                        *)
(***************************************************************************)

BytesTypes ==
  /\ f_pos \in [BdFiles -> Int] /\ bd_lines \in [BdFiles -> Int]
  /\ DOMAIN meant = DOMAIN memory /\ DOMAIN memory \subseteq Int
  /\ bd_read = [f \in BdFiles |-> bd_read[f]]
  /\ kbufs \in Nat

\* Only a failed copy moves a file back.
PosKept ==
  (\E f \in BdFiles : f_pos[f] < 0) \/ "outside" \in bd_trouble =>
    "moved back" \in bd_trouble

\* The upper bytes of a word that was stored by its lowest
Excused(v) ==
  Minor[v[1]] \in {1, 2} /\ (v[2] % 2 = 1 \/ (Minor[v[1]] = 2 /\ v[2] % 4 = 2))

MemoryKept == \A a \in DOMAIN memory : memory[a] = meant[a] \/ Excused(meant[a])

LevelsKept ==
  bd_kind = "shortint" => \A f \in BdFiles : f_pos[f] \in Nat /\ bd_lines[f] = (f_pos[f] % 2)

Str == [k \in 1 .. MAX_SIZE |-> memory[k - 1]]
StrKept ==
  bd_kind = "proc_test" /\ bd_trouble = {} =>
    \A f \in BdFiles : \/ f_pos[f] = 0 /\ bd_read[f] = <<>>
                       \/ f_pos[f] = MAX_SIZE /\ bd_read[f] = Str

TroubleKept ==
  /\ "not all read" \notin bd_trouble /\ "no change" \notin bd_trouble
  /\ kbufs = 0 \/ "copy failed" \in bd_trouble \/ "no such minor" \in bd_trouble

BytesInv ==
  /\ BytesTypes /\ PosKept /\ (bd_kind = "silly" => MemoryKept) /\ LevelsKept
  /\ StrKept /\ TroubleKept

LEMMA BytesCardinality == ASSUME NEW S PROVE Bytes!Cardinality(S) = Cardinality(S)
PROOF
  BY DEF Bytes!Cardinality, Cardinality

LEMMA BytesInitInv ==
  ASSUME Bytes!Init
  PROVE  BytesInv
PROOF
  <1>1. /\ f_pos = [f \in BdFiles |-> 0] /\ bd_lines = [f \in BdFiles |-> 0]
        /\ memory = [a \in 0 .. Bytes!MemorySize - 1 |-> Bytes!Zero] /\ meant = memory
        /\ kbufs = 0 /\ bd_read = [f \in BdFiles |-> <<>>] /\ bd_trouble = {}
    BY DEF Bytes!Init
  <1>2. DOMAIN memory \subseteq Int
    <2>1. Bytes!MemorySize \in Int
      BY BytesAssumption DEF Bytes!MemorySize
    <2> QED BY <2>1, <1>1
  <1>3. BytesTypes
    BY <1>1, <1>2 DEF BytesTypes
  <1> QED BY <1>1, <1>3
       DEF BytesInv, PosKept, MemoryKept, LevelsKept, StrKept, TroubleKept

LEMMA BytesRests ==
  ASSUME BytesInv,
         UNCHANGED <<bd_kind, f_pos, memory, meant, bd_lines, bd_calls, kbufs, bd_read,
                     bd_trouble>>
  PROVE  BytesInv'
PROOF
  BY DEF BytesInv, BytesTypes, PosKept, MemoryKept, LevelsKept, StrKept, Str, TroubleKept

\* The accesses of a call are whole, and cover all of it.
LEMMA UnitDivides ==
  ASSUME NEW f \in BdFiles, NEW n \in Nat
  PROVE  LET unit == Bytes!Unit(Minor[f], f_pos[f], n) IN
           /\ unit \in {1, 2, 4} /\ unit * (n \div unit) = n
           /\ unit = 2 => Minor[f] \in {1, 2}
           /\ unit = 4 => Minor[f] = 2
PROOF
  <1> DEFINE m == Minor[f]
             pos == f_pos[f]
             unit == Bytes!Unit(m, pos, n)
  <1>1. unit = IF m = 2 /\ pos % 4 = 0 /\ n % 4 = 0 THEN 4
               ELSE IF m \in {1, 2} /\ pos % 2 = 0 /\ n % 2 = 0 THEN 2 ELSE 1
    BY Zenon DEF Bytes!Unit
  <1> HIDE DEF m, pos, unit
  <1>2. CASE m = 2 /\ pos % 4 = 0 /\ n % 4 = 0
    <2>1. unit = 4
      BY <1>1, <1>2
    <2>2. n % 4 = 0
      BY <1>2
    <2>3. 4 * (n \div 4) = n
      BY <2>2
    <2> QED BY <1>2, <2>1, <2>3 DEF m, unit, pos
  <1>3. CASE ~(m = 2 /\ pos % 4 = 0 /\ n % 4 = 0) /\ m \in {1, 2} /\ pos % 2 = 0 /\ n % 2 = 0
    <2>1. unit = 2
      BY <1>1, <1>3, Zenon
    <2>2. n % 2 = 0
      BY <1>3, Zenon
    <2>3. 2 * (n \div 2) = n
      BY <2>2
    <2> QED BY <1>3, <2>1, <2>3 DEF m, unit, pos
  <1>4. CASE ~(m = 2 /\ pos % 4 = 0 /\ n % 4 = 0) /\ ~(m \in {1, 2} /\ pos % 2 = 0 /\ n % 2 = 0)
    <2>1. unit = 1
      BY <1>1, <1>4, Zenon
    <2>2. 1 * (n \div 1) = n
      OBVIOUS
    <2> QED BY <2>1, <2>2 DEF m, unit, pos
  <1> QED BY <1>2, <1>3, <1>4

LEMMA AccessedAll ==
  ASSUME NEW f \in BdFiles, NEW n \in Nat, f_pos[f] \in Int
  PROVE  /\ Bytes!Accessed(f, n) = f_pos[f] .. f_pos[f] + n - 1
         /\ Bytes!Cardinality(Bytes!Accessed(f, n)) = n
PROOF
  <1> DEFINE unit == Bytes!Unit(Minor[f], f_pos[f], n)
  <1>1. unit * (n \div unit) = n
    BY UnitDivides
  <1>2. Bytes!Accessed(f, n) = f_pos[f] .. f_pos[f] + unit * (n \div unit) - 1
    BY Zenon DEF Bytes!Accessed
  <1>3. Bytes!Accessed(f, n) = f_pos[f] .. f_pos[f] + n - 1
    <2> HIDE DEF unit
    <2> QED BY <1>1, <1>2, Zenon
  <1>4. Cardinality(f_pos[f] .. f_pos[f] + n - 1) = n
    <2> DEFINE a == f_pos[f]
               b == f_pos[f] + n - 1
    <2>1. a \in Int /\ b \in Int /\ (a <= b \/ n = 0) /\ b - a + 1 = n
      OBVIOUS
    <2>2. a > b <=> n = 0
      OBVIOUS
    <2> HIDE DEF a, b
    <2>3. Cardinality(a .. b) = IF a > b THEN 0 ELSE b - a + 1
      BY <2>1, FS_Interval
    <2>4. Cardinality(a .. b) = n
      BY <2>1, <2>2, <2>3
    <2> QED BY <2>4 DEF a, b
  <1> QED BY <1>3, <1>4, BytesCardinality

LEMMA ClippedNat ==
  ASSUME BytesTypes, NEW f \in BdFiles, NEW nbytes \in BdCounts, Bytes!Clipped(f, nbytes) >= 0
  PROVE  Bytes!Clipped(f, nbytes) \in Nat /\ f_pos[f] \in Int
PROOF
  <1>1. f_pos[f] \in Int /\ nbytes \in Int /\ Window \in Int
    BY BytesAssumption DEF BytesTypes
  <1>2. Bytes!Clipped(f, nbytes) = IF f_pos[f] + nbytes > Window THEN Window - f_pos[f] ELSE nbytes
    BY Zenon DEF Bytes!Clipped
  <1>3. Bytes!Clipped(f, nbytes) \in Int
    BY <1>1, <1>2
  <1> QED BY <1>1, <1>3

LEMMA SillyRead ==
  ASSUME BytesInv, NEW f \in BdFiles, NEW nbytes \in BdCounts, NEW fault \in BOOLEAN,
         Bytes!silly_read(f, nbytes, fault)
  PROVE  BytesInv'
PROOF
  <1> DEFINE n == Bytes!Clipped(f, nbytes)
             out == Bytes!Elsewhere(f, n)
  <1>1. /\ bd_kind = "silly" /\ n >= 0
        /\ UNCHANGED <<bd_kind, memory, meant, bd_lines, bd_read>>
    BY Zenon DEF Bytes!silly_read
  <1>2. n \in Nat /\ f_pos[f] \in Int
    BY <1>1, ClippedNat DEF BytesInv
  <1>3. CASE /\ kbufs' = kbufs + 1 /\ bd_trouble' = bd_trouble \cup {"no such minor"}
             /\ UNCHANGED f_pos
    <2>1. BytesTypes'
      <3>1. kbufs' \in Nat
        <4>1. kbufs \in Nat /\ kbufs' = kbufs + 1
          BY <1>3, Zenon DEF BytesInv, BytesTypes
        <4> QED BY <4>1
      <3> QED BY <3>1, <1>1, <1>3 DEF BytesInv, BytesTypes
    <2> QED BY <1>1, <1>3, <2>1
         DEF BytesInv, PosKept, MemoryKept, LevelsKept, StrKept, TroubleKept
  <1>4. CASE /\ f_pos' = [f_pos EXCEPT ![f] = IF fault /\ n > 0 THEN @ - Bytes!EFAULT ELSE @ + n]
             /\ bd_trouble' = bd_trouble
                  \cup (Bytes!If("not all read", Bytes!Cardinality(Bytes!Accessed(f, n)) < n)
                        \cup Bytes!If("moved back", fault /\ n > 0) \cup out)
             /\ UNCHANGED kbufs
    <2>1. Bytes!If("not all read", Bytes!Cardinality(Bytes!Accessed(f, n)) < n) = {}
      <3>1. Bytes!Cardinality(Bytes!Accessed(f, n)) = n
        BY <1>2, AccessedAll
      <3>2. ~(Bytes!Cardinality(Bytes!Accessed(f, n)) < n)
        <4> HIDE DEF n
        <4> QED BY <3>1, <1>2
      <3> QED BY <3>2 DEF Bytes!If
    <2>2. /\ Bytes!If("moved back", fault /\ n > 0) \subseteq {"moved back"}
          /\ fault /\ n > 0 => Bytes!If("moved back", fault /\ n > 0) = {"moved back"}
      BY Zenon DEF Bytes!If
    <2>3. out \subseteq {"outside"} /\ (out # {} => f_pos[f] < 0)
      BY DEF Bytes!Elsewhere, Bytes!If
    <2>4. BytesTypes'
      <3>1. f_pos' \in [BdFiles -> Int]
        <4> DEFINE p == IF fault /\ n > 0 THEN f_pos[f] - Bytes!EFAULT ELSE f_pos[f] + n
        <4>1. p \in Int
          BY <1>2 DEF Bytes!EFAULT
        <4>2. f_pos' = [f_pos EXCEPT ![f] = p]
          BY <1>4, Zenon
        <4>3. f_pos \in [BdFiles -> Int]
          BY DEF BytesInv, BytesTypes
        <4> HIDE DEF p
        <4> QED BY <4>1, <4>2, <4>3
      <3> QED BY <3>1, <1>1, <1>4 DEF BytesInv, BytesTypes
    <2>5. bd_trouble \subseteq bd_trouble'
          /\ bd_trouble' \subseteq bd_trouble \cup {"moved back", "outside"}
      BY <1>4, <2>1, <2>2, <2>3
    <2>6. PosKept'
      <3>1. ASSUME NEW g \in BdFiles, f_pos'[g] < 0, ~(fault /\ n > 0)
            PROVE  f_pos[g] < 0
        <4>1. f_pos' = [f_pos EXCEPT ![f] = f_pos[f] + n]
          BY <1>4, <3>1, Zenon
        <4>2. CASE g = f
          <5>1. f_pos'[f] = f_pos[f] + n
            BY <4>1 DEF BytesInv, BytesTypes
          <5> HIDE DEF n
          <5> QED BY <5>1, <4>2, <3>1, <1>2
        <4>3. CASE g # f
          <5>1. f_pos'[g] = f_pos[g]
            BY <4>1, <4>3 DEF BytesInv, BytesTypes
          <5> QED BY <5>1, <3>1
        <4> QED BY <4>2, <4>3
      <3>2. CASE fault /\ n > 0
        <4>1. "moved back" \in bd_trouble'
          BY <3>2, <2>2, <1>4
        <4> QED BY <4>1 DEF PosKept
      <3>3. CASE ~(fault /\ n > 0)
        <4>1. "outside" \in bd_trouble' => "outside" \in bd_trouble \/ f_pos[f] < 0
          BY <1>4, <2>1, <2>2, <2>3
        <4>2. "moved back" \in bd_trouble => "moved back" \in bd_trouble'
          BY <2>5
        <4> QED BY <4>1, <4>2, <3>1, <3>3 DEF BytesInv, PosKept
      <3> QED BY <3>2, <3>3
    <2>7. TroubleKept'
      BY <1>4, <2>5 DEF BytesInv, TroubleKept
    <2> QED BY <1>1, <2>4, <2>6, <2>7 DEF BytesInv, MemoryKept, LevelsKept, StrKept
  <1>5. \/ /\ kbufs' = kbufs + 1 /\ bd_trouble' = bd_trouble \cup {"no such minor"}
           /\ UNCHANGED f_pos
        \/ /\ f_pos' = [f_pos EXCEPT ![f] = IF fault /\ n > 0 THEN @ - Bytes!EFAULT ELSE @ + n]
           /\ bd_trouble' = bd_trouble
                \cup (Bytes!If("not all read", Bytes!Cardinality(Bytes!Accessed(f, n)) < n)
                      \cup Bytes!If("moved back", fault /\ n > 0) \cup out)
           /\ UNCHANGED kbufs
    BY Zenon DEF Bytes!silly_read, Bytes!Trouble
  <1> QED BY <1>3, <1>4, <1>5

\* What a write by words leaves of a byte
LEMMA StoredOrExcused ==
  ASSUME NEW f \in BdFiles, NEW n \in Nat, f_pos[f] \in Int,
         NEW a \in f_pos[f] .. f_pos[f] + n - 1, a \notin Bytes!Stored(f, n), NEW c
  PROVE  Excused(<<f, a - f_pos[f], c>>)
PROOF
  <1> DEFINE unit == Bytes!Unit(Minor[f], f_pos[f], n)
             place == a - f_pos[f]
  <1>1. /\ unit \in {1, 2, 4}
        /\ unit = 2 => Minor[f] \in {1, 2}
        /\ unit = 4 => Minor[f] = 2
    BY UnitDivides
  <1>2. a \in Bytes!Accessed(f, n)
    BY AccessedAll
  <1>3. place % unit # 0
    BY <1>2 DEF Bytes!Stored
  <1>4. place \in Nat
    OBVIOUS
  <1> HIDE DEF unit, place
  <1>5. Minor[f] \in {1, 2} /\ (place % 2 = 1 \/ (Minor[f] = 2 /\ place % 4 = 2))
    <2>1. CASE unit = 1
      <3>1. place % 1 = 0
        BY <1>4
      <3> QED BY <3>1, <2>1, <1>3
    <2>2. CASE unit = 2
      <3>1. place % 2 # 0
        BY <2>2, <1>3
      <3>2. place % 2 = 1
        BY <3>1, <1>4
      <3> QED BY <3>2, <2>2, <1>1
    <2>3. CASE unit = 4
      <3>1. place % 4 # 0
        BY <2>3, <1>3
      <3>2. place % 2 = 1 \/ place % 4 = 2
        BY <3>1, <1>4
      <3> QED BY <3>2, <2>3, <1>1
    <2> QED BY <2>1, <2>2, <2>3, <1>1
  <1>6. <<f, place, c>>[1] = f /\ <<f, place, c>>[2] = place
    OBVIOUS
  <1> QED BY <1>5, <1>6 DEF Excused, place

LEMMA SillyWrite ==
  ASSUME BytesInv, NEW f \in BdFiles, NEW nbytes \in BdCounts, Bytes!silly_write(f, nbytes)
  PROVE  BytesInv'
PROOF
  <1> DEFINE n == Bytes!Clipped(f, nbytes)
             out == Bytes!Elsewhere(f, n)
             range == f_pos[f] .. f_pos[f] + n - 1
  <1>1. /\ bd_kind = "silly" /\ n >= 0
        /\ UNCHANGED <<bd_kind, bd_lines, bd_read>>
    BY Zenon DEF Bytes!silly_write
  <1>2. n \in Nat /\ f_pos[f] \in Int
    BY <1>1, ClippedNat DEF BytesInv
  <1>3. CASE /\ kbufs' = kbufs + 1 /\ bd_trouble' = bd_trouble \cup {"no such minor"}
             /\ UNCHANGED <<f_pos, memory, meant>>
    <2>1. BytesTypes'
      <3>1. kbufs' \in Nat
        <4>1. kbufs \in Nat /\ kbufs' = kbufs + 1
          BY <1>3, Zenon DEF BytesInv, BytesTypes
        <4> QED BY <4>1
      <3> QED BY <3>1, <1>1, <1>3 DEF BytesInv, BytesTypes
    <2> QED BY <1>1, <1>3, <2>1
         DEF BytesInv, PosKept, MemoryKept, LevelsKept, StrKept, TroubleKept
  <1>4. CASE /\ memory' = Bytes!Put(memory, f, Bytes!Stored(f, n))
             /\ meant' = Bytes!Put(meant, f, range)
             /\ f_pos' = [f_pos EXCEPT ![f] = @ + n]
             /\ bd_trouble' = bd_trouble \cup out
             /\ UNCHANGED kbufs
    <2>1. out \subseteq {"outside"} /\ (out # {} => f_pos[f] < 0)
      BY DEF Bytes!Elsewhere, Bytes!If
    <2>2. f_pos' \in [BdFiles -> Int]
      <3> HIDE DEF n
      <3> QED BY <1>2, <1>4 DEF BytesInv, BytesTypes
    <2>3. /\ DOMAIN memory' = DOMAIN memory /\ DOMAIN meant' = DOMAIN memory
          /\ \A a \in DOMAIN memory :
               /\ memory'[a] = IF a \in Bytes!Stored(f, n)
                               THEN <<f, a - f_pos[f], bd_calls>> ELSE memory[a]
               /\ meant'[a] = IF a \in range
                              THEN <<f, a - f_pos[f], bd_calls>> ELSE meant[a]
      <3>1. /\ memory' = [a \in DOMAIN memory |-> IF a \in Bytes!Stored(f, n)
                             THEN <<f, a - f_pos[f], bd_calls>> ELSE memory[a]]
            /\ meant' = [a \in DOMAIN meant |-> IF a \in range
                            THEN <<f, a - f_pos[f], bd_calls>> ELSE meant[a]]
        BY <1>4, Zenon DEF Bytes!Put
      <3>2. DOMAIN meant = DOMAIN memory
        BY DEF BytesInv, BytesTypes
      <3> HIDE DEF n, range
      <3> QED BY <3>1, <3>2
    <2>4. BytesTypes'
      BY <2>2, <2>3, <1>1, <1>4 DEF BytesInv, BytesTypes
    <2>5. PosKept'
      <3>1. ASSUME NEW g \in BdFiles, f_pos'[g] < 0  PROVE f_pos[g] < 0
        <4>1. CASE g = f
          <5>1. f_pos'[f] = f_pos[f] + n
            BY <1>4 DEF BytesInv, BytesTypes
          <5> HIDE DEF n
          <5> QED BY <5>1, <4>1, <3>1, <1>2
        <4>2. CASE g # f
          <5>1. f_pos'[g] = f_pos[g]
            BY <1>4, <4>2 DEF BytesInv, BytesTypes
          <5> QED BY <5>1, <3>1
        <4> QED BY <4>1, <4>2
      <3>2. "outside" \in bd_trouble' => "outside" \in bd_trouble \/ f_pos[f] < 0
        BY <1>4, <2>1
      <3>3. "moved back" \in bd_trouble => "moved back" \in bd_trouble'
        BY <1>4
      <3> QED BY <3>1, <3>2, <3>3 DEF BytesInv, PosKept
    <2>6. MemoryKept'
      <3> SUFFICES ASSUME NEW a \in DOMAIN memory
                   PROVE  memory'[a] = meant'[a] \/ Excused(meant'[a])
        BY <2>3 DEF MemoryKept, Excused
      <3>1. CASE a \in Bytes!Stored(f, n)
        <4>1. a \in range
          BY <3>1, <1>2, AccessedAll DEF Bytes!Stored
        <4> QED BY <3>1, <4>1, <2>3, Zenon
      <3>2. CASE a \notin Bytes!Stored(f, n) /\ a \in range
        <4>1. Excused(<<f, a - f_pos[f], bd_calls>>)
          BY <3>2, <1>2, StoredOrExcused
        <4> QED BY <3>2, <4>1, <2>3, Zenon
      <3>3. CASE a \notin Bytes!Stored(f, n) /\ a \notin range
        <4>1. memory[a] = meant[a] \/ Excused(meant[a])
          BY <1>1 DEF BytesInv, MemoryKept
        <4>2. memory'[a] = memory[a] /\ meant'[a] = meant[a]
          BY <3>3, <2>3, Zenon
        <4> QED BY <4>1, <4>2, Zenon
      <3> QED BY <3>1, <3>2, <3>3
    <2>7. TroubleKept'
      BY <1>4, <2>1 DEF BytesInv, TroubleKept
    <2> QED BY <1>1, <2>4, <2>5, <2>6, <2>7 DEF BytesInv, LevelsKept, StrKept
  <1>5. \/ /\ kbufs' = kbufs + 1 /\ bd_trouble' = bd_trouble \cup {"no such minor"}
           /\ UNCHANGED <<f_pos, memory, meant>>
        \/ /\ memory' = Bytes!Put(memory, f, Bytes!Stored(f, n))
           /\ meant' = Bytes!Put(meant, f, range)
           /\ f_pos' = [f_pos EXCEPT ![f] = @ + n]
           /\ bd_trouble' = bd_trouble \cup out
           /\ UNCHANGED kbufs
    BY Zenon DEF Bytes!silly_write, Bytes!Trouble
  <1> QED BY <1>3, <1>4, <1>5

LEMMA ShortCalls ==
  ASSUME BytesInv, NEW f \in BdFiles, Bytes!do_short_write(f) \/ Bytes!do_short_read(f)
  PROVE  BytesInv'
PROOF
  <1>1. /\ bd_kind = "short"
        /\ UNCHANGED <<bd_kind, f_pos, memory, meant, bd_lines, bd_read>>
        /\ \/ kbufs' = kbufs /\ bd_trouble' = bd_trouble
           \/ kbufs' = kbufs + 1 /\ bd_trouble' = bd_trouble \cup {"copy failed"}
    BY DEF Bytes!do_short_write, Bytes!do_short_read, Bytes!Trouble
  <1>2. kbufs' \in Nat
    <2>1. kbufs \in Nat /\ (kbufs' = kbufs \/ kbufs' = kbufs + 1)
      BY <1>1, Zenon DEF BytesInv, BytesTypes
    <2> QED BY <2>1
  <1>3. BytesTypes'
    BY <1>1, <1>2 DEF BytesInv, BytesTypes
  <1> QED BY <1>1, <1>3 DEF BytesInv, PosKept, LevelsKept, StrKept, TroubleKept

LEMMA ShortIntWrite ==
  ASSUME BytesInv, NEW f \in BdFiles, NEW nbytes \in BdCounts, Bytes!short_i_write(f, nbytes)
  PROVE  BytesInv'
PROOF
  <1> DEFINE same == Bytes!Level(f_pos[f], 1) = bd_lines[f]
  <1>1. /\ bd_kind = "shortint"
        /\ bd_trouble' = bd_trouble \cup Bytes!If("no change", same)
        /\ bd_lines' = [bd_lines EXCEPT ![f] = Bytes!Level(f_pos[f], nbytes)]
        /\ f_pos' = [f_pos EXCEPT ![f] = @ + nbytes]
        /\ UNCHANGED <<bd_kind, memory, meant, kbufs, bd_read>>
    BY DEF Bytes!short_i_write, Bytes!Trouble
  <1>2. nbytes \in Nat /\ f_pos[f] \in Nat /\ bd_lines[f] = (f_pos[f] % 2)
    BY <1>1, BytesAssumption DEF BytesInv, LevelsKept
  <1>3. Bytes!Level(f_pos[f], 1) # bd_lines[f]
        /\ Bytes!Level(f_pos[f], nbytes) = ((f_pos[f] + nbytes) % 2)
    <2>1. /\ Bytes!Level(f_pos[f], 1) = ((1 + (f_pos[f] % 2)) % 2)
          /\ Bytes!Level(f_pos[f], nbytes) = ((nbytes + (f_pos[f] % 2)) % 2)
      BY DEF Bytes!Level
    <2> DEFINE p == f_pos[f]
    <2>2. p \in Nat
      BY <1>2
    <2> HIDE DEF p
    <2>3. ((1 + (p % 2)) % 2) # (p % 2) /\ ((nbytes + (p % 2)) % 2) = ((p + nbytes) % 2)
      BY <2>2, <1>2
    <2> QED BY <2>1, <2>3, <1>2 DEF p
  <1>4. bd_trouble' = bd_trouble
    <2>1. Bytes!If("no change", same) = {}
      BY <1>3 DEF Bytes!If
    <2> QED BY <2>1, <1>1
  <1>5. /\ f_pos'[f] = f_pos[f] + nbytes /\ bd_lines'[f] = ((f_pos[f] + nbytes) % 2)
        /\ \A g \in BdFiles : g # f => f_pos'[g] = f_pos[g] /\ bd_lines'[g] = bd_lines[g]
        /\ f_pos' \in [BdFiles -> Int] /\ bd_lines' \in [BdFiles -> Int]
    <2>1. f_pos \in [BdFiles -> Int] /\ bd_lines \in [BdFiles -> Int]
      BY DEF BytesInv, BytesTypes
    <2>2. f_pos[f] + nbytes \in Int /\ ((f_pos[f] + nbytes) % 2) \in Int
      BY <1>2
    <2>3. bd_lines' = [bd_lines EXCEPT ![f] = ((f_pos[f] + nbytes) % 2)]
      BY <1>1, <1>3, Zenon
    <2>4. /\ bd_lines'[f] = ((f_pos[f] + nbytes) % 2)
          /\ \A g \in BdFiles : g # f => bd_lines'[g] = bd_lines[g]
          /\ bd_lines' \in [BdFiles -> Int]
      BY <2>1, <2>2, <2>3
    <2>5. /\ f_pos'[f] = f_pos[f] + nbytes
          /\ \A g \in BdFiles : g # f => f_pos'[g] = f_pos[g]
          /\ f_pos' \in [BdFiles -> Int]
      BY <2>1, <2>2, <1>1
    <2> QED BY <2>4, <2>5
  <1>6. BytesTypes'
    BY <1>1, <1>5 DEF BytesInv, BytesTypes
  <1>7. LevelsKept'
    <2>1. ASSUME NEW g \in BdFiles  PROVE f_pos'[g] \in Nat /\ bd_lines'[g] = (f_pos'[g] % 2)
      <3>1. CASE g = f
        <4>1. f_pos[f] + nbytes \in Nat
          BY <1>2
        <4> QED BY <4>1, <3>1, <1>5
      <3>2. CASE g # f
        <4>1. f_pos[g] \in Nat /\ bd_lines[g] = (f_pos[g] % 2)
          BY <1>1 DEF BytesInv, LevelsKept
        <4> QED BY <4>1, <3>2, <1>5
      <3> QED BY <3>1, <3>2
    <2> QED BY <2>1 DEF LevelsKept
  <1>8. PosKept'
    <2>1. \A g \in BdFiles : ~(f_pos'[g] < 0)
      <3>1. \A g \in BdFiles : f_pos'[g] \in Nat
        BY <1>1, <1>7 DEF LevelsKept
      <3> QED BY <3>1
    <2> QED BY <2>1, <1>4 DEF BytesInv, PosKept
  <1> QED BY <1>1, <1>4, <1>6, <1>7, <1>8 DEF BytesInv, StrKept, TroubleKept

\* Str is not empty.
LEMMA StrLength == Len(Str) = MAX_SIZE /\ Str # <<>>
PROOF
  <1>1. Len(Str) = MAX_SIZE /\ MAX_SIZE # 0
    BY BytesAssumption DEF Str
  <1>2. Len(<<>>) = 0
    OBVIOUS
  <1> QED BY <1>1, <1>2, Zenon

LEMMA StrSequence == Str \o <<>> = Str /\ <<>> \o Str = Str
PROOF
  <1> DEFINE S == {memory[k - 1] : k \in 1 .. MAX_SIZE}
  <1>1. \A k \in 1 .. MAX_SIZE : memory[k - 1] \in S
    OBVIOUS
  <1> HIDE DEF S
  <1>2. Str \in [1 .. MAX_SIZE -> S]
    BY <1>1 DEF Str
  <1>3. MAX_SIZE \in Nat
    BY BytesAssumption
  <1>4. Str \in Seq(S)
    <2> HIDE DEF Str
    <2> QED BY <1>2, <1>3, SeqDef
  <1> QED BY <1>4, ConcatEmptySeq

LEMMA ProcWrite ==
  ASSUME BytesInv, NEW f \in BdFiles, NEW nbytes \in BdCounts, Bytes!proc_write(f, nbytes)
  PROVE  BytesInv'
PROOF
  <1> DEFINE others == \E g \in BdFiles : bd_read[g] # <<>>
  <1>1. /\ bd_kind = "proc_test" /\ meant' = memory'
        /\ DOMAIN memory' = 0 .. MAX_SIZE - 1
        /\ bd_trouble' = bd_trouble \cup Bytes!If("written meanwhile", others)
        /\ UNCHANGED <<bd_kind, f_pos, bd_lines, kbufs, bd_read>>
    BY DEF Bytes!proc_write, Bytes!Trouble
  <1>2. BytesTypes'
    <2>1. DOMAIN memory' \subseteq Int /\ DOMAIN meant' = DOMAIN memory'
      <3>1. 0 .. MAX_SIZE - 1 \subseteq Int
        BY BytesAssumption
      <3> QED BY <3>1, <1>1, Zenon
    <2> QED BY <2>1, <1>1 DEF BytesInv, BytesTypes
  <1>3. StrKept'
    <2> SUFFICES ASSUME bd_trouble' = {}, NEW g \in BdFiles
                 PROVE  f_pos[g] = 0 /\ bd_read[g] = <<>>
      BY <1>1 DEF StrKept
    <2>1. bd_trouble = {} /\ ~others
      BY <1>1 DEF Bytes!If
    <2>2. \/ f_pos[g] = 0 /\ bd_read[g] = <<>>
          \/ f_pos[g] = MAX_SIZE /\ bd_read[g] = Str
      BY <2>1, <1>1 DEF BytesInv, StrKept
    <2> QED BY <2>1, <2>2, StrLength
  <1>4. PosKept' /\ TroubleKept'
    <2>1. bd_trouble \subseteq bd_trouble'
          /\ bd_trouble' \subseteq bd_trouble \cup {"written meanwhile"}
      BY <1>1 DEF Bytes!If
    <2> QED BY <2>1, <1>1 DEF BytesInv, PosKept, TroubleKept
  <1> QED BY <1>1, <1>2, <1>3, <1>4 DEF BytesInv, LevelsKept

LEMMA ProcRead ==
  ASSUME BytesInv, NEW f \in BdFiles, NEW nbytes \in BdCounts, Bytes!proc_read(f, nbytes)
  PROVE  BytesInv'
PROOF
  <1> DEFINE n == IF nbytes > MAX_SIZE THEN MAX_SIZE - f_pos[f] ELSE nbytes
             p == IF nbytes > MAX_SIZE THEN MAX_SIZE ELSE f_pos[f] + nbytes
             given == [k \in 1 .. n |-> memory[k - 1]]
  <1>1. /\ bd_kind = "proc_test"
        /\ UNCHANGED <<bd_kind, memory, meant, bd_lines, kbufs>>
        /\ f_pos' = [f_pos EXCEPT ![f] = p]
        /\ bd_read' = [bd_read EXCEPT ![f] = @ \o given]
        /\ bd_trouble' = bd_trouble \cup Bytes!If("small count", nbytes <= MAX_SIZE)
    BY Zenon DEF Bytes!proc_read, Bytes!Trouble
  <1>2. nbytes \in Nat /\ MAX_SIZE \in Nat /\ f_pos[f] \in Int /\ p \in Int
        /\ f_pos \in [BdFiles -> Int]
    BY BytesAssumption DEF BytesInv, BytesTypes
  <1>3. BytesTypes'
    <2>1. f_pos' \in [BdFiles -> Int]
      <3> HIDE DEF p
      <3> QED BY <1>1, <1>2
    <2>2. bd_read' = [g \in BdFiles |-> bd_read'[g]]
      <3> HIDE DEF given
      <3> QED BY <1>1 DEF BytesInv, BytesTypes
    <2> QED BY <2>1, <2>2, <1>1 DEF BytesInv, BytesTypes
  <1>4. bd_trouble \subseteq bd_trouble'
        /\ bd_trouble' \subseteq bd_trouble \cup {"small count"}
        /\ (bd_trouble' = {} => ~(nbytes <= MAX_SIZE))
    BY <1>1 DEF Bytes!If
  <1>5. PosKept'
    <2>1. ASSUME NEW g \in BdFiles, f_pos'[g] < 0  PROVE f_pos[g] < 0
      <3>1. CASE g = f
        <4>1. f_pos'[f] = p
          <5> HIDE DEF p
          <5> QED BY <1>1, <1>2
        <4>2. p < 0
          <5> HIDE DEF p
          <5> QED BY <4>1, <3>1, <2>1
        <4> QED BY <4>2, <3>1, <1>2
      <3>2. CASE g # f
        <4>1. f_pos'[g] = f_pos[g]
          <5> HIDE DEF p
          <5> QED BY <1>1, <1>2, <3>2
        <4> QED BY <4>1, <2>1
      <3> QED BY <3>1, <3>2
    <2> QED BY <2>1, <1>4 DEF BytesInv, PosKept
  <1>6. StrKept'
    <2> SUFFICES ASSUME bd_trouble' = {}, NEW g \in BdFiles
                 PROVE  \/ f_pos'[g] = 0 /\ bd_read'[g] = <<>>
                        \/ f_pos'[g] = MAX_SIZE /\ bd_read'[g] = Str
      BY <1>1 DEF StrKept, Str
    <2>1. bd_trouble = {} /\ nbytes > MAX_SIZE
      BY <1>2, <1>4
    <2>2. \A h \in BdFiles : \/ f_pos[h] = 0 /\ bd_read[h] = <<>>
                             \/ f_pos[h] = MAX_SIZE /\ bd_read[h] = Str
      BY <2>1, <1>1 DEF BytesInv, StrKept
    <2>3. CASE g # f
      <3>1. f_pos'[g] = f_pos[g]
        <4> HIDE DEF p
        <4> QED BY <1>1, <1>2, <2>3
      <3>2. bd_read'[g] = bd_read[g]
        <4> HIDE DEF given
        <4> QED BY <1>1, <2>3 DEF BytesInv, BytesTypes
      <3> QED BY <3>1, <3>2, <2>2
    <2>4. CASE g = f
      <3>1. f_pos'[f] = MAX_SIZE
        <4>1. p = MAX_SIZE
          BY <2>1
        <4> HIDE DEF p
        <4> QED BY <4>1, <1>1, <1>2
      <3>2. bd_read'[f] = bd_read[f] \o given
        <4> HIDE DEF given
        <4> QED BY <1>1 DEF BytesInv, BytesTypes
      <3>3. n = MAX_SIZE - f_pos[f]
        BY <2>1
      <3>4. CASE f_pos[f] = 0 /\ bd_read[f] = <<>>
        <4>1. n = MAX_SIZE
          BY <3>3, <3>4, <1>2
        <4>2. given = Str
          <5> HIDE DEF n
          <5> QED BY <4>1, Zenon DEF Str
        <4> HIDE DEF given
        <4> QED BY <2>4, <3>1, <3>2, <3>4, <4>2, StrSequence
      <3>5. CASE f_pos[f] = MAX_SIZE /\ bd_read[f] = Str
        <4>1. n = 0
          BY <3>3, <3>5, <1>2
        <4>2. given = <<>>
          <5> HIDE DEF n
          <5>1. 1 .. n = {}
            BY <4>1
          <5> QED BY <5>1
        <4> HIDE DEF given
        <4> QED BY <2>4, <3>1, <3>2, <3>5, <4>2, StrSequence
      <3> QED BY <2>2, <3>4, <3>5
    <2> QED BY <2>3, <2>4
  <1>7. TroubleKept'
    BY <1>1, <1>4 DEF BytesInv, TroubleKept
  <1> QED BY <1>1, <1>3, <1>5, <1>6, <1>7 DEF BytesInv, LevelsKept

LEMMA BytesSteps ==
  ASSUME BytesInv, Bytes!Next
  PROVE  BytesInv'
PROOF
  BY SillyRead, SillyWrite, ShortCalls, ShortIntWrite, ProcWrite, ProcRead DEF Bytes!Next

LEMMA BytesInvProves ==
  ASSUME BytesInv
  PROVE  /\ Bytes!WindowKept /\ Bytes!LinesToggle
         /\ Bytes!StrOnce /\ Bytes!BuffersFreed
PROOF
  <1>1. Bytes!WindowKept
    <2>1. ASSUME bd_kind = "silly", NEW a \in DOMAIN memory, memory[a] # meant[a]
          PROVE  Excused(meant[a])
      BY <2>1 DEF BytesInv, MemoryKept
    <2>2. "not all read" \notin bd_trouble
          /\ ("outside" \in bd_trouble => "moved back" \in bd_trouble)
      BY DEF BytesInv, TroubleKept, PosKept
    <2> QED BY <2>1, <2>2, Zenon DEF Bytes!WindowKept, Excused
  <1>2. Bytes!LinesToggle
    BY DEF BytesInv, TroubleKept, Bytes!LinesToggle
  <1>3. Bytes!StrOnce
    BY DEF BytesInv, StrKept, Str, Bytes!StrOnce
  <1>4. Bytes!BuffersFreed
    <2>1. kbufs > 0 => kbufs # 0
      <3>1. kbufs \in Nat
        BY DEF BytesInv, BytesTypes
      <3> QED BY <3>1
    <2> QED BY <2>1, Zenon DEF BytesInv, TroubleKept, Bytes!BuffersFreed
  <1> QED BY <1>1, <1>2, <1>3, <1>4

(***************************************************************************)
(* What every behaviour of MCDrivers keeps                                 *)
(***************************************************************************)

\* A driver that does not run rests.
LEMMA OneRuns ==
  ASSUME DriversNext
  PROVE  /\ Next \/ UNCHANGED vars
         /\ Usb!Next \/ UNCHANGED usbVars
         /\ Disk!Next \/ UNCHANGED sbullVars
         /\ Bytes!Next \/ UNCHANGED byteVars
PROOF
  <1>1. Rest
    BY DEF DriversNext
  <1>2. Next \/ UNCHANGED vars
    <2>1. CASE driver = "access"
      BY <2>1 DEF DriversNext
    <2>2. CASE driver # "access"
      BY <2>2, <1>1 DEF Rest
    <2> QED BY <2>1, <2>2
  <1>3. Usb!Next \/ UNCHANGED usbVars
    <2>1. CASE driver = "usb"
      BY <2>1 DEF DriversNext
    <2>2. CASE driver # "usb"
      BY <2>2, <1>1 DEF Rest
    <2> QED BY <2>1, <2>2
  <1>4. Disk!Next \/ UNCHANGED sbullVars
    <2>1. CASE driver = "sbull"
      BY <2>1 DEF DriversNext
    <2>2. CASE driver # "sbull"
      BY <2>2, <1>1 DEF Rest
    <2> QED BY <2>1, <2>2
  <1>5. Bytes!Next \/ UNCHANGED byteVars
    <2>1. CASE driver = "bytes"
      BY <2>1 DEF DriversNext
    <2>2. CASE driver # "bytes"
      BY <2>2, <1>1 DEF Rest
    <2> QED BY <2>1, <2>2
  <1> QED BY <1>2, <1>3, <1>4, <1>5

LEMMA DriversInvariant == DriversSpec => [](IInv /\ UsbInv /\ DiskInv /\ BytesInv)
PROOF
  <1> DEFINE DriversInv == IInv /\ UsbInv /\ DiskInv /\ BytesInv
  <1>1. DriversInit => DriversInv
    <2> SUFFICES ASSUME DriversInit  PROVE DriversInv
      OBVIOUS
    <2>1. Init /\ Usb!Init /\ Disk!Init /\ Bytes!Init
      BY Zenon DEF DriversInit
    <2> QED BY <2>1, InitInv, UsbInitInv, DiskInitInv, BytesInitInv
  <1>2. DriversInv /\ [DriversNext]_driversVars => DriversInv'
    <2> SUFFICES ASSUME DriversInv, [DriversNext]_driversVars  PROVE DriversInv'
      OBVIOUS
    <2>1. /\ [Next]_vars
          /\ Usb!Next \/ UNCHANGED usbVars
          /\ Disk!Next \/ UNCHANGED sbullVars
          /\ Bytes!Next \/ UNCHANGED byteVars
      <3>1. CASE DriversNext
        BY <3>1, OneRuns
      <3>2. CASE UNCHANGED driversVars
        BY <3>2 DEF driversVars
      <3> QED BY <3>1, <3>2
    <2>2. IInv'
      BY <2>1, IInvStep
    <2>3. UsbInv'
      BY <2>1, UsbSteps, UsbRests DEF usbVars
    <2>4. DiskInv'
      BY <2>1, DiskSteps, DiskRests DEF sbullVars
    <2>5. BytesInv'
      BY <2>1, BytesSteps, BytesRests DEF byteVars
    <2> QED BY <2>2, <2>3, <2>4, <2>5
  <1> HIDE DEF DriversInv
  <1>3. DriversSpec => []DriversInv
    BY <1>1, <1>2, PTL DEF DriversSpec
  <1> QED BY <1>3 DEF DriversInv

\* For any bounds: a structure of usb-skeleton is counted, and deleted with its
\* last reference, whatever is unplugged while files are open; the users of a
\* disk are counted and find what was written since the medium changed, however
\* their opens meet its timer and whatever segments their requests have; and
\* the devices of bytes keep every byte, level and buffer where it belongs.
THEOREM UsersCountedCorrect == DriversSpec => []UsersCounted
PROOF
  <1>1. IInv /\ UsbInv /\ DiskInv /\ BytesInv => UsersCounted
    BY UsbInvProves, DiskInvProves, BytesInvProves DEF UsersCounted
  <1> QED BY <1>1, DriversInvariant, PTL
=============================================================================
