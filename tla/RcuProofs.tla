----------------------------- MODULE RcuProofs -----------------------------
(***************************************************************************)
(* Proofs about Rcu for any number of readers and addresses and any        *)
(* threshold.  TypeCorrect holds with and without store buffers;           *)
(* RetiredOnceCorrect too.  NoUseAfterFreeCorrect needs the version store  *)
(* to be ordered before the pointer load (StoreBuffered = FALSE).          *)
(***************************************************************************)
EXTENDS Rcu, SequenceTheorems, TLAPS

(***************************************************************************)
(* Types                                                                   *)
(***************************************************************************)

\* What the writer's locals hold at each point of WriteFunc, and how far the
\* iterators of the scan reach.
LocalsHold ==
  /\ wpc \in {"load", "store"} => tmpObj \in Objects
  /\ wpc \in {"store", "retire"} => old \in Objects
  /\ end <= Len(ContainerOfVersion)

TypeInv == TypeOK /\ LocalsHold

LEMMA StoreTyped ==
  ASSUME TypeOK, NEW r \in Readers, NEW v \in Nat, StoreVersion(r, v)
  PROVE  /\ CurrentVersion' \in [Readers -> Nat]
         /\ buffer' \in [Readers -> Seq(Nat)]
<1>1. CASE StoreBuffered
  <2>1. Append(buffer[r], v) \in Seq(Nat)
    BY DEF TypeOK
  <2> QED
    BY <1>1, <2>1 DEF StoreVersion, TypeOK
<1>2. CASE ~StoreBuffered
  BY <1>2 DEF StoreVersion, TypeOK
<1> QED
  BY <1>1, <1>2

LEMMA TypeInvariant == Spec => []TypeInv
<1>1. Init => TypeInv
  <2> SUFFICES ASSUME Init PROVE TypeInv
    OBVIOUS
  <2> USE DEF Init, NoRCURead
  <2>1. /\ ContainerOfVersion \in Seq(Readers)
        /\ FreeObjList \in Seq(Objects)
        /\ buffer \in [Readers -> Seq(Nat)]
    OBVIOUS
  <2>2. /\ live \subseteq Objects
        /\ pre \subseteq Readers
    OBVIOUS
  <2>3. /\ CurrentVersion \in [Readers -> Nat]
        /\ loaded \in [Readers -> Nat]
        /\ ptr \in [Readers -> Objects \union {None}]
        /\ rpc \in [Readers -> {"start", "idle", "loaded", "locked", "use"}]
    OBVIOUS
  <2>6. moved \in BOOLEAN /\ raced \in BOOLEAN
    OBVIOUS
  <2>4. TypeOK
    BY <2>1, <2>2, <2>3, <2>6 DEF TypeOK
  <2>5. LocalsHold
    <3>1. end = 0 /\ Len(ContainerOfVersion) = 0
      OBVIOUS
    <3> QED
      BY <3>1 DEF LocalsHold
  <2> QED
    BY <2>4, <2>5 DEF TypeInv
<1>2. TypeInv /\ [Next]_vars => TypeInv'
  <2> SUFFICES ASSUME TypeInv, [Next]_vars PROVE TypeInv'
    OBVIOUS
  <2> USE DEF TypeInv, TypeOK, LocalsHold, readerVars, writerVars, scanVars
  <2>1. ASSUME NEW r \in Readers, RegisterVersion(r) PROVE TypeInv'
    <3>1. /\ ContainerOfVersion' \in Seq(Readers)
          /\ Len(ContainerOfVersion') = Len(ContainerOfVersion) + 1
          /\ Len(ContainerOfVersion) \in Nat
      BY <2>1 DEF RegisterVersion
    <3>2. moved' \in BOOLEAN /\ raced' \in BOOLEAN
      BY <2>1 DEF RegisterVersion
    <3>3. end' <= Len(ContainerOfVersion')
      BY <2>1, <3>1 DEF RegisterVersion
    <3> HIDE DEF Scanning, Reallocates
    <3> QED
      BY <2>1, <3>1, <3>2, <3>3 DEF RegisterVersion
  <2>2. ASSUME NEW r \in Readers, LoadVersion(r) PROVE TypeInv'
    BY <2>2 DEF LoadVersion
  <2>3. ASSUME NEW r \in Readers, Lock(r) PROVE TypeInv'
    <3>1. loaded[r] \in Nat
      OBVIOUS
    <3>2. /\ CurrentVersion' \in [Readers -> Nat]
          /\ buffer' \in [Readers -> Seq(Nat)]
      BY <2>3, <3>1, StoreTyped DEF Lock
    <3> QED
      BY <2>3, <3>2 DEF Lock
  <2>4. ASSUME NEW r \in Readers, LoadPtr(r) PROVE TypeInv'
    BY <2>4 DEF LoadPtr
  <2>5. ASSUME NEW r \in Readers, Unlock(r) PROVE TypeInv'
    <3>1. /\ CurrentVersion' \in [Readers -> Nat]
          /\ buffer' \in [Readers -> Seq(Nat)]
      BY <2>5, StoreTyped DEF Unlock, NoRCURead
    <3> QED
      BY <2>5, <3>1 DEF Unlock
  <2>6. ASSUME NEW r \in Readers, Drain(r) PROVE TypeInv'
    BY <2>6 DEF Drain
  <2>7. CASE Copy
    BY <2>7 DEF Copy
  <2>8. CASE LoadOld
    BY <2>8 DEF LoadOld
  <2>9. CASE Publish
    BY <2>9 DEF Publish
  <2>10. CASE Retire
    BY <2>10 DEF Retire
  <2>11. CASE TakeBatch
    BY <2>11 DEF TakeBatch
  <2>12. CASE BeginWait
    BY <2>12 DEF BeginWait, NextVersion
  <2>13. CASE BeginScan
    <3>1. Len(ContainerOfVersion) \in Nat
      OBVIOUS
    <3>2. moved' \in BOOLEAN /\ raced' \in BOOLEAN
      BY <2>13 DEF BeginScan
    <3> QED
      BY <2>13, <3>1, <3>2 DEF BeginScan
  <2>14. CASE ScanOne
    <3>1. Seen \subseteq Nat
      <4>1. ContainerOfVersion[pos] \in Readers
        <5>1. pos \in 1 .. Len(ContainerOfVersion)
          BY <2>14 DEF ScanOne, Scanning
        <5> QED
          BY <5>1
      <4> QED
        BY <4>1, RcuAssumption DEF Seen
    <3>2. least' \in Nat
      BY <2>14, <3>1 DEF ScanOne, Lower
    <3> QED
      BY <2>14, <3>2 DEF ScanOne
  <2>15. CASE EndScan
    BY <2>15 DEF EndScan
  <2>16. CASE Delete
    BY <2>16 DEF Delete
  <2>17. CASE EndBatch
    BY <2>17 DEF EndBatch
  <2>18. CASE UNCHANGED vars
    BY <2>18 DEF vars
  <2> QED
    BY <2>1, <2>2, <2>3, <2>4, <2>5, <2>6, <2>7, <2>8, <2>9, <2>10, <2>11,
       <2>12, <2>13, <2>14, <2>15, <2>16, <2>17, <2>18
    DEF Next, ReaderFunc, WriteFunc, FreeFunc, Wait
<1> QED
  BY <1>1, <1>2, PTL DEF Spec

\* Every variable of the readers, the writer and the freeing thread stays in
\* its type, whatever the interleaving and with either memory order.
THEOREM TypeCorrect == Spec => []TypeOK
<1>1. TypeInv => TypeOK
  BY DEF TypeInv
<1> QED
  BY <1>1, TypeInvariant, PTL

(***************************************************************************)
(* Objects: each is retired once                                           *)
(***************************************************************************)

Retired == {FreeObjList[i] : i \in 1 .. Len(FreeObjList)}

\* What the writer holds is allocated and neither published nor retired yet.
WriterOwns ==
  /\ wpc \in {"load", "store"} => tmpObj \in live \ (Retired \union {gObjPtr})
  /\ wpc \in {"copy", "retire"} => tmpObj = None
  /\ wpc = "store" => old = gObjPtr
  /\ wpc = "retire" => old \in live \ (Retired \union {gObjPtr})
  /\ wpc \in {"copy", "load"} => old = None

ListIsSet ==
  \A i, j \in 1 .. Len(FreeObjList) : FreeObjList[i] = FreeObjList[j] => i = j

ObjectInv ==
  /\ gObjPtr \in live \ Retired
  /\ Retired \subseteq live
  /\ ListIsSet
  /\ WriterOwns

LEMMA FrontOfSequence ==
  ASSUME NEW S, NEW s \in Seq(S), s # <<>>
  PROVE  /\ Len(s) \in Nat \ {0}
         /\ Len(SubSeq(s, 1, Len(s) - 1)) = Len(s) - 1
         /\ \A i \in 1 .. Len(s) - 1 : SubSeq(s, 1, Len(s) - 1)[i] = s[i]
<1>1. Len(s) \in Nat \ {0}
  OBVIOUS
<1> DEFINE n == Len(s) - 1
<1>2. \A i \in 1 .. n : s[i] \in S
  BY <1>1
<1>3. n \in Nat
  BY <1>1
<1>4. /\ Len(SubSeq(s, 1, n)) = IF 1 <= n THEN n - 1 + 1 ELSE 0
      /\ \A i \in 1 .. n - 1 + 1 : SubSeq(s, 1, n)[i] = s[1 + i - 1]
  BY <1>2, <1>3, SubSeqProperties
<1>5. /\ Len(SubSeq(s, 1, n)) = n
      /\ \A i \in 1 .. n : SubSeq(s, 1, n)[i] = s[i]
  <2> HIDE DEF n
  <2> QED
    BY <1>3, <1>4
<1> QED
  BY <1>1, <1>5

LEMMA ObjectInvariant == Spec => []ObjectInv
<1>1. Init => ObjectInv
  BY DEF Init, ObjectInv, Retired, ListIsSet, WriterOwns
<1>2. TypeInv /\ ObjectInv /\ [Next]_vars => ObjectInv'
  <2> SUFFICES ASSUME TypeInv, ObjectInv, [Next]_vars PROVE ObjectInv'
    OBVIOUS
  <2>a. FreeObjList \in Seq(Objects) /\ Len(FreeObjList) \in Nat
    BY DEF TypeInv, TypeOK
  <2> USE DEF ObjectInv, writerVars
  <2>1. CASE UNCHANGED <<live, writerVars, FreeObjList>>
    BY <2>1 DEF Retired, ListIsSet, WriterOwns
  <2>2. CASE Copy
    BY <2>2 DEF Copy, Retired, ListIsSet, WriterOwns
  <2>3. CASE LoadOld
    BY <2>3 DEF LoadOld, Retired, ListIsSet, WriterOwns
  <2>4. CASE Publish
    BY <2>4 DEF Publish, Retired, ListIsSet, WriterOwns
  <2>5. CASE Retire
    <3>1. /\ Len(FreeObjList') = Len(FreeObjList) + 1
          /\ FreeObjList'[Len(FreeObjList) + 1] = old
          /\ \A i \in 1 .. Len(FreeObjList) : FreeObjList'[i] = FreeObjList[i]
      <4>1. old \in Objects
        BY <2>5 DEF Retire, TypeInv, LocalsHold
      <4> QED
        BY <2>5, <2>a, <4>1 DEF Retire
    <3>2. Retired' = Retired \union {old}
      <4>1. Retired' \subseteq Retired \union {old}
        BY <3>1, <2>a DEF Retired
      <4>2. Retired \union {old} \subseteq Retired'
        <5>1. ASSUME NEW i \in 1 .. Len(FreeObjList)
              PROVE  FreeObjList[i] \in Retired'
          <6>1. i \in 1 .. Len(FreeObjList') /\ FreeObjList'[i] = FreeObjList[i]
            BY <3>1, <2>a
          <6> QED
            BY <6>1 DEF Retired
        <5>2. old \in Retired'
          <6>1. Len(FreeObjList) + 1 \in 1 .. Len(FreeObjList')
            BY <3>1, <2>a
          <6> QED
            BY <6>1, <3>1 DEF Retired
        <5> QED
          BY <5>1, <5>2 DEF Retired
      <4> QED
        BY <4>1, <4>2
    <3>3. old \notin Retired
      BY <2>5 DEF Retire, WriterOwns
    <3>4. ListIsSet'
      BY <3>1, <3>3, <2>a DEF ListIsSet, Retired
    <3> QED
      BY <2>5, <3>2, <3>4 DEF Retire, WriterOwns
  <2>6. CASE Delete
    <3>1. Len(FreeObjList) \in Nat \ {0}
      BY <2>6, <2>a, FrontOfSequence DEF Delete
    <3>2. /\ Len(FreeObjList') = Len(FreeObjList) - 1
          /\ \A i \in 1 .. Len(FreeObjList) - 1 : FreeObjList'[i] = FreeObjList[i]
      BY <2>6, <2>a, FrontOfSequence DEF Delete
    <3>3. Retired' = Retired \ {Back}
      BY <3>1, <3>2 DEF Retired, Back, ListIsSet
    <3>4. ListIsSet'
      BY <3>1, <3>2 DEF ListIsSet
    <3>5. Back \in Retired
      BY <3>1 DEF Back, Retired
    <3> QED
      BY <2>6, <3>3, <3>4, <3>5 DEF Delete, WriterOwns
  <2>7. CASE \E r \in Readers : ReaderFunc(r) \/ Drain(r)
    BY <2>1, <2>7 DEF ReaderFunc, Drain, RegisterVersion, LoadVersion, Lock,
                      LoadPtr, Unlock
  <2>8. CASE TakeBatch \/ BeginWait \/ Wait \/ EndBatch
    BY <2>1, <2>8 DEF TakeBatch, BeginWait, Wait, BeginScan, ScanOne, EndScan,
                      EndBatch
  <2>9. CASE UNCHANGED vars
    BY <2>1, <2>9 DEF vars
  <2> QED
    BY <2>2, <2>3, <2>4, <2>5, <2>6, <2>7, <2>8, <2>9
    DEF Next, WriteFunc, FreeFunc
<1> QED
  BY <1>1, <1>2, TypeInvariant, PTL DEF Spec

\* FreeFunc deletes each replaced object once and never the published one,
\* with either memory order and also when a registration races with a scan.
THEOREM RetiredOnceCorrect == Spec => []RetiredOnce
<1>1. TypeInv /\ ObjectInv => RetiredOnce
  <2> SUFFICES ASSUME TypeInv, ObjectInv PROVE RetiredOnce
    OBVIOUS
  <2>1. None \notin live
    BY RcuAssumption DEF TypeInv, TypeOK
  <2>2. tmpObj \notin Retired /\ old \notin Retired
    BY <2>1 DEF ObjectInv, WriterOwns, TypeInv, TypeOK
  <2> QED
    BY <2>2 DEF ObjectInv, RetiredOnce, Retired, ListIsSet
<1> QED
  BY <1>1, TypeInvariant, ObjectInvariant, PTL

(***************************************************************************)
(* Readers: the grace period                                               *)
(***************************************************************************)

Registered(r) == \E j \in 1 .. Len(ContainerOfVersion) : ContainerOfVersion[j] = r

\* A reader past the first half of lock() holds a version that was current;
\* past the second half the version is in memory.
ReaderInv ==
  \A r \in Readers :
    /\ rpc[r] # "start" => Registered(r)
    /\ rpc[r] \in {"loaded", "locked", "use"} =>
         loaded[r] \in 1 .. GlobalVersion
    /\ Inside(r) => CurrentVersion[r] = loaded[r]
    /\ rpc[r] = "use" => ptr[r] \in live
    /\ buffer[r] = <<>>

\* A reader of pre will be met by this scan, or has already lowered least.
WillBeSeen(r) ==
  \E j \in 1 .. Len(ContainerOfVersion) :
    /\ ContainerOfVersion[j] = r
    /\ fpc = "scan" => j <= end /\ (j < pos => least <= tmp)

\* While wait() runs, each reader of pre is inside with a version that wait()
\* waits for, and every reader with a retired object is one of them.
WaitInv ==
  /\ ~moved
  /\ lock_for_node = "none" <=> fpc = "sleep"
  /\ fpc \in {"begin", "scan"} => tmp < GlobalVersion
  /\ fpc = "scan" => end <= Len(ContainerOfVersion)
  /\ fpc \notin {"begin", "scan"} => pre = {}
  /\ \A r \in pre : Inside(r) /\ loaded[r] <= tmp /\ WillBeSeen(r)
  /\ fpc \in {"begin", "scan", "free"} =>
       \A r \in Readers : rpc[r] = "use" /\ ptr[r] \in Retired => r \in pre

GraceInv == ~raced => ReaderInv /\ WaitInv

IInv == TypeInv /\ ObjectInv /\ GraceInv

LEMMA StoreOrdered ==
  ASSUME StoreBuffered = FALSE, TypeOK, NEW r \in Readers, NEW v \in Nat,
         StoreVersion(r, v)
  PROVE  /\ CurrentVersion' = [CurrentVersion EXCEPT ![r] = v]
         /\ buffer' = buffer
  BY DEF StoreVersion

\* A reader's step keeps WaitInv when it takes no reader of pre outside and
\* gives no other reader a retired object.
LEMMA WaitKept ==
  ASSUME WaitInv,
         UNCHANGED <<GlobalVersion, ContainerOfVersion, FreeObjList,
                     lock_for_node, fpc, tmp, least, pos, end, moved>>,
         pre' \subseteq pre,
         \A q \in pre' : Inside(q)' /\ loaded'[q] = loaded[q],
         \A q \in Readers :
            rpc'[q] = "use" /\ ptr'[q] \in Retired =>
              rpc[q] = "use" /\ ptr[q] = ptr'[q] /\ (q \in pre => q \in pre')
  PROVE  WaitInv'
<1>1. Retired' = Retired
  BY DEF Retired
<1>2. \A q : WillBeSeen(q)' <=> WillBeSeen(q)
  BY DEF WillBeSeen
<1> QED
  BY <1>1, <1>2 DEF WaitInv

\* The steps that leave the readers, the list and the wait alone.
LEMMA GraceStutter ==
  ASSUME TypeInv, ReaderInv, WaitInv, live \subseteq live',
         UNCHANGED <<GlobalVersion, ContainerOfVersion, readerVars, FreeObjList,
                     lock_for_node, fpc, tmp, least, pos, end, moved, pre>>
  PROVE  ReaderInv' /\ WaitInv'
<1> USE DEF readerVars
<1>1. ReaderInv'
  BY DEF ReaderInv, Registered, Inside
<1>2. WaitInv'
  BY DEF WaitInv, Retired, WillBeSeen, Inside
<1> QED
  BY <1>1, <1>2

LEMMA GraceInvariant ==
  ASSUME StoreBuffered = FALSE
  PROVE  Spec => []GraceInv
<1>1. Init => GraceInv
  BY DEF Init, GraceInv, ReaderInv, WaitInv, Inside, NoRCURead
<1>2. TypeInv /\ ObjectInv /\ GraceInv /\ [Next]_vars => GraceInv'
  <2> SUFFICES ASSUME TypeInv, ObjectInv, GraceInv, [Next]_vars, ~raced'
               PROVE  ReaderInv' /\ WaitInv'
    BY DEF GraceInv
  <2>0. ~raced
    BY DEF Next, ReaderFunc, Drain, RegisterVersion, LoadVersion, Lock, LoadPtr,
           Unlock, WriteFunc, Copy, LoadOld, Publish, Retire, FreeFunc,
           TakeBatch, BeginWait, Wait, BeginScan, ScanOne, EndScan, Delete,
           EndBatch, scanVars, vars
  <2>i. ReaderInv /\ WaitInv
    BY <2>0 DEF GraceInv
  <2>l. Len(ContainerOfVersion) \in Nat
    BY DEF TypeInv, TypeOK
  <2> HIDE DEF GraceInv
  <2> USE DEF TypeInv, TypeOK
  <2>1. ASSUME NEW r \in Readers, RegisterVersion(r)
        PROVE  ReaderInv' /\ WaitInv'
    <3>0. /\ Len(ContainerOfVersion') = Len(ContainerOfVersion) + 1
          /\ ContainerOfVersion'[Len(ContainerOfVersion) + 1] = r
          /\ \A j \in 1 .. Len(ContainerOfVersion) :
               ContainerOfVersion'[j] = ContainerOfVersion[j]
      BY <2>1 DEF RegisterVersion
    <3>a. \A j \in 1 .. Len(ContainerOfVersion) :
            j \in 1 .. Len(ContainerOfVersion')
      BY <3>0, <2>l
    <3>1. ASSUME NEW q \in Readers, Registered(q) PROVE Registered(q)'
      <4>1. PICK j \in 1 .. Len(ContainerOfVersion) : ContainerOfVersion[j] = q
        BY <3>1 DEF Registered
      <4>2. ContainerOfVersion'[j] = q
        BY <3>0, <4>1
      <4> QED
        BY <3>a, <4>1, <4>2 DEF Registered
    <3>2. Registered(r)'
      <4>1. Len(ContainerOfVersion) + 1 \in 1 .. Len(ContainerOfVersion')
        BY <3>0, <2>l
      <4> QED
        BY <3>0, <4>1 DEF Registered
    <3>3. ReaderInv'
      BY <2>1, <2>i, <3>1, <3>2 DEF RegisterVersion, ReaderInv, Inside
    <3>4. ~moved'
      BY <2>1, <2>0, <2>i DEF RegisterVersion, WaitInv
    <3>5. ASSUME NEW q \in pre, WillBeSeen(q) PROVE WillBeSeen(q)'
      <4>1. PICK j \in 1 .. Len(ContainerOfVersion) :
              /\ ContainerOfVersion[j] = q
              /\ fpc = "scan" => j <= end /\ (j < pos => least <= tmp)
        BY <3>5 DEF WillBeSeen
      <4>2. ContainerOfVersion'[j] = q
        BY <3>0, <4>1
      <4>3. fpc' = "scan" => j <= end' /\ (j < pos' => least' <= tmp')
        BY <2>1, <4>1 DEF RegisterVersion
      <4> QED
        BY <3>a, <4>1, <4>2, <4>3 DEF WillBeSeen
    <3>6. Retired' = Retired
      BY <2>1 DEF RegisterVersion, Retired
    <3>7. \A q \in Readers : Inside(q) => q # r
      BY <2>1 DEF RegisterVersion, Inside
    <3>8. \A q \in pre' : Inside(q)' /\ loaded'[q] <= tmp' /\ WillBeSeen(q)'
      BY <2>1, <2>i, <3>5, <3>7 DEF RegisterVersion, WaitInv, Inside
    <3>9. /\ lock_for_node' = "none" <=> fpc' = "sleep"
          /\ fpc' \in {"begin", "scan"} => tmp' < GlobalVersion'
          /\ fpc' = "scan" => end' <= Len(ContainerOfVersion')
          /\ fpc' \notin {"begin", "scan"} => pre' = {}
      BY <2>1, <2>i, <3>0, <2>l DEF RegisterVersion, WaitInv
    <3>10. \A q \in Readers : rpc'[q] = "use" => rpc[q] = "use"
      BY <2>1 DEF RegisterVersion
    <3>11. fpc' \in {"begin", "scan", "free"} =>
             \A q \in Readers :
               rpc'[q] = "use" /\ ptr'[q] \in Retired' => q \in pre'
      BY <2>1, <2>i, <3>6, <3>10 DEF RegisterVersion, WaitInv
    <3> QED
      BY <3>3, <3>4, <3>8, <3>9, <3>11 DEF WaitInv
  <2>2. ASSUME NEW r \in Readers, LoadVersion(r)
        PROVE  ReaderInv' /\ WaitInv'
    <3>1. ReaderInv'
      BY <2>2, <2>i DEF LoadVersion, ReaderInv, Registered, Inside, writerVars, scanVars
    <3>2. WaitInv'
      BY <2>2, <2>i, WaitKept DEF LoadVersion, WaitInv, Inside, scanVars
    <3> QED BY <3>1, <3>2
  <2>3. ASSUME NEW r \in Readers, Lock(r)
        PROVE  ReaderInv' /\ WaitInv'
    <3>0. /\ CurrentVersion' = [CurrentVersion EXCEPT ![r] = loaded[r]]
          /\ buffer' = buffer
      BY <2>3, StoreOrdered DEF Lock
    <3>1. ReaderInv'
      BY <2>3, <2>i, <3>0 DEF Lock, ReaderInv, Registered, Inside, writerVars, scanVars
    <3>2. WaitInv'
      BY <2>3, <2>i, WaitKept DEF Lock, WaitInv, Inside, scanVars
    <3> QED BY <3>1, <3>2
  <2>4. ASSUME NEW r \in Readers, LoadPtr(r)
        PROVE  ReaderInv' /\ WaitInv'
    <3>1. ReaderInv'
      BY <2>4, <2>i DEF LoadPtr, ReaderInv, Registered, Inside, ObjectInv, writerVars, scanVars
    <3>2. WaitInv'
      BY <2>4, <2>i, WaitKept DEF LoadPtr, WaitInv, Inside, ObjectInv, scanVars
    <3> QED BY <3>1, <3>2
  <2>5. ASSUME NEW r \in Readers, Unlock(r)
        PROVE  ReaderInv' /\ WaitInv'
    <3>0. /\ CurrentVersion' = [CurrentVersion EXCEPT ![r] = 0]
          /\ buffer' = buffer
      BY <2>5, StoreOrdered DEF Unlock, NoRCURead
    <3>1. ReaderInv'
      BY <2>5, <2>i, <3>0 DEF Unlock, ReaderInv, Registered, Inside, writerVars, scanVars
    <3>2. WaitInv'
      BY <2>5, <2>i, WaitKept DEF Unlock, WaitInv, Inside, scanVars
    <3> QED BY <3>1, <3>2
  <2>6. ASSUME NEW r \in Readers, Drain(r)
        PROVE  ReaderInv' /\ WaitInv'
    BY <2>6, <2>i DEF Drain, ReaderInv
  <2>7. CASE Copy \/ LoadOld \/ Publish \/ UNCHANGED vars
    BY <2>7, <2>i, GraceStutter
    DEF Copy, LoadOld, Publish, vars, writerVars, scanVars, readerVars
  <2>8. CASE Retire
    <3>1. ReaderInv'
      BY <2>8, <2>i DEF Retire, ReaderInv, Registered, Inside, readerVars
    <3>2. WaitInv'
      BY <2>8, <2>i DEF Retire, WaitInv, WillBeSeen, Inside, readerVars, scanVars
    <3> QED BY <3>1, <3>2
  <2>9. CASE TakeBatch
    <3>1. ReaderInv'
      BY <2>9, <2>i DEF TakeBatch, ReaderInv, Registered, Inside, readerVars
    <3>2. WaitInv'
      BY <2>9, <2>i DEF TakeBatch, WaitInv, WillBeSeen, Inside, readerVars, scanVars
    <3> QED BY <3>1, <3>2
  <2>10. CASE BeginWait
    <3>1. ReaderInv'
      BY <2>10, <2>i
      DEF BeginWait, NextVersion, ReaderInv, Registered, Inside, readerVars
    <3>2. ASSUME NEW r \in pre'
          PROVE  Inside(r)' /\ loaded'[r] <= tmp' /\ WillBeSeen(r)'
      <4>1. r \in Readers /\ Inside(r)
        BY <2>10, <3>2 DEF BeginWait
      <4>2. Inside(r)' /\ loaded'[r] <= tmp'
        BY <2>10, <2>i, <4>1 DEF BeginWait, ReaderInv, Inside, readerVars
      <4>3. Registered(r)
        BY <2>i, <4>1 DEF ReaderInv, Inside
      <4>4. WillBeSeen(r)'
        BY <2>10, <4>3 DEF BeginWait, Registered, WillBeSeen
      <4> QED
        BY <4>2, <4>4
    <3>3. \A r \in Readers : rpc'[r] = "use" => r \in pre'
      BY <2>10 DEF BeginWait, Inside, readerVars
    <3> QED
      BY <2>10, <2>i, <3>1, <3>2, <3>3 DEF BeginWait, NextVersion, WaitInv
  <2>11. CASE BeginScan
    <3>1. ReaderInv'
      BY <2>11, <2>i DEF BeginScan, ReaderInv, Registered, Inside, readerVars
    <3>2. WaitInv'
      BY <2>11, <2>i, <2>l DEF BeginScan, WaitInv, WillBeSeen, Inside, Retired, readerVars
    <3> QED BY <3>1, <3>2
  <2>12. CASE ScanOne
    <3>1. ReaderInv'
      BY <2>12, <2>i DEF ScanOne, ReaderInv, Registered, Inside, readerVars
    <3>2. least' = Lower(least, CurrentVersion[ContainerOfVersion[pos]])
      BY <2>12, <2>i DEF ScanOne, Seen, WaitInv
    <3>3. /\ pos \in 1 .. Len(ContainerOfVersion)
          /\ ContainerOfVersion[pos] \in Readers
      BY <2>12, <2>l DEF ScanOne, Scanning, LocalsHold
    <3>4. CurrentVersion[ContainerOfVersion[pos]] \in Nat
      BY <3>3
    <3>5. ASSUME NEW r \in pre PROVE WillBeSeen(r)'
      <4>1. PICK j \in 1 .. Len(ContainerOfVersion) :
               /\ ContainerOfVersion[j] = r
               /\ j <= end /\ (j < pos => least <= tmp)
        BY <2>12, <2>i DEF ScanOne, Scanning, WaitInv, WillBeSeen
      <4>2. CurrentVersion[r] \in 1 .. tmp
        <5>1. r \in Readers /\ Inside(r) /\ loaded[r] <= tmp
          BY <2>i, <3>5 DEF WaitInv
        <5>2. CurrentVersion[r] = loaded[r] /\ loaded[r] \in 1 .. GlobalVersion
          BY <2>i, <5>1 DEF ReaderInv, Inside
        <5> QED
          BY <5>1, <5>2
      <4>3. j < pos + 1 => least' <= tmp
        <5>1. CASE j < pos
          <6>1. least <= tmp /\ least \in Nat /\ tmp \in Nat
            BY <4>1, <5>1
          <6> QED
            BY SMTT(20), <3>2, <3>4, <6>1 DEF Lower
        <5>2. CASE j = pos
          BY <3>2, <3>4, <4>1, <4>2, <5>2 DEF Lower, NoRCURead
        <5> QED
          BY <5>1, <5>2, <3>3
      <4> QED
        BY <2>12, <4>1, <4>3 DEF ScanOne, WillBeSeen
    <3>6. WaitInv'
      BY <2>12, <2>i, <3>5
      DEF ScanOne, Scanning, WaitInv, Inside, Retired, readerVars
    <3> QED BY <3>1, <3>6
  <2>13. CASE EndScan
    <3>1. ReaderInv'
      BY <2>13, <2>i DEF EndScan, ReaderInv, Registered, Inside, readerVars
    <3>2. AllLeft => pre = {}
      BY <2>13, <2>i DEF EndScan, AllLeft, WaitInv, WillBeSeen
    <3>3. \A r \in pre : WillBeSeen(r)'
      BY <2>13, <2>i, <3>2 DEF EndScan, WaitInv, WillBeSeen
    <3>4. WaitInv'
      BY <2>13, <2>i, <3>2, <3>3
      DEF EndScan, WaitInv, Inside, Retired, readerVars, scanVars
    <3> QED BY <3>1, <3>4
  <2>14. CASE Delete
    <3>1. /\ Len(FreeObjList) \in Nat \ {0}
          /\ Retired' \subseteq Retired
      <4>1. FreeObjList \in Seq(Objects) /\ FreeObjList # <<>>
        BY <2>14 DEF Delete
      <4> QED
        BY <2>14, <4>1, FrontOfSequence DEF Delete, Retired
    <3>2. Back \in Retired
      BY <3>1 DEF Back, Retired
    <3>3. \A r \in Readers : rpc[r] = "use" => ptr[r] # Back
      BY <2>14, <2>i, <3>2 DEF Delete, WaitInv
    <3>4. ReaderInv'
      BY <2>14, <2>i, <3>3
      DEF Delete, ReaderInv, Registered, Inside, readerVars
    <3>5. WaitInv'
      BY <2>14, <2>i, <3>1
      DEF Delete, WaitInv, WillBeSeen, Inside, readerVars, scanVars
    <3> QED BY <3>4, <3>5
  <2>15. CASE EndBatch
    <3>1. ReaderInv'
      BY <2>15, <2>i DEF EndBatch, ReaderInv, Registered, Inside, readerVars
    <3>2. WaitInv'
      BY <2>15, <2>i DEF EndBatch, WaitInv, WillBeSeen, Inside, readerVars, scanVars
    <3> QED BY <3>1, <3>2
  <2> QED
    BY <2>1, <2>2, <2>3, <2>4, <2>5, <2>6, <2>7, <2>8, <2>9, <2>10, <2>11,
       <2>12, <2>13, <2>14, <2>15
    DEF Next, ReaderFunc, WriteFunc, FreeFunc, Wait
<1> QED
  BY <1>1, <1>2, TypeInvariant, ObjectInvariant, PTL DEF Spec

\* With the version store ordered before the pointer load, no reader uses an
\* object that FreeFunc has deleted, for any number of readers and objects.
THEOREM NoUseAfterFreeCorrect ==
  ASSUME StoreBuffered = FALSE
  PROVE  Spec => []NoUseAfterFree
<1>1. GraceInv => NoUseAfterFree
  BY DEF GraceInv, ReaderInv, NoUseAfterFree
<1> QED
  BY <1>1, GraceInvariant, PTL

(***************************************************************************)
(* wait() is a grace period                                                *)
(***************************************************************************)

\* A step keeps what GracePeriod sees when it moves no reader in or out and
\* FreeFunc neither into nor out of wait().
LEMMA PeriodStutter ==
  ASSUME UNCHANGED <<rpc, fpc, pre>>
  PROVE  UNCHANGED GP!vars
BY DEF GP!vars, Inside

\* The reader steps are those of GracePeriod: lock() enters with its second
\* half, unlock() leaves.
LEMMA ReaderPeriod ==
  ASSUME TypeOK, NEW r \in Readers, ReaderFunc(r)
  PROVE  [GP!Next]_(GP!vars)
<1>1. CASE RegisterVersion(r)
  <2>1. \A q \in Readers : Inside(q)' <=> Inside(q)
    BY <1>1 DEF RegisterVersion, Inside, TypeOK
  <2> QED
    BY <1>1, <2>1 DEF RegisterVersion, GP!vars
<1>2. CASE LoadVersion(r)
  <2>1. \A q \in Readers : Inside(q)' <=> Inside(q)
    BY <1>2 DEF LoadVersion, Inside, TypeOK
  <2> QED
    BY <1>2, <2>1 DEF LoadVersion, GP!vars
<1>3. CASE Lock(r)
  <2>1. /\ ~Inside(r) /\ Inside(r)'
        /\ \A q \in Readers \ {r} : Inside(q)' <=> Inside(q)
    BY <1>3 DEF Lock, Inside, TypeOK
  <2>2. /\ r \notin {q \in Readers : Inside(q)}
        /\ {q \in Readers : Inside(q)}' = {q \in Readers : Inside(q)} \union {r}
    BY <2>1
  <2>3. GP!Enter(r)
    BY <1>3, <2>2 DEF Lock, GP!Enter
  <2> QED
    BY <2>3 DEF GP!Next
<1>4. CASE LoadPtr(r)
  <2>1. \A q \in Readers : Inside(q)' <=> Inside(q)
    BY <1>4 DEF LoadPtr, Inside, TypeOK
  <2> QED
    BY <1>4, <2>1 DEF LoadPtr, GP!vars
<1>5. CASE Unlock(r)
  <2>1. /\ Inside(r) /\ ~Inside(r)'
        /\ \A q \in Readers \ {r} : Inside(q)' <=> Inside(q)
    BY <1>5 DEF Unlock, Inside, TypeOK
  <2>2. /\ r \in {q \in Readers : Inside(q)}
        /\ {q \in Readers : Inside(q)}' = {q \in Readers : Inside(q)} \ {r}
    BY <2>1
  <2>3. GP!Leave(r)
    BY <1>5, <2>2 DEF Unlock, GP!Leave
  <2> QED
    BY <2>3 DEF GP!Next
<1> QED
  BY <1>1, <1>2, <1>3, <1>4, <1>5 DEF ReaderFunc

\* The last pass of wait() has seen every reader of pre: one it has not seen
\* leave has kept least at or below tmp.
LEMMA AllSeen ==
  ASSUME TypeInv, WaitInv, EndScan, AllLeft
  PROVE  pre = {}
<1> SUFFICES ASSUME NEW r \in pre PROVE FALSE
  OBVIOUS
<1>1. PICK j \in 1 .. Len(ContainerOfVersion) :
        j <= end /\ (j < pos => least <= tmp)
  BY DEF WaitInv, WillBeSeen, EndScan
<1>2. pos > end /\ least > tmp
  BY DEF EndScan, AllLeft
<1>3. j < pos
  BY <1>1, <1>2 DEF TypeInv, TypeOK
<1> QED
  BY <1>1, <1>2, <1>3 DEF TypeInv, TypeOK

\* wait() begins with the readers then inside and ends when none is left.
LEMMA FreePeriod ==
  ASSUME TypeInv, WaitInv, FreeFunc
  PROVE  [GP!Next]_(GP!vars)
<1>1. CASE BeginWait
  <2>1. GP!BeginWait
    BY <1>1 DEF BeginWait, GP!BeginWait, readerVars, Inside
  <2> QED
    BY <2>1 DEF GP!Next
<1>2. CASE EndScan /\ AllLeft
  <2>1. pre = {}
    BY <1>2, AllSeen
  <2>2. GP!EndWait
    BY <1>2, <2>1 DEF EndScan, GP!EndWait, readerVars, Inside
  <2> QED
    BY <2>2 DEF GP!Next
<1>3. CASE EndScan /\ ~AllLeft
  BY <1>3 DEF EndScan, GP!vars, readerVars, Inside
<1>4. CASE BeginScan
  BY <1>4 DEF BeginScan, GP!vars, readerVars, Inside
<1>5. CASE ScanOne
  BY <1>5, PeriodStutter DEF ScanOne, readerVars
<1>6. CASE TakeBatch
  BY <1>6 DEF TakeBatch, GP!vars, readerVars, Inside
<1>7. CASE Delete
  BY <1>7, PeriodStutter DEF Delete, readerVars
<1>8. CASE EndBatch
  BY <1>8 DEF EndBatch, GP!vars, readerVars, Inside
<1> QED
  BY <1>1, <1>2, <1>3, <1>4, <1>5, <1>6, <1>7, <1>8 DEF FreeFunc, Wait

\* wait() implements GracePeriod when the version store is ordered before the
\* pointer load: it returns only after every reader that was between lock()
\* and unlock() when it was called has called unlock().
THEOREM IsGracePeriodCorrect ==
  ASSUME StoreBuffered = FALSE
  PROVE  Spec => IsGracePeriod
<1>1. Init => GP!Init
  BY DEF Init, GP!Init, Inside
<1>2. TypeInv /\ GraceInv /\ [Next]_vars => raced' \/ [GP!Next]_(GP!vars)
  <2> SUFFICES ASSUME TypeInv, GraceInv, [Next]_vars, ~raced'
               PROVE  [GP!Next]_(GP!vars)
    OBVIOUS
  <2>1. CASE \E r \in Readers : ReaderFunc(r)
    BY <2>1, ReaderPeriod DEF TypeInv
  <2>2. CASE \E r \in Readers : Drain(r)
    BY <2>2, PeriodStutter DEF Drain
  <2>3. CASE WriteFunc
    BY <2>3, PeriodStutter
       DEF WriteFunc, Copy, LoadOld, Publish, Retire, readerVars
  <2>4. CASE FreeFunc
    <3>1. ~raced
      BY <2>4 DEF FreeFunc, Wait, TakeBatch, BeginWait, BeginScan, ScanOne,
                  EndScan, Delete, EndBatch, scanVars
    <3> QED
      BY <2>4, <3>1, FreePeriod DEF GraceInv
  <2>5. CASE UNCHANGED vars
    BY <2>5, PeriodStutter DEF vars, readerVars
  <2> QED
    BY <2>1, <2>2, <2>3, <2>4, <2>5 DEF Next
<1> QED
  BY <1>1, <1>2, TypeInvariant, GraceInvariant, PTL DEF Spec, IsGracePeriod
=============================================================================
