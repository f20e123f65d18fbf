-------------------------------- MODULE Rcu --------------------------------
(***************************************************************************)
(* The epoch RCU of Utils/rcu.hpp driven as Utils/test/rcu_test.cpp drives *)
(* it: reader threads (ReaderFunc), one writer that replaces the published *)
(* object (WriteFunc), and one thread that frees the replaced objects in   *)
(* batches (FreeFunc).                                                     *)
(*                                                                         *)
(* Each atomic access of shared memory is one step.  lock() is two of      *)
(* them, the load of GlobalVersion and the store of the thread's own       *)
(* version: another thread may run between the two.  The store is a        *)
(* memory_order_release store, a plain mov on x86: with StoreBuffered =    *)
(* TRUE it waits in the core's FIFO store buffer while the thread goes on  *)
(* to load gObjPtr.  StoreBuffered = FALSE is the same code with a store   *)
(* that is visible before the next load (memory_order_seq_cst).            *)
(***************************************************************************)
EXTENDS Naturals, Sequences, TLC

CONSTANTS
  Readers,        \* reader threads
  Objects,        \* heap addresses operator new can return
  Threshold,      \* FreeFunc frees only when this many objects wait (15)
  MaxVersion,     \* bound: GlobalVersion stops growing here
  StoreBuffered,  \* does a release store wait in a store buffer?
  BufferSlots,    \* length of that buffer
  None            \* no object

ASSUME RcuAssumption ==
  /\ Threshold \in Nat \ {0}
  /\ MaxVersion \in Nat
  /\ StoreBuffered \in BOOLEAN
  /\ BufferSlots \in Nat
  /\ None \notin Objects

VARIABLES
  GlobalVersion,        \* std::atomic<unsigned long>, starts at 1
  ContainerOfVersion,   \* the registered readers, in order
  CurrentVersion,       \* CurrentVersionPerThread of each reader, in memory
  buffer,               \* its stores that are not in memory yet
  rpc, loaded, ptr,     \* reader: position, version loaded, object in use
  gObjPtr,              \* the published object
  live,                 \* allocated addresses
  wpc, tmpObj, old,     \* writer: position, new object, TOBEFREE
  FreeObjList,
  lock_for_node,        \* "none", or the thread that holds the mutex
  fpc, tmp, least,      \* FreeFunc: position, tmp and LeastVersion of wait()
  pos, end,             \* the range-for iterators over ContainerOfVersion
  moved,                \* this scan's iterators point into a freed array
  raced,                \* history: that has happened
  pre                   \* history: readers inside since before the wait

readerVars == <<CurrentVersion, buffer, rpc, loaded, ptr>>
writerVars == <<gObjPtr, wpc, tmpObj, old>>
scanVars   == <<tmp, least, pos, end, moved, raced>>
vars == <<GlobalVersion, ContainerOfVersion, readerVars, live, writerVars,
          FreeObjList, lock_for_node, fpc, scanVars, pre>>

NoRCURead == 0

Init ==
  /\ GlobalVersion = 1
  /\ ContainerOfVersion = <<>>
  /\ CurrentVersion = [r \in Readers |-> NoRCURead]
  /\ buffer = [r \in Readers |-> <<>>]
  /\ rpc = [r \in Readers |-> "start"]
  /\ loaded = [r \in Readers |-> NoRCURead]
  /\ ptr = [r \in Readers |-> None]
  /\ gObjPtr \in Objects
  /\ live = {gObjPtr}
  /\ wpc = "copy" /\ tmpObj = None /\ old = None
  /\ FreeObjList = <<>>
  /\ lock_for_node = "none"
  /\ fpc = "sleep" /\ tmp = 0 /\ least = 0 /\ pos = 1 /\ end = 0
  /\ moved = FALSE
  /\ raced = FALSE
  /\ pre = {}

-----------------------------------------------------------------------------
(* Readers *)

\* CurrentVersionPerThread.store(v, memory_order_release)
StoreVersion(r, v) ==
  IF StoreBuffered
  THEN /\ Len(buffer[r]) < BufferSlots
       /\ buffer' = [buffer EXCEPT ![r] = Append(@, v)]
       /\ UNCHANGED CurrentVersion
  ELSE /\ CurrentVersion' = [CurrentVersion EXCEPT ![r] = v]
       /\ UNCHANGED buffer

\* The oldest buffered store reaches memory.
Drain(r) ==
  /\ buffer[r] # <<>>
  /\ CurrentVersion' = [CurrentVersion EXCEPT ![r] = Head(buffer[r])]
  /\ buffer' = [buffer EXCEPT ![r] = Tail(@)]
  /\ UNCHANGED <<GlobalVersion, ContainerOfVersion, rpc, loaded, ptr, live,
                 writerVars, FreeObjList, lock_for_node, fpc, scanVars, pre>>

\* push_back on a full vector moves the elements and frees the old array;
\* libstdc++ doubles the capacity: 1, 2, 4, ...
Reallocates(n) == \E k \in 0 .. n : n = 2 ^ k

Scanning == fpc = "scan" /\ pos <= end

\* RegisterVersion takes a mutex of its own, which wait() does not take: the
\* vector may move under the iterators of a running scan.
RegisterVersion(r) ==
  LET moves == Scanning /\ Reallocates(Len(ContainerOfVersion)) IN
  /\ rpc[r] = "start"
  /\ ContainerOfVersion' = Append(ContainerOfVersion, r)
  /\ rpc' = [rpc EXCEPT ![r] = "idle"]
  /\ moved' = (moved \/ moves)
  /\ raced' = (raced \/ moves)
  /\ UNCHANGED <<GlobalVersion, CurrentVersion, buffer, loaded, ptr, live,
                 writerVars, FreeObjList, lock_for_node, fpc, tmp, least, pos,
                 end, pre>>

\* lock(), first half: GlobalVersion.load
LoadVersion(r) ==
  /\ rpc[r] = "idle"
  /\ loaded' = [loaded EXCEPT ![r] = GlobalVersion]
  /\ rpc' = [rpc EXCEPT ![r] = "loaded"]
  /\ UNCHANGED <<GlobalVersion, ContainerOfVersion, CurrentVersion, buffer,
                 ptr, live, writerVars, FreeObjList, lock_for_node, fpc,
                 scanVars, pre>>

\* lock(), second half: the version is stored
Lock(r) ==
  /\ rpc[r] = "loaded"
  /\ StoreVersion(r, loaded[r])
  /\ rpc' = [rpc EXCEPT ![r] = "locked"]
  /\ UNCHANGED <<GlobalVersion, ContainerOfVersion, loaded, ptr, live,
                 writerVars, FreeObjList, lock_for_node, fpc, scanVars, pre>>

\* tmpPtr = gObjPtr.load(); the object is then read until unlock()
LoadPtr(r) ==
  /\ rpc[r] = "locked"
  /\ ptr' = [ptr EXCEPT ![r] = gObjPtr]
  /\ rpc' = [rpc EXCEPT ![r] = "use"]
  /\ UNCHANGED <<GlobalVersion, ContainerOfVersion, CurrentVersion, buffer,
                 loaded, live, writerVars, FreeObjList, lock_for_node, fpc,
                 scanVars, pre>>

Unlock(r) ==
  /\ rpc[r] = "use"
  /\ StoreVersion(r, NoRCURead)
  /\ ptr' = [ptr EXCEPT ![r] = None]
  /\ rpc' = [rpc EXCEPT ![r] = "idle"]
  /\ pre' = pre \ {r}
  /\ UNCHANGED <<GlobalVersion, ContainerOfVersion, loaded, live, writerVars,
                 FreeObjList, lock_for_node, fpc, scanVars>>

-----------------------------------------------------------------------------
(* WriteFunc *)

\* tmp = new RCUTest(); *tmp = *gObjPtr.  Bound: Objects is the heap.
Copy ==
  /\ wpc = "copy"
  /\ \E o \in Objects \ live :
       /\ tmpObj' = o
       /\ live' = live \union {o}
  /\ wpc' = "load"
  /\ UNCHANGED <<GlobalVersion, ContainerOfVersion, readerVars, gObjPtr, old,
                 FreeObjList, lock_for_node, fpc, scanVars, pre>>

\* TOBEFREE = gObjPtr.load()
LoadOld ==
  /\ wpc = "load"
  /\ old' = gObjPtr
  /\ wpc' = "store"
  /\ UNCHANGED <<GlobalVersion, ContainerOfVersion, readerVars, live, gObjPtr,
                 tmpObj, FreeObjList, lock_for_node, fpc, scanVars, pre>>

\* gObjPtr.store(tmp).  The mutex taken next is a locked instruction, so the
\* store is in memory before TOBEFREE is retired; it is placed when it lands.
Publish ==
  /\ wpc = "store"
  /\ gObjPtr' = tmpObj
  /\ tmpObj' = None
  /\ wpc' = "retire"
  /\ UNCHANGED <<GlobalVersion, ContainerOfVersion, readerVars, live, old,
                 FreeObjList, lock_for_node, fpc, scanVars, pre>>

\* FreeObjList.push_back(TOBEFREE) under lock_for_node
Retire ==
  /\ wpc = "retire"
  /\ lock_for_node = "none"
  /\ FreeObjList' = Append(FreeObjList, old)
  /\ old' = None
  /\ wpc' = "copy"
  /\ UNCHANGED <<GlobalVersion, ContainerOfVersion, readerVars, live, gObjPtr,
                 tmpObj, lock_for_node, fpc, scanVars, pre>>

-----------------------------------------------------------------------------
(* FreeFunc and RCU::wait *)

\* The mutex is taken; with fewer than Threshold objects it is given back at
\* once (continue), which changes nothing.
TakeBatch ==
  /\ fpc = "sleep"
  /\ lock_for_node = "none"
  /\ Len(FreeObjList) >= Threshold
  /\ lock_for_node' = "free"
  /\ fpc' = "wait"
  /\ UNCHANGED <<GlobalVersion, ContainerOfVersion, readerVars, live,
                 writerVars, FreeObjList, scanVars, pre>>

Inside(r) == rpc[r] \in {"locked", "use"}

NextVersion == GlobalVersion + 1

\* tmp = GlobalVersion.fetch_add(1), then the first pass of the loop begins.
\* Bound: MaxVersion.
BeginWait ==
  /\ fpc = "wait"
  /\ GlobalVersion < MaxVersion
  /\ tmp' = GlobalVersion
  /\ GlobalVersion' = NextVersion
  /\ pre' = {r \in Readers : Inside(r)}
  /\ fpc' = "begin"
  /\ UNCHANGED <<ContainerOfVersion, readerVars, live, writerVars,
                 FreeObjList, lock_for_node, least, pos, end, moved, raced>>

\* LeastVersion = tmp+1 and the iterators of the range-for
BeginScan ==
  /\ fpc = "begin"
  /\ least' = tmp + 1
  /\ pos' = 1
  /\ end' = Len(ContainerOfVersion)
  /\ moved' = FALSE
  /\ fpc' = "scan"
  /\ UNCHANGED <<GlobalVersion, ContainerOfVersion, readerVars, live,
                 writerVars, FreeObjList, lock_for_node, tmp, raced, pre>>

\* Faults: the last version instead of the least; idle threads counted.
Lower_Last(low, version) == IF version # NoRCURead THEN version ELSE low
Lower_CountsIdle(low, version) == IF version < low THEN version ELSE low

\* min over the threads that are in a read
Lower(low, version) ==
  IF version # NoRCURead /\ version < low THEN version ELSE low

\* What pVersion->load() yields at this position: memory, or anything at all
\* when the array the iterator points into has been freed.
Seen ==
  IF moved THEN 0 .. MaxVersion
           ELSE {CurrentVersion[ContainerOfVersion[pos]]}

ScanOne ==
  /\ Scanning
  /\ \E version \in Seen : least' = Lower(least, version)
  /\ pos' = pos + 1
  /\ UNCHANGED <<GlobalVersion, ContainerOfVersion, readerVars, live,
                 writerVars, FreeObjList, lock_for_node, fpc, tmp, end, moved,
                 raced, pre>>

\* Fault: a reader of version tmp itself is not waited for.
AllLeft_OffByOne == least >= tmp

AllLeft == least > tmp

EndScan ==
  /\ fpc = "scan"
  /\ pos > end
  /\ fpc' = IF AllLeft THEN "free" ELSE "begin"
  /\ UNCHANGED <<GlobalVersion, ContainerOfVersion, readerVars, live,
                 writerVars, FreeObjList, lock_for_node, scanVars, pre>>

\* Fault: the front is deleted, the back is popped.
Back_Front == FreeObjList[1]

Back == FreeObjList[Len(FreeObjList)]

\* delete FreeObjList.back(); FreeObjList.pop_back()
Delete ==
  /\ fpc = "free"
  /\ FreeObjList # <<>>
  /\ live' = live \ {Back}
  /\ FreeObjList' = SubSeq(FreeObjList, 1, Len(FreeObjList) - 1)
  /\ UNCHANGED <<GlobalVersion, ContainerOfVersion, readerVars, writerVars,
                 lock_for_node, fpc, scanVars, pre>>

\* the batch is empty: the lock_guard goes out of scope
EndBatch ==
  /\ fpc = "free"
  /\ FreeObjList = <<>>
  /\ lock_for_node' = "none"
  /\ fpc' = "sleep"
  /\ UNCHANGED <<GlobalVersion, ContainerOfVersion, readerVars, live,
                 writerVars, FreeObjList, scanVars, pre>>

-----------------------------------------------------------------------------
ReaderFunc(r) == RegisterVersion(r) \/ LoadVersion(r) \/ Lock(r) \/ LoadPtr(r)
                   \/ Unlock(r)
WriteFunc == Copy \/ LoadOld \/ Publish \/ Retire
Wait      == BeginScan \/ ScanOne \/ EndScan
FreeFunc  == TakeBatch \/ BeginWait \/ Wait \/ Delete \/ EndBatch

Next ==
  \/ \E r \in Readers : ReaderFunc(r) \/ Drain(r)
  \/ WriteFunc
  \/ FreeFunc

Spec == Init /\ [][Next]_vars

\* Threads are scheduled and store buffers drain; the writer need not run.
FairSpec ==
  /\ Spec
  /\ \A r \in Readers : WF_vars(ReaderFunc(r)) /\ WF_vars(Drain(r))
  /\ WF_vars(FreeFunc)

-----------------------------------------------------------------------------
(* Properties *)

\* Every variable stays in its type.
TypeOK ==
  /\ GlobalVersion \in Nat \ {0}
  /\ ContainerOfVersion \in Seq(Readers)
  /\ CurrentVersion \in [Readers -> Nat]
  /\ buffer \in [Readers -> Seq(Nat)]
  /\ rpc \in [Readers -> {"start", "idle", "loaded", "locked", "use"}]
  /\ loaded \in [Readers -> Nat]
  /\ ptr \in [Readers -> Objects \union {None}]
  /\ gObjPtr \in Objects
  /\ live \subseteq Objects
  /\ wpc \in {"copy", "load", "store", "retire"}
  /\ tmpObj \in Objects \union {None}
  /\ old \in Objects \union {None}
  /\ FreeObjList \in Seq(Objects)
  /\ lock_for_node \in {"none", "free"}
  /\ fpc \in {"sleep", "wait", "begin", "scan", "free"}
  /\ tmp \in Nat /\ least \in Nat /\ pos \in Nat \ {0} /\ end \in Nat
  /\ moved \in BOOLEAN /\ raced \in BOOLEAN
  /\ pre \subseteq Readers

\* An object a reader is using (rcu_test.cpp:34-35, until unlock) has not
\* been deleted, as long as no registration moved the vector under a scan.
NoUseAfterFree ==
  ~raced => \A r \in Readers : rpc[r] = "use" => ptr[r] \in live

\* The objects waiting to be freed are allocated, pairwise different, not the
\* published one and not the one the writer is about to retire: FreeFunc
\* deletes each replaced object once and never the current one.
RetiredOnce ==
  /\ gObjPtr \in live
  /\ \A i \in 1 .. Len(FreeObjList) :
       /\ FreeObjList[i] \in live \ {gObjPtr, tmpObj, old}
       /\ \A j \in 1 .. Len(FreeObjList) :
            FreeObjList[i] = FreeObjList[j] => i = j

\* wait() is a grace period: it returns only after every reader that was
\* between lock() and unlock() when it was called has called unlock().  Until
\* a registration races with a scan, every step is a step of GracePeriod.
GP == INSTANCE GracePeriod WITH
        inside  <- {r \in Readers : Inside(r)},
        waiting <- fpc \in {"begin", "scan"}
IsGracePeriod == GP!Init /\ [][raced' \/ [GP!Next]_(GP!vars)]_vars

\* wait() returns: readers that arrive during it store a version above tmp
\* and cannot keep it spinning.
WaitReturns == (fpc = "begin") ~> (fpc = "free")

\* For TLC: readers and addresses differ in nothing but their names.
Symmetry == Permutations(Readers) \union Permutations(Objects)
=============================================================================
