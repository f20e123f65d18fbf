----------------------------- MODULE RingQueue -----------------------------
(***************************************************************************)
(* The lock-free byte ring of                                              *)
(* Other/MemoryAllocator/ConcurrentMemoryRingBuffer.cpp: one producer that *)
(* calls acquire(size) and one consumer that calls consume() until the     *)
(* producer is done.  Addresses are offsets into mStorage.                 *)
(*                                                                         *)
(* Steps are the accesses of the two shared indices and of mDataEnd, which *)
(* is a plain variable both threads use.  Every index is stored by one     *)
(* thread only; a thread that reads the other's index late sees less free  *)
(* space or less data, so interleaved steps cover release and acquire.     *)
(***************************************************************************)
EXTENDS Integers, Sequences

CONSTANTS
  Capacity,   \* bytes of mStorage
  Sizes       \* sizes passed to acquire()

ASSUME RingAssumption == Capacity \in Nat \ {0} /\ Sizes \subseteq Nat

VARIABLES
  mWriteIndex, mReadIndex,   \* the two atomics
  mDataEnd,                  \* where the data stops before a wrap
  mSnapWritePos, mSnapWriteEnd,  \* producer: its window of free space
  ppc, size, rSeen,          \* producer: position, request, index loaded
  cpc, mSnapReadEnd,         \* consumer: position, write index loaded
  result                     \* consumer: ResultVec, two ranges <<from, to>>

producerVars == <<mWriteIndex, mDataEnd, mSnapWritePos, mSnapWriteEnd, ppc,
                  size, rSeen>>
consumerVars == <<mReadIndex, cpc, mSnapReadEnd, result>>
vars == <<producerVars, consumerVars>>

NoRange == <<0, 0>>

Init ==
  /\ mWriteIndex = 0 /\ mReadIndex = 0 /\ mDataEnd = 0
  /\ mSnapWritePos = 0 /\ mSnapWriteEnd = 0
  /\ ppc = "idle" /\ size = 0 /\ rSeen = 0
  /\ cpc = "idle" /\ mSnapReadEnd = 0
  /\ result = <<NoRange, NoRange>>

-----------------------------------------------------------------------------
(* Producer *)

writeCapacity == mSnapWriteEnd - mSnapWritePos

\* acquire(n): Reserve succeeds at once when the window is large enough.
Acquire(n) ==
  /\ ppc = "idle"
  /\ size' = n
  /\ ppc' = IF n <= writeCapacity THEN "write" ELSE "load"
  /\ UNCHANGED <<mWriteIndex, mDataEnd, mSnapWritePos, mSnapWriteEnd, rSeen,
                 consumerVars>>

\* maximizeWriteCapacity: the producer's own index and the consumer's
LoadReadIndex ==
  /\ ppc = "load"
  /\ rSeen' = mReadIndex
  /\ ppc' = "maximize"
  /\ UNCHANGED <<mWriteIndex, mDataEnd, mSnapWritePos, mSnapWriteEnd, size,
                 consumerVars>>

\* Fault: one byte past the storage is counted.
rightSize_Inclusive == Capacity - mWriteIndex + 1

rightSize == Capacity - mWriteIndex

\* Fault: the byte that keeps a full ring from looking empty is given away.
leftSize_Full == rSeen

leftSize == rSeen - 1

\* Faults: the branch of the empty ring lost; the branch w < r lost.
Wraps_NotEmpty == mWriteIndex > rSeen /\ rightSize < leftSize
Wraps_Anywhere == rightSize < leftSize

Wraps == mWriteIndex >= rSeen /\ rightSize < leftSize

dataEnd == mWriteIndex

\* The rest of maximizeWriteCapacity; the spin of acquire() repeats it until
\* the window is large enough.
Maximize ==
  LET pos == IF Wraps THEN 0 ELSE mWriteIndex
      lim == IF Wraps \/ mWriteIndex < rSeen THEN leftSize
                                              ELSE mWriteIndex + rightSize
  IN
  /\ ppc = "maximize"
  /\ mDataEnd' = IF Wraps THEN dataEnd ELSE mDataEnd
  /\ mSnapWritePos' = pos
  /\ mSnapWriteEnd' = lim
  /\ ppc' = IF size <= lim - pos THEN "write" ELSE "load"
  /\ UNCHANGED <<mWriteIndex, size, rSeen, consumerVars>>

\* writeBuffer, then CommitAllocate
Commit ==
  /\ ppc = "write"
  /\ mSnapWritePos' = mSnapWritePos + size
  /\ mWriteIndex' = mSnapWritePos + size
  /\ ppc' = "idle"
  /\ UNCHANGED <<mDataEnd, mSnapWriteEnd, size, rSeen, consumerVars>>

\* The driver has made all its calls and sets isStop.
Stop ==
  /\ ppc = "idle"
  /\ ppc' = "done"
  /\ UNCHANGED <<mWriteIndex, mDataEnd, mSnapWritePos, mSnapWriteEnd, size,
                 rSeen, consumerVars>>

-----------------------------------------------------------------------------
(* Consumer *)

\* beginRead: the producer's index; the consumer's own cannot change.
LoadWriteIndex ==
  /\ cpc = "idle"
  /\ mSnapReadEnd' = mWriteIndex
  /\ cpc' = "begin"
  /\ UNCHANGED <<mReadIndex, result, producerVars>>

\* Fault: the comparison with the end of the data is reversed.
ReadsRight_Reversed == mReadIndex > mSnapReadEnd /\ mReadIndex > mDataEnd

ReadsRight == mReadIndex > mSnapReadEnd /\ mReadIndex < mDataEnd

\* The rest of beginRead: mDataEnd is looked at when the data has wrapped.
BeginRead ==
  /\ cpc = "begin"
  /\ result' =
       CASE mReadIndex <= mSnapReadEnd ->
              <<<<mReadIndex, mSnapReadEnd>>, NoRange>>
         [] ReadsRight -> <<<<mReadIndex, mDataEnd>>, <<0, mSnapReadEnd>>>>
         [] OTHER -> <<<<0, mSnapReadEnd>>, NoRange>>
  /\ cpc' = "read"
  /\ UNCHANGED <<mReadIndex, mSnapReadEnd, producerVars>>

EndRead ==
  /\ cpc = "read"
  /\ mReadIndex' = mSnapReadEnd
  /\ cpc' = "idle"
  /\ UNCHANGED <<mSnapReadEnd, result, producerVars>>

\* while(!isStop.load())
Finish ==
  /\ cpc = "idle"
  /\ ppc = "done"
  /\ cpc' = "done"
  /\ UNCHANGED <<mReadIndex, mSnapReadEnd, result, producerVars>>

-----------------------------------------------------------------------------
Retry == LoadReadIndex \/ Maximize
Producer == (\E n \in Sizes : Acquire(n)) \/ Retry \/ Commit \/ Stop
Consumer == LoadWriteIndex \/ BeginRead \/ EndRead \/ Finish
Next == Producer \/ Consumer

Spec == Init /\ [][Next]_vars

\* Both threads run; the producer may make no further call.
FairSpec == Spec /\ WF_vars(Retry) /\ WF_vars(Commit) /\ WF_vars(Consumer)

-----------------------------------------------------------------------------
(* Properties *)

\* Every variable stays in its type: the indices inside the storage, and the
\* producer's window never negative, so that the std::size_t conversion of
\* writeCapacity() (line 56) does not wrap around.
TypeOK ==
  /\ mWriteIndex \in 0 .. Capacity
  /\ mReadIndex \in 0 .. Capacity
  /\ mDataEnd \in 0 .. Capacity
  /\ mSnapWritePos \in 0 .. Capacity
  /\ mSnapWriteEnd \in mSnapWritePos .. Capacity
  /\ ppc \in {"idle", "load", "maximize", "write", "done"}
  /\ size \in Nat
  /\ rSeen \in 0 .. Capacity
  /\ cpc \in {"idle", "begin", "read", "done"}
  /\ mSnapReadEnd \in 0 .. Capacity
  /\ result \in Seq(Nat \X Nat)

\* Address a holds bytes the producer committed and the consumer has not
\* released.
Used(a) ==
  IF mReadIndex <= mWriteIndex
  THEN mReadIndex <= a /\ a < mWriteIndex
  ELSE a < mWriteIndex \/ (mReadIndex <= a /\ a < mDataEnd)

\* The block acquire() is about to hand out lies inside the storage, even
\* where mWriteIndex wraps, and no byte of it is one the consumer still has
\* to release (writeBuffer, line 68 asserts the first part).
NoOverlap ==
  ppc = "write" =>
    /\ mSnapWritePos + size <= Capacity
    /\ \A a \in mSnapWritePos .. mSnapWritePos + size - 1 : ~Used(a)

\* mDataEnd is not atomic: the producer never stores it while the consumer
\* is about to load it.
DataEndNotRaced ==
  ~ (ppc = "maximize" /\ Wraps /\ cpc = "begin" /\ mReadIndex > mSnapReadEnd)

\* The queue seen through its indices.
Span(from, to) ==
  [i \in 1 .. (IF from < to THEN to - from ELSE 0) |-> from + i - 1]

Readable ==
  IF mReadIndex <= mWriteIndex
  THEN Span(mReadIndex, mWriteIndex)
  ELSE Span(mReadIndex, mDataEnd) \o Span(0, mWriteIndex)

\* Every commit appends one contiguous block of free addresses and every
\* endRead takes from the front: the ring is a FIFO of blocks.
Fifo == INSTANCE ByteFifo WITH fifo <- Readable
IsFifo == Fifo!Spec

ReadNow == Span(result[1][1], result[1][2]) \o Span(result[2][1], result[2][2])

\* endRead releases exactly the bytes beginRead returned, in order, although
\* the producer may have committed more, wrapped, and moved mDataEnd since.
ReleasesWhatItRead ==
  [][mReadIndex' # mReadIndex => Readable = ReadNow \o Readable']_vars

\* acquire() returns for every request of at most half of the storage: the
\* consumer empties the ring, and an empty ring has that much free on one
\* side.  The requests of the drivers are far below (256 bytes of 2 MB).
AcquireReturns ==
  (ppc = "load" /\ size <= Capacity \div 2) ~> (ppc = "idle")
=============================================================================
