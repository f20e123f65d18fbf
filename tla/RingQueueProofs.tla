-------------------------- MODULE RingQueueProofs --------------------------
(***************************************************************************)
(* Proofs about RingQueue for every capacity and every set of sizes.       *)
(***************************************************************************)
EXTENDS RingQueue, SequenceTheorems, TLAPS

(***************************************************************************)
(* The inductive invariant                                                 *)
(***************************************************************************)

Wrapped == mWriteIndex < mReadIndex

\* The producer has chosen the left side but not committed there yet.
WrapPending ==
  /\ mSnapWritePos = 0
  /\ mDataEnd = mWriteIndex
  /\ ~Wrapped
  /\ mSnapWriteEnd <= mReadIndex - 1

\* Data that has wrapped ends inside the storage, behind the read index.
DataEndInv == Wrapped => mReadIndex <= mDataEnd

\* The window starts at the write index and stops short of what is in use,
\* or it is the left side of a wrap that is pending.
WindowInv ==
  /\ ppc \in {"idle", "done"} => mSnapWritePos = mWriteIndex
  /\ ppc \in {"load", "maximize"} => size > 0
  /\ ppc \in {"idle", "write", "done"} =>
       \/ /\ mSnapWritePos = mWriteIndex
          /\ Wrapped => mSnapWriteEnd <= mReadIndex - 1
       \/ ppc = "write" /\ size > 0 /\ WrapPending
  /\ ppc = "write" => mSnapWritePos + size <= mSnapWriteEnd

\* The read index the producer loaded is one the consumer has had since.
RSeenInv ==
  ppc = "maximize" =>
    IF Wrapped THEN rSeen > mWriteIndex /\ rSeen <= mReadIndex
               ELSE rSeen > mWriteIndex \/ rSeen <= mReadIndex

\* The write index the consumer loaded lies in the data still unread.
ReadEndInv ==
  cpc \in {"begin", "read"} =>
    IF Wrapped
    THEN \/ mReadIndex <= mSnapReadEnd /\ mSnapReadEnd <= mDataEnd
         \/ mSnapReadEnd <= mWriteIndex
    ELSE mReadIndex <= mSnapReadEnd /\ mSnapReadEnd <= mWriteIndex

RingInv == DataEndInv /\ WindowInv /\ RSeenInv /\ ReadEndInv
IInv == TypeOK /\ RingInv

LEMMA RingInvariant == Spec => []IInv
<1> USE RingAssumption
<1>1. Init => IInv
  <2> SUFFICES ASSUME Init PROVE IInv
    OBVIOUS
  <2>1. result \in Seq(Nat \X Nat)
    BY DEF Init, NoRange
  <2> QED
    BY <2>1 DEF Init, IInv, TypeOK, RingInv, DataEndInv, WindowInv, RSeenInv,
                ReadEndInv, Wrapped
<1>2. IInv /\ [Next]_vars => IInv'
  <2> SUFFICES ASSUME IInv, [Next]_vars PROVE IInv'
    OBVIOUS
  <2> USE DEF IInv, TypeOK, producerVars, consumerVars
  <2>1. ASSUME NEW n \in Sizes, Acquire(n) PROVE IInv'
    BY <2>1 DEF Acquire, writeCapacity, RingInv, DataEndInv, WindowInv,
                RSeenInv, ReadEndInv, Wrapped, WrapPending
  <2>2. CASE LoadReadIndex
    BY <2>2 DEF LoadReadIndex, RingInv, DataEndInv, WindowInv, RSeenInv,
                ReadEndInv, Wrapped, WrapPending
  <2>3. CASE Maximize
    <3>1. CASE Wraps
      BY <2>3, <3>1
      DEF Maximize, Wraps, dataEnd, leftSize, rightSize, RingInv, DataEndInv,
          WindowInv, RSeenInv, ReadEndInv, Wrapped, WrapPending
    <3>2. CASE ~Wraps
      BY <2>3, <3>2
      DEF Maximize, Wraps, dataEnd, leftSize, rightSize, RingInv, DataEndInv,
          WindowInv, RSeenInv, ReadEndInv, Wrapped, WrapPending
    <3> QED
      BY <3>1, <3>2
  <2>4. CASE Commit
    BY <2>4 DEF Commit, RingInv, DataEndInv, WindowInv, RSeenInv, ReadEndInv,
                Wrapped, WrapPending
  <2>5. CASE Stop
    BY <2>5 DEF Stop, RingInv, DataEndInv, WindowInv, RSeenInv, ReadEndInv,
                Wrapped, WrapPending
  <2>6. CASE LoadWriteIndex
    BY <2>6 DEF LoadWriteIndex, RingInv, DataEndInv, WindowInv, RSeenInv,
                ReadEndInv, Wrapped, WrapPending
  <2>7. CASE BeginRead
    <3>1. result' \in Seq(Nat \X Nat)
      <4>1. /\ <<mReadIndex, mSnapReadEnd>> \in Nat \X Nat
            /\ <<mReadIndex, mDataEnd>> \in Nat \X Nat
            /\ <<0, mSnapReadEnd>> \in Nat \X Nat
            /\ NoRange \in Nat \X Nat
        BY DEF NoRange
      <4>2. \A x, y \in Nat \X Nat : <<x, y>> \in Seq(Nat \X Nat)
        OBVIOUS
      <4>3. \/ result' = <<<<mReadIndex, mSnapReadEnd>>, NoRange>>
            \/ result' = <<<<mReadIndex, mDataEnd>>, <<0, mSnapReadEnd>>>>
            \/ result' = <<<<0, mSnapReadEnd>>, NoRange>>
        BY <2>7 DEF BeginRead
      <4> QED
        BY <4>1, <4>2, <4>3
    <3> QED
      BY <2>7, <3>1
      DEF BeginRead, RingInv, DataEndInv, WindowInv, RSeenInv, ReadEndInv,
          Wrapped, WrapPending
  <2>8. CASE EndRead
    BY <2>8 DEF EndRead, RingInv, DataEndInv, WindowInv, RSeenInv, ReadEndInv,
                Wrapped, WrapPending
  <2>9. CASE Finish
    BY <2>9 DEF Finish, RingInv, DataEndInv, WindowInv, RSeenInv, ReadEndInv,
                Wrapped, WrapPending
  <2>10. CASE UNCHANGED vars
    BY <2>10 DEF vars, RingInv, DataEndInv, WindowInv, RSeenInv, ReadEndInv,
                 Wrapped, WrapPending
  <2> QED
    BY <2>1, <2>2, <2>3, <2>4, <2>5, <2>6, <2>7, <2>8, <2>9, <2>10
    DEF Next, Producer, Consumer, Retry
<1> QED
  BY <1>1, <1>2, PTL DEF Spec

\* Indices stay inside the storage and the producer's window is never
\* negative, for every capacity and every set of sizes.
THEOREM TypeCorrect == Spec => []TypeOK
<1>1. IInv => TypeOK
  BY DEF IInv
<1> QED
  BY <1>1, RingInvariant, PTL

\* The block acquire() hands out is inside the storage and holds no byte the
\* consumer has still to release.
THEOREM NoOverlapCorrect == Spec => []NoOverlap
<1>1. IInv => NoOverlap
  BY RingAssumption
  DEF IInv, TypeOK, RingInv, DataEndInv, WindowInv, Wrapped, WrapPending,
      NoOverlap, Used
<1> QED
  BY <1>1, RingInvariant, PTL

\* The plain variable mDataEnd is never stored by the producer while the
\* consumer is about to load it.
THEOREM DataEndNotRacedCorrect == Spec => []DataEndNotRaced
<1>1. IInv => DataEndNotRaced
  BY DEF IInv, TypeOK, RingInv, RSeenInv, ReadEndInv, Wrapped, Wraps,
         DataEndNotRaced
<1> QED
  BY <1>1, RingInvariant, PTL

(***************************************************************************)
(* Ranges of addresses as sequences                                        *)
(***************************************************************************)

LEMMA SpanIsSeq ==
  ASSUME NEW from \in Nat, NEW to \in Nat, from <= to
  PROVE  /\ Span(from, to) \in Seq(Nat)
         /\ Len(Span(from, to)) = to - from
<1> DEFINE n == to - from
<1>1. n \in Nat
  OBVIOUS
<1>2. Span(from, to) = [i \in 1 .. n |-> from + i - 1]
  BY DEF Span
<1>3. \A i \in 1 .. n : from + i - 1 \in Nat
  BY <1>1
<1> HIDE DEF n
<1>4. Span(from, to) \in [1 .. n -> Nat]
  BY <1>2, <1>3
<1>5. Span(from, to) \in Seq(Nat)
  BY <1>1, <1>4, SeqDef
<1>6. Len(Span(from, to)) = n
  BY <1>1, <1>4, <1>5, LenProperties
<1> QED
  BY <1>5, <1>6 DEF n

LEMMA SpanElement ==
  ASSUME NEW from \in Nat, NEW to \in Nat, NEW i \in 1 .. to - from
  PROVE  Span(from, to)[i] = from + i - 1
<1>1. from < to
  OBVIOUS
<1>2. Span(from, to) = [k \in 1 .. to - from |-> from + k - 1]
  BY <1>1 DEF Span
<1> QED
  BY <1>2

LEMMA SpanEmpty ==
  ASSUME NEW from \in Nat
  PROVE  Span(from, from) = <<>>
<1>1. Span(from, from) \in Seq(Nat) /\ Len(Span(from, from)) = from - from
  BY SpanIsSeq
<1> QED
  BY <1>1, EmptySeq

LEMMA SpanJoin ==
  ASSUME NEW from \in Nat, NEW mid \in Nat, NEW to \in Nat,
         from <= mid, mid <= to
  PROVE  Span(from, mid) \o Span(mid, to) = Span(from, to)
<1> DEFINE A == Span(from, mid)
           B == Span(mid, to)
           C == Span(from, to)
<1>1. A \in Seq(Nat) /\ Len(A) = mid - from
  BY SpanIsSeq
<1>2. B \in Seq(Nat) /\ Len(B) = to - mid
  BY SpanIsSeq
<1>3. from <= to
  OBVIOUS
<1>4. C \in Seq(Nat) /\ Len(C) = to - from
  BY <1>3, SpanIsSeq
<1>5. ASSUME NEW i \in 1 .. mid - from PROVE A[i] = from + i - 1
  BY SpanElement
<1>6. ASSUME NEW i \in 1 .. to - mid PROVE B[i] = mid + i - 1
  BY SpanElement
<1>7. ASSUME NEW i \in 1 .. to - from PROVE C[i] = from + i - 1
  BY SpanElement
<1> HIDE DEF A, B, C
<1>8. /\ A \o B \in Seq(Nat)
      /\ Len(A \o B) = Len(A) + Len(B)
      /\ \A i \in 1 .. Len(A) + Len(B) :
           (A \o B)[i] = IF i <= Len(A) THEN A[i] ELSE B[i - Len(A)]
  BY <1>1, <1>2, ConcatProperties
<1>9. Len(A \o B) = Len(C)
  BY <1>1, <1>2, <1>4, <1>8
<1>10. ASSUME NEW i \in 1 .. Len(A \o B) PROVE (A \o B)[i] = C[i]
  <2>1. i \in 1 .. to - from
    BY <1>4, <1>9
  <2>2. CASE i <= mid - from
    BY <1>1, <1>2, <1>5, <1>7, <1>8, <2>1, <2>2
  <2>3. CASE ~(i <= mid - from)
    <3>1. i - (mid - from) \in 1 .. to - mid
      BY <2>1, <2>3
    <3>2. B[i - (mid - from)] = mid + (i - (mid - from)) - 1
      BY <1>6, <3>1
    <3>3. (A \o B)[i] = B[i - (mid - from)]
      BY <1>1, <1>2, <1>8, <2>3
    <3> QED
      BY <1>7, <2>1, <3>2, <3>3
  <2> QED
    BY <2>2, <2>3
<1>11. A \o B = C
  BY <1>4, <1>8, <1>9, <1>10, SeqEqual
<1> QED
  BY <1>11 DEF A, B, C

LEMMA SpanJoinRight ==
  ASSUME NEW s \in Seq(Nat), NEW from \in Nat, NEW mid \in Nat, NEW to \in Nat,
         from <= mid, mid <= to
  PROVE  /\ (s \o Span(from, mid)) \o Span(mid, to) = s \o Span(from, to)
         /\ s \o Span(from, mid) \in Seq(Nat)
<1> DEFINE A == Span(from, mid)
           B == Span(mid, to)
<1>1. A \in Seq(Nat)
  BY SpanIsSeq
<1>2. B \in Seq(Nat)
  BY SpanIsSeq
<1>3. A \o B = Span(from, to)
  BY SpanJoin
<1> HIDE DEF A, B
<1>4. (s \o A) \o B = s \o (A \o B)
  BY SMTT(20), <1>1, <1>2, ConcatAssociative
<1>5. s \o A \in Seq(Nat)
  BY <1>1, ConcatProperties
<1>6. (s \o A) \o B = s \o Span(from, to)
  BY <1>3, <1>4
<1> QED
  BY <1>5, <1>6 DEF A, B

LEMMA SpanJoinLeft ==
  ASSUME NEW s \in Seq(Nat), NEW from \in Nat, NEW mid \in Nat, NEW to \in Nat,
         from <= mid, mid <= to
  PROVE  /\ Span(from, to) \o s = Span(from, mid) \o (Span(mid, to) \o s)
         /\ Span(mid, to) \o s \in Seq(Nat)
<1> DEFINE A == Span(from, mid)
           B == Span(mid, to)
<1>1. A \in Seq(Nat)
  BY SpanIsSeq
<1>2. B \in Seq(Nat)
  BY SpanIsSeq
<1>3. A \o B = Span(from, to)
  BY SpanJoin
<1> HIDE DEF A, B
<1>4. (A \o B) \o s = A \o (B \o s)
  BY SMTT(20), <1>1, <1>2, ConcatAssociative
<1>5. B \o s \in Seq(Nat)
  BY <1>2, ConcatProperties
<1>6. Span(from, to) \o s = A \o (B \o s)
  BY <1>3, <1>4
<1> QED
  BY <1>5, <1>6 DEF A, B

(***************************************************************************)
(* The ring is a FIFO of blocks                                            *)
(***************************************************************************)

\* The order of the indices.
LEMMA IndexFacts ==
  ASSUME IInv
  PROVE  /\ mReadIndex \in Nat /\ mWriteIndex \in Nat /\ mDataEnd \in Nat
         /\ mSnapReadEnd \in Nat /\ mSnapWritePos \in Nat /\ size \in Nat
         /\ 0 \in Nat /\ 0 <= mWriteIndex /\ 0 <= mReadIndex /\ 0 <= mSnapReadEnd
         /\ Wrapped => mReadIndex <= mDataEnd
  BY RingAssumption DEF IInv, TypeOK, RingInv, DataEndInv

LEMMA ReadableIsSeq ==
  ASSUME IInv
  PROVE  Readable \in Seq(Nat)
<1> USE IndexFacts
<1>1. CASE ~Wrapped
  <2>1. mReadIndex <= mWriteIndex
    BY <1>1 DEF Wrapped
  <2> QED
    BY <2>1, SpanIsSeq DEF Readable
<1>2. CASE Wrapped
  <2>1. Span(mReadIndex, mDataEnd) \in Seq(Nat)
    BY <1>2, SpanIsSeq
  <2>2. Span(0, mWriteIndex) \in Seq(Nat)
    BY SpanIsSeq
  <2> QED
    BY <1>2, <2>1, <2>2, ConcatProperties DEF Readable, Wrapped
<1> QED
  BY <1>1, <1>2

\* Every byte of the queue is in use.
LEMMA ReadableIsUsed ==
  ASSUME IInv, NEW i \in 1 .. Len(Readable)
  PROVE  Used(Readable[i])
<1> USE IndexFacts
<1>1. CASE ~Wrapped
  <2>1. mReadIndex <= mWriteIndex
    BY <1>1 DEF Wrapped
  <2>2. Readable = Span(mReadIndex, mWriteIndex)
    BY <2>1 DEF Readable
  <2>3. Len(Readable) = mWriteIndex - mReadIndex
    BY <2>1, <2>2, SpanIsSeq
  <2>4. Readable[i] = mReadIndex + i - 1
    BY <2>2, <2>3, SpanElement
  <2> QED
    BY <2>1, <2>3, <2>4 DEF Used
<1>2. CASE Wrapped
  <2> DEFINE A == Span(mReadIndex, mDataEnd)
             B == Span(0, mWriteIndex)
  <2>1. A \in Seq(Nat) /\ Len(A) = mDataEnd - mReadIndex
    BY <1>2, SpanIsSeq
  <2>2. B \in Seq(Nat) /\ Len(B) = mWriteIndex
    <3>1. B \in Seq(Nat) /\ Len(B) = mWriteIndex - 0
      BY SpanIsSeq
    <3> QED
      BY <3>1
  <2>3. ASSUME NEW k \in 1 .. mDataEnd - mReadIndex
        PROVE  A[k] = mReadIndex + k - 1
    BY SpanElement
  <2>4. ASSUME NEW k \in 1 .. mWriteIndex PROVE B[k] = k - 1
    <3>1. k \in 1 .. mWriteIndex - 0
      OBVIOUS
    <3>2. B[k] = 0 + k - 1
      BY <3>1, SpanElement
    <3> QED
      BY <3>2
  <2>5. Readable = A \o B
    BY <1>2 DEF Readable, Wrapped
  <2> HIDE DEF A, B
  <2>6. /\ i \in 1 .. Len(A) + Len(B)
        /\ Readable[i] = IF i <= Len(A) THEN A[i] ELSE B[i - Len(A)]
    BY <2>1, <2>2, <2>5, ConcatProperties
  <2>7. CASE i <= Len(A)
    <3>1. Readable[i] = mReadIndex + i - 1 /\ i <= mDataEnd - mReadIndex
      BY <2>1, <2>3, <2>6, <2>7
    <3> QED
      BY <1>2, <3>1 DEF Used, Wrapped
  <2>8. CASE ~(i <= Len(A))
    <3>1. i - Len(A) \in 1 .. mWriteIndex
      BY SMTT(20), <2>1, <2>2, <2>6, <2>8
    <3>2. B[i - Len(A)] = i - Len(A) - 1
      BY <2>4, <3>1
    <3>3. Readable[i] = i - Len(A) - 1
      BY <2>6, <2>8, <3>2
    <3> QED
      BY SMTT(20), <1>2, <2>1, <3>1, <3>3 DEF Used, Wrapped
  <2> QED
    BY <2>7, <2>8
<1> QED
  BY <1>1, <1>2

\* Committing appends the block to the queue.
LEMMA CommitAppends ==
  ASSUME IInv, Commit
  PROVE  Readable' = Readable \o Span(mSnapWritePos, mSnapWritePos + size)
<1> USE IndexFacts
<1>0. /\ mReadIndex' = mReadIndex /\ mDataEnd' = mDataEnd
      /\ mWriteIndex' = mSnapWritePos + size
      /\ mWriteIndex + size \in Nat
  BY DEF Commit, consumerVars
<1>1. CASE ~Wrapped /\ mSnapWritePos = mWriteIndex
  <2>1. mReadIndex <= mWriteIndex /\ mWriteIndex <= mWriteIndex + size
    BY <1>1 DEF Wrapped
  <2>2. Readable = Span(mReadIndex, mWriteIndex)
    BY <2>1 DEF Readable
  <2>3. Readable' = Span(mReadIndex, mWriteIndex + size)
    BY <1>0, <1>1, <2>1 DEF Readable
  <2>4. Span(mReadIndex, mWriteIndex) \o Span(mWriteIndex, mWriteIndex + size)
          = Span(mReadIndex, mWriteIndex + size)
    BY <1>0, <2>1, SpanJoin
  <2> QED
    BY <1>1, <2>2, <2>3, <2>4
<1>2. CASE Wrapped
  <2>1. /\ mSnapWritePos = mWriteIndex
        /\ mWriteIndex + size < mReadIndex
        /\ mWriteIndex <= mWriteIndex + size
    BY <1>2 DEF IInv, TypeOK, RingInv, WindowInv, WrapPending, Wrapped, Commit
  <2>2. Readable = Span(mReadIndex, mDataEnd) \o Span(0, mWriteIndex)
    BY <1>2 DEF Readable, Wrapped
  <2>3. Readable' = Span(mReadIndex, mDataEnd) \o Span(0, mWriteIndex + size)
    BY <1>0, <2>1 DEF Readable
  <2>4. Span(mReadIndex, mDataEnd) \in Seq(Nat)
    BY <1>2, SpanIsSeq
  <2> HIDE DEF Readable
  <2> DEFINE A == Span(mReadIndex, mDataEnd)
             origin == 0
             w == mWriteIndex
             t == mWriteIndex + size
  <2>5. /\ origin \in Nat /\ w \in Nat /\ t \in Nat
        /\ origin <= w /\ w <= t /\ A \in Seq(Nat)
    BY <1>0, <2>1, <2>4
  <2> HIDE DEF A, origin, w, t
  <2>6. (A \o Span(origin, w)) \o Span(w, t) = A \o Span(origin, t)
    BY ONLY <2>5, SpanJoinRight, Zenon
  <2>7. (Span(mReadIndex, mDataEnd) \o Span(0, mWriteIndex))
            \o Span(mWriteIndex, mWriteIndex + size)
          = Span(mReadIndex, mDataEnd) \o Span(0, mWriteIndex + size)
    BY <2>6 DEF A, origin, w, t
  <2> QED
    BY <2>1, <2>2, <2>3, <2>7
<1>3. CASE ~Wrapped /\ mSnapWritePos # mWriteIndex
  <2>1. WrapPending /\ size < mReadIndex /\ mReadIndex <= mWriteIndex
    BY <1>3
    DEF IInv, TypeOK, RingInv, WindowInv, WrapPending, Wrapped, Commit
  <2>2. Readable = Span(mReadIndex, mDataEnd)
    BY <2>1 DEF WrapPending, Readable
  <2>3. Readable' = Span(mReadIndex, mDataEnd) \o Span(0, size)
    BY SMTT(20), <1>0, <2>1 DEF Readable, WrapPending
  <2> QED
    BY <2>1, <2>2, <2>3 DEF WrapPending
<1> QED
  BY <1>1, <1>2, <1>3

\* What endRead releases: the bytes up to the write index it stores.
Released ==
  IF mReadIndex <= mSnapReadEnd
  THEN Span(mReadIndex, mSnapReadEnd)
  ELSE Span(mReadIndex, mDataEnd) \o Span(0, mSnapReadEnd)

\* Releasing removes those bytes from the front of the queue.
LEMMA EndReadRemoves ==
  ASSUME IInv, EndRead
  PROVE  /\ Readable = Released \o Readable'
         /\ Released \in Seq(Nat) /\ Readable' \in Seq(Nat)
<1> USE IndexFacts
<1>0. /\ mReadIndex' = mSnapReadEnd /\ mDataEnd' = mDataEnd
      /\ mWriteIndex' = mWriteIndex
  BY DEF EndRead, producerVars
<1>1. CASE ~Wrapped
  <2>1. mReadIndex <= mSnapReadEnd /\ mSnapReadEnd <= mWriteIndex
    BY <1>1 DEF IInv, TypeOK, RingInv, ReadEndInv, EndRead
  <2>2. /\ Readable = Span(mReadIndex, mWriteIndex)
        /\ Readable' = Span(mSnapReadEnd, mWriteIndex)
        /\ Released = Span(mReadIndex, mSnapReadEnd)
    BY <1>0, <2>1 DEF Readable, Released
  <2>3. Span(mSnapReadEnd, mWriteIndex) \in Seq(Nat)
    BY <2>1, SpanIsSeq
  <2>4. Span(mReadIndex, mSnapReadEnd) \in Seq(Nat)
    BY <2>1, SpanIsSeq
  <2>5. Span(mReadIndex, mSnapReadEnd) \o Span(mSnapReadEnd, mWriteIndex)
          = Span(mReadIndex, mWriteIndex)
    BY <2>1, SpanJoin
  <2> QED
    BY <2>2, <2>3, <2>4, <2>5
<1>2. CASE Wrapped /\ mReadIndex <= mSnapReadEnd
  <2>1. mSnapReadEnd <= mDataEnd /\ mWriteIndex < mSnapReadEnd
    BY <1>2 DEF IInv, TypeOK, RingInv, ReadEndInv, EndRead, Wrapped
  <2>2. /\ Readable = Span(mReadIndex, mDataEnd) \o Span(0, mWriteIndex)
        /\ Readable' = Span(mSnapReadEnd, mDataEnd) \o Span(0, mWriteIndex)
        /\ Released = Span(mReadIndex, mSnapReadEnd)
    BY <1>0, <1>2, <2>1 DEF Readable, Released, Wrapped
  <2>3. Span(0, mWriteIndex) \in Seq(Nat)
    BY SpanIsSeq
  <2>4. Span(mReadIndex, mSnapReadEnd) \in Seq(Nat)
    BY <1>2, SpanIsSeq
  <2>5. /\ Span(mReadIndex, mDataEnd) \o Span(0, mWriteIndex)
             = Span(mReadIndex, mSnapReadEnd)
                 \o (Span(mSnapReadEnd, mDataEnd) \o Span(0, mWriteIndex))
        /\ Span(mSnapReadEnd, mDataEnd) \o Span(0, mWriteIndex) \in Seq(Nat)
    BY <1>2, <2>1, <2>3, SpanJoinLeft
  <2> QED
    BY <2>2, <2>4, <2>5
<1>3. CASE Wrapped /\ ~(mReadIndex <= mSnapReadEnd)
  <2>1. mSnapReadEnd <= mWriteIndex
    BY <1>3 DEF IInv, TypeOK, RingInv, ReadEndInv, EndRead
  <2>2. /\ Readable = Span(mReadIndex, mDataEnd) \o Span(0, mWriteIndex)
        /\ Readable' = Span(mSnapReadEnd, mWriteIndex)
        /\ Released = Span(mReadIndex, mDataEnd) \o Span(0, mSnapReadEnd)
    BY <1>0, <1>3, <2>1 DEF Readable, Released, Wrapped
  <2>3. Span(mReadIndex, mDataEnd) \in Seq(Nat)
    BY <1>3, SpanIsSeq
  <2>4. Span(mSnapReadEnd, mWriteIndex) \in Seq(Nat)
    BY <2>1, SpanIsSeq
  <2>5. /\ (Span(mReadIndex, mDataEnd) \o Span(0, mSnapReadEnd))
             \o Span(mSnapReadEnd, mWriteIndex)
           = Span(mReadIndex, mDataEnd) \o Span(0, mWriteIndex)
        /\ Span(mReadIndex, mDataEnd) \o Span(0, mSnapReadEnd) \in Seq(Nat)
    BY <2>1, <2>3, SpanJoinRight
  <2> QED
    BY <2>2, <2>4, <2>5
<1> QED
  BY <1>1, <1>2, <1>3

\* The end of the data does not move while the data wraps.
LEMMA DataEndStable ==
  ASSUME IInv, Maximize, Wrapped
  PROVE  mDataEnd' = mDataEnd
<1>1. ~Wraps
  BY DEF Maximize, Wraps, IInv, TypeOK, RingInv, RSeenInv, Wrapped
<1> QED
  BY <1>1 DEF Maximize

\* The queue changes only when a block is committed or released.
LEMMA OthersKeepReadable ==
  ASSUME IInv, [Next]_vars, ~Commit, ~EndRead
  PROVE  Readable' = Readable
<1>1. CASE Maximize
  <2>1. mReadIndex' = mReadIndex /\ mWriteIndex' = mWriteIndex
    BY <1>1 DEF Maximize, consumerVars
  <2>2. CASE Wrapped
    BY <2>1, <2>2, <1>1, DataEndStable DEF Readable
  <2>3. CASE ~Wrapped
    BY <2>1, <2>3, IndexFacts DEF Readable, Wrapped
  <2> QED
    BY <2>2, <2>3
<1>2. CASE ~Maximize
  <2>1. /\ mReadIndex' = mReadIndex /\ mWriteIndex' = mWriteIndex
        /\ mDataEnd' = mDataEnd
    BY <1>2 DEF Next, vars, producerVars, consumerVars, Producer, Consumer,
                Retry, Acquire, LoadReadIndex, Stop, LoadWriteIndex, BeginRead,
                Finish
  <2> QED
    BY <2>1 DEF Readable
<1> QED
  BY <1>1, <1>2

(***************************************************************************)
(* What beginRead returned stays what endRead releases                     *)
(***************************************************************************)

ResultInv ==
  cpc = "read" =>
    result = IF mReadIndex <= mSnapReadEnd
             THEN <<<<mReadIndex, mSnapReadEnd>>, NoRange>>
             ELSE IF mReadIndex < mDataEnd
             THEN <<<<mReadIndex, mDataEnd>>, <<0, mSnapReadEnd>>>>
             ELSE <<<<0, mSnapReadEnd>>, NoRange>>

LEMMA ResultStep ==
  ASSUME IInv, ResultInv, [Next]_vars
  PROVE  ResultInv'
<1>1. CASE Maximize
  <2>1. UNCHANGED <<mReadIndex, cpc, mSnapReadEnd, result>>
    BY <1>1 DEF Maximize, consumerVars
  <2>2. CASE Wrapped
    BY <1>1, <2>1, <2>2, DataEndStable DEF ResultInv
  <2>3. CASE ~Wrapped
    <3>1. cpc = "read" => mReadIndex <= mSnapReadEnd
      BY <2>3 DEF IInv, RingInv, ReadEndInv
    <3> QED
      BY <2>1, <3>1 DEF ResultInv
  <2> QED
    BY <2>2, <2>3
<1>2. CASE BeginRead
  <2>1. /\ UNCHANGED <<mReadIndex, mSnapReadEnd, mDataEnd>>
        /\ result' =
             CASE mReadIndex <= mSnapReadEnd ->
                    <<<<mReadIndex, mSnapReadEnd>>, NoRange>>
               [] ReadsRight ->
                    <<<<mReadIndex, mDataEnd>>, <<0, mSnapReadEnd>>>>
               [] OTHER -> <<<<0, mSnapReadEnd>>, NoRange>>
    BY <1>2 DEF BeginRead, producerVars
  <2>2. ~(mReadIndex <= mSnapReadEnd) <=> mReadIndex > mSnapReadEnd
    BY IndexFacts
  <2>3. CASE mReadIndex <= mSnapReadEnd
    BY <2>1, <2>2, <2>3 DEF ReadsRight, ResultInv
  <2>4. CASE ReadsRight
    BY <2>1, <2>2, <2>4 DEF ReadsRight, ResultInv
  <2>5. CASE ~(mReadIndex <= mSnapReadEnd) /\ ~ReadsRight
    BY <2>1, <2>2, <2>5 DEF ReadsRight, ResultInv
  <2> QED
    BY <2>3, <2>4, <2>5
<1>3. CASE ~Maximize /\ ~BeginRead
  <2>1. \/ cpc' # "read"
        \/ UNCHANGED <<mReadIndex, mDataEnd, cpc, mSnapReadEnd, result>>
    BY <1>3 DEF Next, vars, producerVars, consumerVars, Producer, Consumer,
                Retry, Acquire, LoadReadIndex, Commit, Stop, LoadWriteIndex,
                EndRead, Finish
  <2> QED
    BY <2>1 DEF ResultInv
<1> QED
  BY <1>1, <1>2, <1>3

LEMMA ResultInvariant == Spec => [](IInv /\ ResultInv)
<1>1. Init => ResultInv
  BY DEF Init, ResultInv
<1>2. IInv /\ ResultInv /\ [Next]_vars => ResultInv'
  BY ResultStep
<1> QED
  BY <1>1, <1>2, RingInvariant, PTL DEF Spec

LEMMA ReadNowIsReleased ==
  ASSUME IInv, ResultInv, cpc = "read"
  PROVE  ReadNow = Released
<1> USE IndexFacts
<1>1. Span(0, 0) = <<>>
  BY SpanEmpty
<1>2. CASE mReadIndex <= mSnapReadEnd
  <2>1. result[1] = <<mReadIndex, mSnapReadEnd>> /\ result[2] = <<0, 0>>
    BY <1>2 DEF ResultInv, NoRange
  <2>2. ReadNow = Span(mReadIndex, mSnapReadEnd) \o Span(0, 0)
    BY <2>1 DEF ReadNow
  <2>3. Span(mReadIndex, mSnapReadEnd) \in Seq(Nat)
    BY <1>2, SpanIsSeq
  <2> QED
    BY <1>1, <1>2, <2>2, <2>3, ConcatEmptySeq DEF Released
<1>3. CASE ~(mReadIndex <= mSnapReadEnd) /\ mReadIndex < mDataEnd
  <2>1. result[1] = <<mReadIndex, mDataEnd>> /\ result[2] = <<0, mSnapReadEnd>>
    BY <1>3 DEF ResultInv
  <2> QED
    BY <1>3, <2>1 DEF ReadNow, Released
<1>4. CASE ~(mReadIndex <= mSnapReadEnd) /\ ~(mReadIndex < mDataEnd)
  <2>1. result[1] = <<0, mSnapReadEnd>> /\ result[2] = <<0, 0>>
    BY <1>4 DEF ResultInv, NoRange
  <2>2. mDataEnd = mReadIndex
    BY <1>4 DEF IInv, TypeOK, RingInv, ReadEndInv
  <2>3. Span(mReadIndex, mDataEnd) = <<>>
    BY <2>2, SpanEmpty
  <2>4. Span(0, mSnapReadEnd) \in Seq(Nat)
    BY SpanIsSeq
  <2>5. ReadNow = Span(0, mSnapReadEnd) \o <<>>
    <3>1. /\ result[1][1] = 0 /\ result[1][2] = mSnapReadEnd
          /\ result[2][1] = 0 /\ result[2][2] = 0
      BY <2>1
    <3> QED
      BY ONLY <1>1, <3>1, Zenon DEF ReadNow
  <2>6. Released = <<>> \o Span(0, mSnapReadEnd)
    BY <1>4, <2>3 DEF Released
  <2> QED
    BY <2>4, <2>5, <2>6, ConcatEmptySeq
<1> QED
  BY <1>2, <1>3, <1>4

\* endRead releases exactly the bytes beginRead returned, in order, whatever
\* the producer has done in between.
THEOREM ReleasesWhatItReadCorrect == Spec => ReleasesWhatItRead
<1>1. ASSUME IInv, ResultInv, [Next]_vars, mReadIndex' # mReadIndex
      PROVE  Readable = ReadNow \o Readable'
  <2>1. EndRead
    BY <1>1 DEF Next, vars, producerVars, consumerVars, Producer, Consumer,
                Retry, Acquire, LoadReadIndex, Maximize, Commit, Stop,
                LoadWriteIndex, BeginRead, Finish
  <2>2. ReadNow = Released
    BY <1>1, <2>1, ReadNowIsReleased DEF EndRead
  <2> QED
    BY <1>1, <2>1, <2>2, EndReadRemoves
<1> QED
  BY <1>1, ResultInvariant, PTL DEF Spec, ReleasesWhatItRead

(***************************************************************************)
(* Refinement                                                              *)
(***************************************************************************)

\* Dropping a prefix of a sequence.
LEMMA DropPrefix ==
  ASSUME NEW s \in Seq(Nat), NEW t \in Seq(Nat)
  PROVE  /\ SubSeq(s \o t, Len(s) + 1, Len(s \o t)) = t
         /\ Len(s) \in 0 .. Len(s \o t)
<1> DEFINE c == s \o t
           u == SubSeq(c, Len(s) + 1, Len(c))
<1>1. /\ c \in Seq(Nat) /\ Len(c) = Len(s) + Len(t)
      /\ \A i \in 1 .. Len(s) + Len(t) :
           c[i] = IF i <= Len(s) THEN s[i] ELSE t[i - Len(s)]
  BY ConcatProperties
<1>2. Len(s) \in Nat /\ Len(t) \in Nat
  BY LenProperties
<1> HIDE DEF c
<1>3. \A i \in Len(s) + 1 .. Len(c) : c[i] \in Nat
  BY SMTT(20), <1>1, <1>2, ElementOfSeq
<1>4. /\ u \in Seq(Nat)
      /\ Len(u) = IF Len(s) + 1 <= Len(c) THEN Len(c) - (Len(s) + 1) + 1 ELSE 0
      /\ \A i \in 1 .. Len(c) - (Len(s) + 1) + 1 : u[i] = c[Len(s) + 1 + i - 1]
  BY <1>1, <1>2, <1>3, SubSeqProperties
<1> HIDE DEF u
<1>5. Len(u) = Len(t)
  BY <1>1, <1>2, <1>4
<1>6. ASSUME NEW i \in 1 .. Len(u) PROVE u[i] = t[i]
  <2>1. i \in 1 .. Len(t) /\ Len(s) + i \in 1 .. Len(s) + Len(t)
    BY <1>2, <1>5
  <2>2. u[i] = c[Len(s) + 1 + i - 1]
    BY <1>1, <1>2, <1>4, <2>1
  <2>3. Len(s) + 1 + i - 1 = Len(s) + i /\ (Len(s) + i) - Len(s) = i
    BY <1>2, <2>1
  <2>4. c[Len(s) + i] = t[(Len(s) + i) - Len(s)]
    <3> DEFINE k == Len(s) + i
    <3>1. k \in 1 .. Len(s) + Len(t) /\ ~(k <= Len(s))
      BY <1>2, <2>1
    <3> HIDE DEF k
    <3>2. c[k] = t[k - Len(s)]
      BY <1>1, <3>1
    <3> QED
      BY <3>2 DEF k
  <2> QED
    BY <2>2, <2>3, <2>4
<1>7. u = t
  BY <1>4, <1>5, <1>6, SeqEqual
<1> QED
  BY <1>1, <1>2, <1>7 DEF u, c

\* The ring implements the FIFO of blocks: every commit appends one block of
\* free addresses and every endRead takes from the front.
THEOREM IsFifoCorrect == Spec => IsFifo
<1>1. Init => Fifo!Init
  <2>1. Init => Readable = Span(0, 0)
    BY DEF Init, Readable
  <2>2. Span(0, 0) = <<>>
    BY SpanEmpty
  <2> QED
    BY <2>1, <2>2 DEF Fifo!Init
<1>2. ASSUME IInv, [Next]_vars PROVE [Fifo!Next]_Readable
  <2>1. CASE Commit
    <3> DEFINE from == mSnapWritePos
               to == mSnapWritePos + size
    <3>1. from \in 0 .. Capacity /\ to \in from .. Capacity
      BY <1>2, <2>1, RingAssumption
      DEF IInv, TypeOK, RingInv, WindowInv, Commit
    <3>2. ASSUME NEW a \in from .. to - 1 PROVE a \notin Fifo!InUse
      <4>1. ~Used(a)
        BY <1>2, <2>1, RingAssumption
        DEF IInv, TypeOK, RingInv, DataEndInv, WindowInv, Wrapped, WrapPending,
            Used, Commit
      <4>2. \A i \in 1 .. Len(Readable) : Used(Readable[i])
        BY <1>2, ReadableIsUsed
      <4> QED
        BY <4>1, <4>2 DEF Fifo!InUse
    <3>3. Readable' = Readable \o Fifo!Span(from, to)
      BY <1>2, <2>1, CommitAppends DEF Fifo!Span, Span
    <3> HIDE DEF from, to
    <3>4. Fifo!Put
      BY <3>1, <3>2, <3>3 DEF Fifo!Put
    <3> QED
      BY <3>4 DEF Fifo!Next
  <2>2. CASE EndRead
    <3>1. /\ Readable = Released \o Readable'
          /\ Released \in Seq(Nat) /\ Readable' \in Seq(Nat)
      BY <1>2, <2>2, EndReadRemoves
    <3> DEFINE n == Len(Released)
               q == Readable'
    <3>2. /\ SubSeq(Released \o q, n + 1, Len(Released \o q)) = q
          /\ n \in 0 .. Len(Released \o q)
      BY <3>1, DropPrefix
    <3>3. Readable' = SubSeq(Readable, n + 1, Len(Readable)) /\ n \in 0 .. Len(Readable)
      BY <3>1, <3>2
    <3> HIDE DEF n, q
    <3>4. Fifo!Take
      BY <3>3 DEF Fifo!Take
    <3> QED
      BY <3>4 DEF Fifo!Next
  <2>3. CASE ~Commit /\ ~EndRead
    BY <1>2, <2>3, OthersKeepReadable
  <2> QED
    BY <2>1, <2>2, <2>3
<1> QED
  BY <1>1, <1>2, RingInvariant, PTL DEF Spec, IsFifo, Fifo!Spec
=============================================================================
