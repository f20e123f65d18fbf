----------------------------- MODULE Allocators -----------------------------
(***************************************************************************)
(* Three allocators of memory.  Of MemoryRingBuffer2.hpp: a bitmap with a  *)
(* bit for every slice, set while the slice is in use; its words are the   *)
(* bits they hold.  Every thread has one of its own                        *)
(* (ConcurrentMemoryRingBuffer2.cpp), so there is one caller.  Of          *)
(* MemoryAllocator/MemoryRingBuffer.cpp: for small and for big objects an  *)
(* area of slots of its own, and a stack of those that are free.  Of       *)
(* OrderPool.H: the objects from FreeSlots[mSize] on are free.             *)
(***************************************************************************)
EXTENDS Integers, FiniteSets, Sequences, FiniteSetsExt

CONSTANTS
  Word,       \* BITS_PER_LONG
  Words,      \* BITMAP_CNT
  Wanted,     \* the numbers of slices that SIZE may round up to
  Elements,   \* MAX_ELEMENTS_CNT, of each order
  Bytes,      \* size of a slot of each order: 1 << orderLevel(order)
  Capacity    \* of the order pool

VARIABLES
  mFreeBitMap,  \* the bits that are set
  held,         \* <<slot, slices>> of what the users have not released
  mFreeSlots,   \* of each order; the last of the sequence is the top
  taken,        \* the addresses the users have, relative to mOrderArray[order]
  FreeSlots,    \* the order pool's objects by their number in mData
  mSize,
  out           \* the objects the users have

bitmapVars == <<mFreeBitMap, held>>
stackVars == <<mFreeSlots, taken>>
poolVars == <<FreeSlots, mSize, out>>

-----------------------------------------------------------------------------
(* The bitmap *)

Slices == Word * Words   \* FIXED_SLICE_CNT
Bits == 0 .. Slices - 1

BitmapInit == mFreeBitMap = {} /\ held = {}

InWord(i) == i * Word .. (i + 1) * Word - 1
FreeIn(i) == InWord(i) \ mFreeBitMap

\* Find(): the first word with a zero bit, and its first one (ffzll); bits
\* are counted from one, and 0 is "none".
FindOne ==
  LET some == {i \in 0 .. Words - 1 : FreeIn(i) # {}}
  IN  IF some = {} THEN 0 ELSE Min(FreeIn(Min(some))) + 1

\* currentRet of Find<SLICES>() after each bit
RunLength ==
  LET run[bit \in Bits] ==
        IF bit \in mFreeBitMap THEN 0
        ELSE IF bit = 0 THEN 1 ELSE run[bit - 1] + 1
  IN  run

\* tzcnt(mFreeBitMap[0])
Trailing == IF FreeIn(0) = InWord(0) THEN Word ELSE Min(InWord(0) \intersect mFreeBitMap)

FindMany(slices) ==
  LET enough == {bit \in Bits : RunLength[bit] = slices}
  IN  IF Trailing >= slices THEN 1
      ELSE IF enough = {} THEN 0 ELSE Min(enough) + 2 - slices

Find(slices) == IF slices = 1 THEN FindOne ELSE FindMany(slices)

\* Fault: the word in which the bits end is taken for a whole one.
WholeWords_OneMore(nr, bits) ==
  UNION {InWord(i) : i \in nr \div Word + 1 .. (nr + bits) \div Word}
WholeWords(nr, bits) ==
  UNION {InWord(i) : i \in nr \div Word + 1 .. (nr + bits) \div Word - 1}

\* The bits BitmapOP(nr, bits) sets or clears: the odd ones on the left, whole
\* words, and the odd ones on the right.
BitmapOP(nr, bits) ==
  LET endBit == nr + bits
      leftEndBit == (nr \div Word + 1) * Word
      last == endBit \div Word
      left == nr .. Min({endBit, leftEndBit}) - 1
      right == last * Word .. last * Word + (endBit % Word) - 1
  IN  IF endBit <= leftEndBit THEN left
      ELSE left \union WholeWords(nr, bits) \union right

\* acquire<SIZE>(); a result of 0 is a nullptr and changes nothing.  The
\* pointer is mStorage + SLICE_SIZE * slot: the block is slot and those after.
BitmapAcquire(slices) ==
  LET slot == Find(slices)
  IN  /\ slot # 0
      /\ mFreeBitMap' = mFreeBitMap \union BitmapOP(slot - 1, slices)
      /\ held' = held \union {<<slot, slices>>}

\* release<SIZE>(ptr) of a pointer that acquire<SIZE>() has returned
BitmapRelease(slot, slices) ==
  /\ mFreeBitMap' = mFreeBitMap \ BitmapOP(slot - 1, slices)
  /\ held' = held \ {<<slot, slices>>}

\* The two that look at the words and change nothing; size() counts the slices
\* that are free.
empty == \A i \in 0 .. Words - 1 : FreeIn(i) = {}
size == MapThenSumSet(LAMBDA i : Cardinality(FreeIn(i)), 0 .. Words - 1)

BitmapNext ==
  \/ \E slices \in Wanted : BitmapAcquire(slices)
  \/ \E h \in held : BitmapRelease(h[1], h[2])

BitmapSpec == BitmapInit /\ [][BitmapNext]_bitmapVars

-----------------------------------------------------------------------------
(* The stacks of slots *)

Orders == 0 .. 1

StackInit ==
  /\ mFreeSlots = [o \in Orders |-> [i \in 1 .. Elements |-> Elements - i]]
  /\ taken = [o \in Orders |-> {}]

\* CVT2ADDR and its inverse in release(), an unsigned short
ToAddr(o, slot) == slot * Bytes[o]
ToSlot(o, ptr) == (ptr \div Bytes[o]) % 65536

StackAcquire(o) ==
  LET top == Len(mFreeSlots[o])
  IN  /\ top # 0
      /\ taken' = [taken EXCEPT ![o] = @ \union {ToAddr(o, mFreeSlots[o][top])}]
      /\ mFreeSlots' = [mFreeSlots EXCEPT ![o] = SubSeq(@, 1, top - 1)]

\* Users release what they have, with the type they acquired it with.
StackRelease(o, ptr) ==
  /\ mFreeSlots' = [mFreeSlots EXCEPT ![o] = Append(@, ToSlot(o, ptr))]
  /\ taken' = [taken EXCEPT ![o] = @ \ {ptr}]

StackNext ==
  \E o \in Orders : StackAcquire(o) \/ \E ptr \in taken[o] : StackRelease(o, ptr)

StackSpec == StackInit /\ [][StackNext]_stackVars

-----------------------------------------------------------------------------
(* The pool of orders *)

Objects == 0 .. Capacity - 1

PoolInit == FreeSlots = [i \in Objects |-> i] /\ mSize = 0 /\ out = {}

full == mSize = Capacity

\* A full pool returns nullptr and changes nothing.
allocate ==
  /\ ~full
  /\ out' = out \union {FreeSlots[mSize]}
  /\ mSize' = mSize + 1
  /\ UNCHANGED FreeSlots

Returned == mSize - 1

\* Users give back only what they have.
deallocate(ptr) ==
  /\ mSize' = mSize - 1
  /\ FreeSlots' = [FreeSlots EXCEPT ![Returned] = ptr]
  /\ out' = out \ {ptr}

PoolNext == allocate \/ \E ptr \in out : deallocate(ptr)

PoolSpec == PoolInit /\ [][PoolNext]_poolVars

-----------------------------------------------------------------------------
(* Properties *)

Block(h) == h[1] .. h[1] + h[2] - 1

\* The bitmap says what the users hold, through every mix of sizes and every
\* way a block may lie across words: no slice leaks and none is free too early.
BitsAreHeld ==
  mFreeBitMap = {slice - 1 : slice \in UNION {Block(h) : h \in held}}

\* An acquire fails only when no run of that length is free, and takes the
\* lowest one: the shortcut over the first word changes nothing.  One slice
\* can be had unless empty() says there is none, and size() counts those that
\* nobody holds.
FindsFirstFit ==
  /\ empty <=> FindOne = 0
  /\ size = Slices - MapThenSumSet(LAMBDA h : h[2], held)
  /\ \A slices \in Wanted :
       LET fits == {nr \in 0 .. Slices - slices :
                      nr .. nr + slices - 1 \subseteq Bits \ mFreeBitMap}
       IN  Find(slices) = IF fits = {} THEN 0 ELSE Min(fits) + 1

\* The allocator is a pool of the slices 1 .. Slices; the last of them lies
\* behind the end of the storage, and slice 0 is never handed out.
SlicePool == INSTANCE Pool WITH Units <- 1 .. Slices,
                                live <- {Block(h) : h \in held}
BitmapIsPool == SlicePool!Spec
\* Each order is a pool of the bytes of its area: no two objects overlap, in
\* whatever order slots come back, none reaches out of the area, and every
\* slot popped or pushed is an object more or less.
Small == INSTANCE Pool
  WITH Units <- 0 .. Elements * Bytes[0] - 1,
       live <- {ptr .. ptr + Bytes[0] - 1 : ptr \in taken[0]}
Big == INSTANCE Pool
  WITH Units <- 0 .. Elements * Bytes[1] - 1,
       live <- {ptr .. ptr + Bytes[1] - 1 : ptr \in taken[1]}
StacksArePools ==
  /\ Small!Spec /\ Big!Spec
  /\ [][mFreeSlots' # mFreeSlots => taken' # taken]_stackVars

\* The order pool is a pool: an object is handed out to one user at a time, and
\* every call that moves mSize hands out or takes back one.
ObjectPool == INSTANCE Pool WITH Units <- Objects, live <- {{ptr} : ptr \in out}
OrdersArePool == ObjectPool!Spec /\ [][mSize' # mSize => out' # out]_poolVars
=============================================================================
