-------------------------- MODULE ScullPipeProofs --------------------------
(***************************************************************************)
(* Proofs about ScullPipe for any files, buffer sizes and byte counts.     *)
(***************************************************************************)
EXTENDS ScullPipe, FiniteSetTheorems, SequenceTheorems, WellFoundedInduction,
        TLAPS

(***************************************************************************)
(* The inductive invariant                                                 *)
(***************************************************************************)

\* Where a file is during each call, and what it may call.
CallsOK ==
  \A f \in Files :
    /\ at[f] \in {"closed", "user"} <=> call[f] = "none"
    /\ call[f] \in {"open", "release"} => at[f] = "down"
    /\ call[f] = "poll" => at[f] \in {"down", "asleep"}
    /\ call[f] = "read" => f \in Readers /\ at[f] # "finish"
    /\ call[f] = "write" => f \in Writers
    /\ sem = f => at[f] = "down"
    /\ at[f] = "test" => seen[f][1] \in {"rp", "wp"}

KindsOK ==
  /\ scull_p_buffer \in BufSizes
  /\ buffer \in BufSizes \cup {0} /\ buffersize \in BufSizes \cup {0}
  /\ async_queue \subseteq AsyncFiles
  /\ sem \in Files \cup {Free}
  /\ inq \subseteq Files /\ outq \subseteq Files
  /\ call \in [Files -> Calls] /\ at \in [Files -> Places]

\* The counters are those of the open files, and the buffer is theirs.
OpenReaders == {f \in Readers : IsOpen(f)}
OpenWriters == {f \in Writers : IsOpen(f)}

CountInv ==
  /\ nreaders = Cardinality(OpenReaders)
  /\ nwriters = Cardinality(OpenWriters)
  /\ buffer # 0 <=> \E f \in Files : IsOpen(f)

\* Both pointers are inside the ring; it is what has been allocated unless
\* scull_p_buffer has changed since.
RingInv ==
  /\ rp \in 0 .. MaxOf(BufSizes) /\ wp \in 0 .. MaxOf(BufSizes)
  /\ seen \in [Files -> {"none", "rp", "wp"} \X (0 .. MaxOf(BufSizes))]
  /\ buffer # 0 => buffersize \in BufSizes /\ rp < buffersize /\ wp < buffersize
  /\ buffer # 0 /\ ~resized => buffersize = buffer /\ scull_p_buffer = buffer
  /\ resized \in BOOLEAN /\ missed \subseteq outq

\* A reader about to sleep, nobody being about to wake it, has loaded what is
\* still true of an empty ring; and so has a writer of a full one that no open
\* has emptied.
ReaderTests(f) ==
  IF seen[f][1] = "rp" THEN seen[f][2] = wp => rp = wp ELSE seen[f][2] = wp \/ rp = wp
WriterTests(f) ==
  IF seen[f][1] = "wp" THEN spacefree(rp, seen[f][2]) = 0 => spacefree(rp, wp) = 0
                       ELSE seen[f][2] = rp

WakeInv ==
  /\ NoLostWakeup
  /\ \A f \in Files : at[f] = "test" =>
       /\ call[f] = "read" /\ f \in inq => WakePending("write") \/ ReaderTests(f)
       /\ call[f] = "write" /\ f \in outq \ missed
            => WakePending("read") \/ WriterTests(f)

(***************************************************************************)
(* Extrema and remainders                                                  *)
(***************************************************************************)

\* A finite set of integers has a largest element: no smallest set of the
\* form "the elements from x on" has a second element.
LEMMA FiniteHasMax ==
  ASSUME NEW S, S \subseteq Int, IsFiniteSet(S), S # {}
  PROVE  \E x \in S : \A y \in S : y <= x
<1> DEFINE from(x) == {y \in S : x <= y}
           R == StrictSubsetOrdering(S)
           T == {from(x) : x \in S}
<1>1. IsWellFoundedOn(R, FiniteSubsetsOf(S))
  BY FS_StrictSubsetOrderingWellFounded
<1>2. T \subseteq FiniteSubsetsOf(S)
  BY FS_FiniteSubsetsOfFinite
<1>3. PICK U \in T : \A V \in T : ~ (<<V, U>> \in R)
  <2> HIDE DEF R, from
  <2>1. T # {}
    OBVIOUS
  <2> HIDE DEF T
  <2> QED
    BY <1>1, <1>2, <2>1, WFMin
<1>4. PICK x \in S : U = from(x)
  OBVIOUS
<1>5. ASSUME NEW y \in S, ~(y <= x) PROVE FALSE
  <2>1. from(y) \in T
    OBVIOUS
  <2>2. from(y) \subseteq from(x) /\ x \in from(x) /\ x \notin from(y)
    <3>1. x \in Int /\ y \in Int /\ \A z \in S : z \in Int
      OBVIOUS
    <3>2. \A z \in S : y <= z => x <= z
      BY <1>5, <3>1
    <3>3. from(y) \subseteq from(x)
      BY <3>2
    <3>4. x \in from(x)
      BY <3>1
    <3>5. x \notin from(y)
      BY <1>5
    <3> QED
      BY <3>3, <3>4, <3>5
  <2>3. <<from(y), U>> \in R
    BY <1>4, <2>2 DEF StrictSubsetOrdering
  <2> QED
    BY <1>3, <2>1, <2>3
<1> QED
  BY <1>5

LEMMA MaxOfSizes ==
  /\ MaxOf(BufSizes) \in BufSizes
  /\ \A n \in BufSizes : n \in Nat /\ n >= 2 /\ n <= MaxOf(BufSizes)
<1>1. BufSizes \subseteq Int /\ IsFiniteSet(BufSizes) /\ BufSizes # {}
  BY PipeAssumption
<1>2. PICK x \in BufSizes : \A y \in BufSizes : y <= x
  BY <1>1, FiniteHasMax
<1>3. /\ MaxOf(BufSizes) \in BufSizes
      /\ \A y \in BufSizes : y <= MaxOf(BufSizes)
  BY <1>2 DEF MaxOf
<1> QED
  BY <1>3, PipeAssumption

LEMMA MinOfTwo ==
  ASSUME NEW a \in Int, NEW b \in Int
  PROVE  MinOf({a, b}) = IF a <= b THEN a ELSE b
<1>1. \E x \in {a, b} : \A y \in {a, b} : x <= y
  OBVIOUS
<1>2. /\ MinOf({a, b}) \in {a, b}
      /\ MinOf({a, b}) <= a /\ MinOf({a, b}) <= b
  BY <1>1 DEF MinOf
<1> QED
  BY <1>2

LEMMA SmallRemainder ==
  ASSUME NEW a \in Nat, NEW b \in Nat, b > 0, a < 2 * b
  PROVE  a % b = IF a < b THEN a ELSE a - b
  OBVIOUS

\* The space in the ring, without remainders.
LEMMA SpaceFree ==
  ASSUME buffersize \in Nat, NEW r \in Nat, NEW w \in Nat,
         r < buffersize, w < buffersize
  PROVE  spacefree(r, w) = IF r <= w THEN buffersize - 1 - (w - r)
                                     ELSE r - w - 1
<1>1. PICK a : a = r + buffersize - w
  OBVIOUS
<1>2. a \in Nat /\ buffersize > 0 /\ a < 2 * buffersize
  BY <1>1
<1>3. a % buffersize = IF a < buffersize THEN a ELSE a - buffersize
  BY <1>2, SmallRemainder
<1>4. spacefree(r, w) = IF r = w THEN buffersize - 1 ELSE (a % buffersize) - 1
  BY <1>1, <1>2 DEF spacefree, Rem
<1> QED
  BY <1>1, <1>2, <1>3, <1>4

(***************************************************************************)
(* One file moves at a time                                                *)
(***************************************************************************)

CallStep(f) ==
  \E c \in {"open", "read", "write", "poll", "release"} : Call(f, c)
WokeStep(f) == \E signalled \in BOOLEAN : Woke(f, signalled)
FinishStep(f) == \E signalled \in BOOLEAN : FinishWait(f, signalled)

\* The steps outside a section.
OuterStep(f) ==
  \/ CallStep(f) \/ Fasync(f) \/ Down(f) \/ Interrupted(f) \/ Wake(f)
  \/ Wait(f) \/ Peek(f) \/ Test(f) \/ WokeStep(f) \/ FinishStep(f)
FileStep(f) == OuterStep(f) \/ Section(f)

LEMMA NextIsStep ==
  Next => (\E f \in Files : FileStep(f)) \/ (\E n \in BufSizes : Resize(n))
BY DEF Next, Step, FileStep, OuterStep, CallStep, WokeStep, FinishStep

LEMMA OnlyOneMoves ==
  ASSUME KindsOK, RingInv, NEW f \in Files, FileStep(f), NEW g \in Files, g # f
  PROVE  /\ at'[g] = at[g] /\ call'[g] = call[g] /\ seen'[g] = seen[g]
         /\ sem' = g => sem = g
<1> USE DEF KindsOK, RingInv, Go, Back, Inside, fileVars
<1>1. CASE CallStep(f) \/ Fasync(f) \/ Down(f) \/ Interrupted(f) \/ Wake(f)
  BY <1>1, PipeAssumption DEF CallStep, Call, Fasync, Down, Interrupted, Wake
<1>2. CASE Wait(f) \/ Peek(f) \/ WokeStep(f) \/ FinishStep(f)
  BY <1>2, PipeAssumption DEF Wait, Peek, WokeStep, Woke, FinishStep, FinishWait
<1>3. CASE Test(f)
  BY <1>3, PipeAssumption DEF Test
<1>4. CASE Open(f) \/ OpenFails(f) \/ Release(f) \/ Poll(f)
  BY <1>4, PipeAssumption DEF Open, OpenFails, Release, Poll
<1>5. CASE Blocked(f) \/ Read(f) \/ Write(f) \/ Fault(f)
  BY <1>5, PipeAssumption DEF Blocked, Read, Write, Fault, AfterEmpty
<1> QED
  BY <1>1, <1>2, <1>3, <1>4, <1>5 DEF FileStep, OuterStep, Section

\* What CallsOK says of one file.
CallOK(f) ==
  /\ at[f] \in {"closed", "user"} <=> call[f] = "none"
  /\ call[f] \in {"open", "release"} => at[f] = "down"
  /\ call[f] = "poll" => at[f] \in {"down", "asleep"}
  /\ call[f] = "read" => f \in Readers /\ at[f] # "finish"
  /\ call[f] = "write" => f \in Writers
  /\ sem = f => at[f] = "down"
  /\ at[f] = "test" => seen[f][1] \in {"rp", "wp"}

LEMMA CallsStep ==
  ASSUME CallsOK, KindsOK, RingInv, [Next]_vars
  PROVE  CallsOK'
<1> SUFFICES ASSUME NEW g \in Files PROVE CallOK(g)'
  BY DEF CallsOK, CallOK
<1>0. CallOK(g)
  BY DEF CallsOK, CallOK
<1>1. CASE UNCHANGED vars
  BY <1>0, <1>1 DEF vars, fileVars, CallOK
<1>2. ASSUME NEW n \in BufSizes, Resize(n) PROVE CallOK(g)'
  BY <1>0, <1>2 DEF Resize, fileVars, CallOK
<1>3. ASSUME NEW f \in Files, FileStep(f), f # g PROVE CallOK(g)'
  BY <1>0, <1>3, OnlyOneMoves DEF CallOK
<1>4. ASSUME FileStep(g) PROVE CallOK(g)'
  <2> USE DEF KindsOK, RingInv, CallOK, Go, Back, Inside, fileVars
  <2>1. CASE CallStep(g)
    BY <1>0, <2>1 DEF CallStep, Call
  <2>2. CASE Fasync(g) \/ Down(g) \/ Interrupted(g) \/ Wake(g)
    BY <1>0, <2>2 DEF Fasync, Down, Interrupted, Wake
  <2>3. CASE Wait(g) \/ Peek(g) \/ FinishStep(g)
    BY <1>0, <2>3 DEF Wait, Peek, FinishStep, FinishWait
  <2>9. CASE WokeStep(g)
    <3>1. at[g] = "asleep" /\ call[g] \in {"read", "write", "poll"}
      BY <1>0, <2>9 DEF WokeStep, Woke, Calls
    <3> QED
      BY <1>0, <2>9, <3>1 DEF WokeStep, Woke
  <2>4. CASE Test(g)
    BY <1>0, <2>4 DEF Test
  <2>5. CASE Open(g) \/ OpenFails(g) \/ Release(g) \/ Poll(g)
    BY <1>0, <2>5, PipeAssumption DEF Open, OpenFails, Release, Poll
  <2>6. CASE Blocked(g) \/ Read(g) \/ Write(g) \/ Fault(g)
    BY <1>0, <2>6, PipeAssumption DEF Blocked, Read, Write, Fault, AfterEmpty
  <2> QED
    BY <1>4, <2>1, <2>2, <2>3, <2>9, <2>4, <2>5, <2>6
    DEF FileStep, OuterStep, Section
<1> QED
  BY <1>1, <1>2, <1>3, <1>4, NextIsStep

LEMMA KindsStep ==
  ASSUME CallsOK, KindsOK, [Next]_vars
  PROVE  KindsOK'
<1> USE DEF KindsOK, Go, Back, Inside, Calls, Places, ringVars, openVars, fileVars
<1>1. CASE UNCHANGED vars
  BY <1>1 DEF vars
<1>2. ASSUME NEW n \in BufSizes, Resize(n) PROVE KindsOK'
  BY <1>2 DEF Resize
<1>3. ASSUME NEW f \in Files, FileStep(f) PROVE KindsOK'
  <2>1. CASE CallStep(f)
    BY <2>1 DEF CallStep, Call
  <2>2. CASE Fasync(f) \/ Down(f) \/ Interrupted(f) \/ Wake(f)
    BY <2>2 DEF Fasync, Down, Interrupted, Wake
  <2>3. CASE Wait(f) \/ Peek(f) \/ FinishStep(f)
    BY <2>3 DEF Wait, Peek, FinishStep, FinishWait
  <2>4. CASE WokeStep(f)
    BY <2>4 DEF WokeStep, Woke, CallsOK
  <2>5. CASE Test(f)
    BY <2>5 DEF Test
  <2>6. CASE Open(f) \/ OpenFails(f) \/ Release(f)
    BY <2>6 DEF Open, OpenFails, Release
  <2>7. CASE Poll(f)
    BY <2>7 DEF Poll
  <2>8. CASE Blocked(f) \/ Read(f) \/ Write(f) \/ Fault(f)
    BY <2>8 DEF Blocked, Read, Write, Fault, AfterEmpty
  <2> QED
    BY <1>3, <2>1, <2>2, <2>3, <2>4, <2>5, <2>6, <2>7, <2>8
    DEF FileStep, OuterStep, Section
<1> QED
  BY <1>1, <1>2, <1>3, NextIsStep

(***************************************************************************)
(* Who has the device open                                                 *)
(***************************************************************************)

\* Only open and release change who is inside, the counts and the buffer.
LEMMA OpenKept ==
  ASSUME CallsOK, KindsOK, RingInv, NEW f \in Files, FileStep(f),
         ~Open(f), ~Release(f)
  PROVE  /\ \A g \in Files : IsOpen(g)' = IsOpen(g)
         /\ nreaders' = nreaders /\ nwriters' = nwriters /\ buffer' = buffer
<1>1. IsOpen(f)' = IsOpen(f)
  <2> USE DEF CallsOK, KindsOK, Go, Back, Inside, fileVars, IsOpen, Calls, Places
  <2>1. CASE CallStep(f)
    BY <2>1 DEF CallStep, Call
  <2>2. CASE Fasync(f) \/ Down(f) \/ Interrupted(f) \/ Wake(f)
    BY <2>2 DEF Fasync, Down, Interrupted, Wake
  <2>3. CASE Wait(f) \/ Peek(f) \/ FinishStep(f)
    BY <2>3 DEF Wait, Peek, FinishStep, FinishWait
  <2>4. CASE WokeStep(f)
    <3>1. at[f] = "asleep" /\ call[f] \in {"read", "write", "poll"}
      BY <2>4 DEF WokeStep, Woke
    <3> QED
      BY <2>4, <3>1 DEF WokeStep, Woke
  <2>5. CASE Test(f)
    BY <2>5 DEF Test
  <2>6. CASE OpenFails(f) \/ Poll(f) \/ Blocked(f)
    BY <2>6 DEF OpenFails, Poll, Blocked
  <2>7. CASE Read(f) \/ Write(f) \/ Fault(f)
    BY <2>7 DEF Read, Write, Fault
  <2> QED
    BY <2>1, <2>2, <2>3, <2>4, <2>5, <2>6, <2>7
    DEF FileStep, OuterStep, Section
<1>2. \A g \in Files : g # f => IsOpen(g)' = IsOpen(g)
  BY OnlyOneMoves DEF IsOpen
<1>3. nreaders' = nreaders /\ nwriters' = nwriters /\ buffer' = buffer
  BY DEF FileStep, OuterStep, Section, CallStep, Call, Fasync, Down,
         Interrupted, Wake, Wait, Peek, FinishStep, FinishWait, WokeStep, Woke,
         Test, OpenFails, Poll, Blocked, Read, Write, Fault, ringVars, openVars
<1> QED
  BY <1>1, <1>2, <1>3

LEMMA OpenCounts ==
  /\ IsFiniteSet(OpenReaders) /\ IsFiniteSet(OpenWriters)
  /\ Cardinality(OpenReaders) \in 0 .. Cardinality(Readers)
  /\ Cardinality(OpenWriters) \in 0 .. Cardinality(Writers)
<1>1. IsFiniteSet(Readers) /\ IsFiniteSet(Writers)
  BY FS_Subset, PipeAssumption DEF Files
<1>2. OpenReaders \in SUBSET Readers /\ OpenWriters \in SUBSET Writers
  BY DEF OpenReaders, OpenWriters
<1>3. /\ IsFiniteSet(OpenReaders) /\ IsFiniteSet(OpenWriters)
      /\ Cardinality(OpenReaders) <= Cardinality(Readers)
      /\ Cardinality(OpenWriters) <= Cardinality(Writers)
  BY <1>1, <1>2, FS_Subset
<1>4. /\ Cardinality(OpenReaders) \in Nat /\ Cardinality(OpenWriters) \in Nat
      /\ Cardinality(Readers) \in Nat /\ Cardinality(Writers) \in Nat
  BY <1>1, <1>3, FS_CardinalityType
<1> QED
  BY <1>3, <1>4

LEMMA CountOpen ==
  ASSUME CallsOK, KindsOK, CountInv, RingInv, NEW f \in Files, Open(f)
  PROVE  CountInv'
<1>1. /\ ~IsOpen(f) /\ IsOpen(f)'
      /\ \A g \in Files : g # f => IsOpen(g)' = IsOpen(g)
  <2>1. FileStep(f)
    BY DEF FileStep, Section
  <2> QED
    BY <2>1, OnlyOneMoves DEF Open, Inside, Back, IsOpen, KindsOK
<1>2. nreaders' = Cardinality(OpenReaders')
  <2>1. OpenReaders' = IF f \in Readers THEN OpenReaders \cup {f} ELSE OpenReaders
    BY <1>1 DEF OpenReaders, Files
  <2>2. f \notin OpenReaders
    BY <1>1 DEF OpenReaders
  <2>3. Cardinality(OpenReaders \cup {f}) = Cardinality(OpenReaders) + 1
    BY <2>2, OpenCounts, FS_AddElement
  <2>4. nreaders' = nreaders + (IF f \in Readers THEN 1 ELSE 0)
    BY DEF Open
  <2> QED
    BY <2>1, <2>3, <2>4, OpenCounts DEF CountInv
<1>3. nwriters' = Cardinality(OpenWriters')
  <2>1. OpenWriters' = IF f \in Writers THEN OpenWriters \cup {f} ELSE OpenWriters
    BY <1>1 DEF OpenWriters, Files
  <2>2. f \notin OpenWriters
    BY <1>1 DEF OpenWriters
  <2>3. Cardinality(OpenWriters \cup {f}) = Cardinality(OpenWriters) + 1
    BY <2>2, OpenCounts, FS_AddElement
  <2>4. nwriters' = nwriters + (IF f \in Writers THEN 1 ELSE 0)
    BY DEF Open
  <2> QED
    BY <2>1, <2>3, <2>4, OpenCounts DEF CountInv
<1>4. buffer' # 0
  BY MaxOfSizes DEF Open, KindsOK
<1> QED
  BY <1>1, <1>2, <1>3, <1>4 DEF CountInv

LEMMA CountRelease ==
  ASSUME CallsOK, KindsOK, CountInv, RingInv, NEW f \in Files, Release(f)
  PROVE  CountInv'
<1>1. /\ IsOpen(f) /\ ~IsOpen(f)'
      /\ \A g \in Files : g # f => IsOpen(g)' = IsOpen(g)
  <2>1. FileStep(f)
    BY DEF FileStep, Section
  <2> QED
    BY <2>1, OnlyOneMoves DEF Release, Inside, Back, IsOpen, KindsOK
<1>2. nreaders' = Cardinality(OpenReaders') /\ IsFiniteSet(OpenReaders')
  <2>1. OpenReaders' = OpenReaders \ {f} /\ (f \in OpenReaders <=> f \in Readers)
    BY <1>1 DEF OpenReaders, Files
  <2>2. /\ IsFiniteSet(OpenReaders \ {f})
        /\ Cardinality(OpenReaders \ {f}) =
             IF f \in OpenReaders THEN Cardinality(OpenReaders) - 1
                                ELSE Cardinality(OpenReaders)
    BY OpenCounts, FS_RemoveElement
  <2>3. nreaders' = nreaders - (IF f \in Readers THEN 1 ELSE 0)
    BY DEF Release, Leaves
  <2> QED
    BY <2>1, <2>2, <2>3, OpenCounts, FS_CardinalityType DEF CountInv
<1>3. nwriters' = Cardinality(OpenWriters') /\ IsFiniteSet(OpenWriters')
  <2>1. OpenWriters' = OpenWriters \ {f} /\ (f \in OpenWriters <=> f \in Writers)
    BY <1>1 DEF OpenWriters, Files
  <2>2. /\ IsFiniteSet(OpenWriters \ {f})
        /\ Cardinality(OpenWriters \ {f}) =
             IF f \in OpenWriters THEN Cardinality(OpenWriters) - 1
                                ELSE Cardinality(OpenWriters)
    BY OpenCounts, FS_RemoveElement
  <2>3. nwriters' = nwriters - (IF f \in Writers THEN 1 ELSE 0)
    BY DEF Release, Leaves
  <2> QED
    BY <2>1, <2>2, <2>3, OpenCounts, FS_CardinalityType DEF CountInv
<1>4. buffer' # 0 <=> nreaders' + nwriters' # 0
  BY <1>1 DEF Release, CountInv
<1>5. nreaders' + nwriters' # 0 <=> \E g \in Files : IsOpen(g)'
  <2>1. nreaders' \in Nat /\ nwriters' \in Nat
    BY <1>2, <1>3, FS_CardinalityType
  <2>2. /\ nreaders' = 0 <=> OpenReaders' = {}
        /\ nwriters' = 0 <=> OpenWriters' = {}
    BY <1>2, <1>3, FS_EmptySet
  <2>3. \A m, n \in Nat : m + n # 0 <=> m # 0 \/ n # 0
    OBVIOUS
  <2>4. nreaders' + nwriters' # 0 <=> OpenReaders' # {} \/ OpenWriters' # {}
    BY <2>1, <2>2, <2>3
  <2> QED
    BY <2>4 DEF OpenReaders, OpenWriters, Files
<1> QED
  BY <1>2, <1>3, <1>4, <1>5 DEF CountInv

LEMMA CountStep ==
  ASSUME CallsOK, KindsOK, CountInv, RingInv, [Next]_vars
  PROVE  CountInv'
<1>1. CASE UNCHANGED vars
  BY <1>1 DEF vars, ringVars, openVars, fileVars, CountInv, OpenReaders,
              OpenWriters, IsOpen
<1>2. ASSUME NEW n \in BufSizes, Resize(n) PROVE CountInv'
  BY <1>2 DEF Resize, ringVars, openVars, fileVars, CountInv, OpenReaders,
              OpenWriters, IsOpen
<1>3. ASSUME NEW f \in Files, FileStep(f), ~Open(f), ~Release(f)
      PROVE  CountInv'
  <2>1. OpenReaders' = OpenReaders /\ OpenWriters' = OpenWriters
    BY <1>3, OpenKept DEF OpenReaders, OpenWriters, Files
  <2> QED
    BY <1>3, <2>1, OpenKept DEF CountInv
<1> QED
  BY <1>1, <1>2, <1>3, CountOpen, CountRelease, NextIsStep

(***************************************************************************)
(* The pointers stay in the ring                                           *)
(***************************************************************************)

LEMMA RingUsed ==
  ASSUME KindsOK, CountInv, RingInv, NEW f \in Files,
         at[f] \notin {"closed", "user"}, call[f] # "open"
  PROVE  /\ buffer # 0
         /\ buffersize \in BufSizes /\ buffersize \in Nat /\ buffersize >= 2
         /\ buffersize <= MaxOf(BufSizes) /\ MaxOf(BufSizes) \in Nat
         /\ rp \in Nat /\ wp \in Nat /\ rp < buffersize /\ wp < buffersize
<1>1. IsOpen(f)
  BY DEF IsOpen
<1> QED
  BY <1>1, MaxOfSizes DEF CountInv, RingInv

\* A read moves rp by no more than what is in the ring up to its end.
LEMMA ReadMoves ==
  ASSUME KindsOK, CountInv, RingInv, NEW f \in Files, Read(f)
  PROVE  /\ rp # wp
         /\ \E k \in Nat \ {0} :
              /\ rp' = Wrap(rp + k)
              /\ rp + k <= (IF rp < wp THEN wp ELSE buffersize)
<1>1. /\ buffersize \in Nat /\ rp \in Nat /\ wp \in Nat
      /\ rp < buffersize /\ wp < buffersize
  BY RingUsed DEF Read, Inside
<1>2. PICK n \in Counts : rp' = Wrap(rp + MinOf({n, Readable}))
  BY DEF Read
<1>3. Readable \in Nat \ {0} /\ n \in Nat \ {0}
  BY <1>1, PipeAssumption DEF Readable, Read
<1>4. MinOf({n, Readable}) = IF n <= Readable THEN n ELSE Readable
  BY <1>3, MinOfTwo
<1>5. /\ MinOf({n, Readable}) \in Nat \ {0}
      /\ rp + MinOf({n, Readable}) <= rp + Readable
  BY <1>1, <1>3, <1>4
<1>6. rp + Readable = IF rp < wp THEN wp ELSE buffersize
  BY <1>1 DEF Readable
<1>7. rp # wp
  BY DEF Read
<1> QED
  BY <1>2, <1>5, <1>6, <1>7

\* A write moves wp by no more than what is free up to the end, and leaves a
\* place before rp.
LEMMA WriteMoves ==
  ASSUME KindsOK, CountInv, RingInv, NEW f \in Files, Write(f)
  PROVE  \E k \in Nat \ {0} :
           /\ wp' = Wrap(wp + k)
           /\ wp + k <= (IF rp <= wp THEN buffersize ELSE rp - 1)
           /\ k <= spacefree(rp, wp)
<1>1. /\ buffersize \in Nat /\ rp \in Nat /\ wp \in Nat
      /\ rp < buffersize /\ wp < buffersize
  BY RingUsed DEF Write, Inside
<1>2. spacefree(rp, wp) = IF rp <= wp THEN buffersize - 1 - (wp - rp)
                                      ELSE rp - wp - 1
  BY <1>1, SpaceFree
<1>3. PICK n \in Counts : wp' = Wrap(wp + MinOf({n, Writable}))
  BY DEF Write
<1>4. PICK e : e = IF wp >= rp THEN buffersize - wp ELSE rp - wp - 1
  OBVIOUS
<1>5. PICK free : free = spacefree(rp, wp)
  OBVIOUS
<1>6. free \in Nat \ {0} /\ e \in Nat \ {0}
  BY <1>1, <1>2, <1>4, <1>5 DEF Write
<1>7. Writable = IF free <= e THEN free ELSE e
  <2>1. MinOf({free, e}) = IF free <= e THEN free ELSE e
    BY <1>6, MinOfTwo
  <2> QED
    BY <1>4, <1>5, <2>1 DEF Writable
<1>8. n \in Nat \ {0} /\ Writable \in Nat \ {0}
  BY <1>6, <1>7, PipeAssumption
<1>9. MinOf({n, Writable}) = IF n <= Writable THEN n ELSE Writable
  BY <1>8, MinOfTwo
<1>10. PICK k : k = MinOf({n, Writable})
  OBVIOUS
<1>11. k \in Nat \ {0} /\ k <= free /\ k <= e
  BY <1>6, <1>7, <1>8, <1>9, <1>10
<1>12. wp + k <= (IF rp <= wp THEN buffersize ELSE rp - 1)
  BY <1>1, <1>4, <1>11
<1> QED
  BY <1>3, <1>5, <1>10, <1>11, <1>12

LEMMA RingStep ==
  ASSUME CallsOK, KindsOK, CountInv, RingInv, [Next]_vars
  PROVE  RingInv'
<1> DEFINE max == MaxOf(BufSizes)
<1>0. max \in Nat /\ max >= 2
  BY MaxOfSizes
<1>1. CASE UNCHANGED vars
  BY <1>1 DEF vars, ringVars, fileVars, causeVars, RingInv
<1>2. ASSUME NEW n \in BufSizes, Resize(n) PROVE RingInv'
  <2>1. resized' \in BOOLEAN /\ missed' \subseteq outq'
    BY <1>2 DEF Resize, RingInv
  <2>2. buffer # 0 /\ ~resized' => scull_p_buffer' = scull_p_buffer /\ ~resized
    BY <1>2 DEF Resize
  <2>3. UNCHANGED <<buffer, buffersize, rp, wp, seen>>
    BY <1>2 DEF Resize, ringVars, fileVars
  <2> QED
    BY <2>1, <2>2, <2>3 DEF RingInv
<1>3. ASSUME NEW f \in Files, FileStep(f) PROVE RingInv'
  <2>0. resized' \in BOOLEAN /\ missed' \subseteq outq'
    <3> USE DEF RingInv, causeVars, StillMissed
    <3>1. CASE CallStep(f) \/ Fasync(f) \/ Down(f) \/ Interrupted(f)
      BY <3>1 DEF CallStep, Call, Fasync, Down, Interrupted
    <3>2. CASE Wake(f) \/ WokeStep(f) \/ FinishStep(f)
      BY <3>2 DEF Wake, WokeStep, Woke, FinishStep, FinishWait
    <3>3. CASE Wait(f) \/ Peek(f) \/ Test(f) \/ Poll(f)
      BY <3>3 DEF Wait, Peek, Test, Poll
    <3>4. CASE Open(f) \/ OpenFails(f) \/ Release(f)
      BY <3>4 DEF Open, OpenFails, Release
    <3>5. CASE Blocked(f) \/ Read(f) \/ Write(f) \/ Fault(f)
      BY <3>5 DEF Blocked, Read, Write, Fault
    <3> QED
      BY <1>3, <3>1, <3>2, <3>3, <3>4, <3>5 DEF FileStep, OuterStep, Section
  <2>1. seen' \in [Files -> {"none", "rp", "wp"} \X (0 .. max)]
    <3> HIDE DEF max
    <3>1. CASE Peek(f)
      BY <3>1 DEF Peek, RingInv, max
    <3>2. CASE Test(f)
      BY <1>0, <3>2 DEF Test, RingInv, None, max
    <3>3. CASE ~Peek(f) /\ ~Test(f)
      <4>1. seen' = seen
        BY <1>3, <3>3
        DEF FileStep, OuterStep, Section, CallStep, Call, Fasync, Down,
            Interrupted, Wake, Wait, FinishStep, FinishWait, WokeStep, Woke,
            Open, OpenFails, Release, Poll, Blocked, Read, Write, Fault, fileVars
      <4> QED
        BY <4>1 DEF RingInv, max
    <3> QED
      BY <3>1, <3>2, <3>3
  <2>2. CASE Read(f)
    <3>1. /\ buffersize \in Nat /\ rp \in Nat /\ wp \in Nat
          /\ rp < buffersize /\ wp < buffersize /\ buffersize <= max
      BY <2>2, RingUsed DEF Read, Inside
    <3>2. PICK k \in Nat \ {0} : /\ rp' = Wrap(rp + k)
                                 /\ rp + k <= buffersize
      BY <2>2, <3>1, ReadMoves
    <3>3. rp' \in 0 .. max /\ rp' < buffersize
      BY <1>0, <3>1, <3>2 DEF Wrap
    <3> QED
      BY <2>0, <2>1, <2>2, <3>3 DEF Read, RingInv, causeVars
  <2>3. CASE Write(f)
    <3>1. /\ buffersize \in Nat /\ rp \in Nat /\ wp \in Nat
          /\ rp < buffersize /\ wp < buffersize /\ buffersize <= max
      BY <2>3, RingUsed DEF Write, Inside
    <3>2. PICK k \in Nat \ {0} : /\ wp' = Wrap(wp + k)
                                 /\ wp + k <= buffersize
      BY <2>3, <3>1, WriteMoves
    <3>3. wp' \in 0 .. max /\ wp' < buffersize
      BY <1>0, <3>1, <3>2 DEF Wrap
    <3> QED
      BY <2>0, <2>1, <2>3, <3>3 DEF Write, RingInv, causeVars
  <2>4. CASE Open(f)
    <3>1. /\ rp' = 0 /\ wp' = 0 /\ buffersize' = scull_p_buffer
          /\ scull_p_buffer' = scull_p_buffer
          /\ buffer' = IF buffer = 0 THEN scull_p_buffer ELSE buffer
          /\ resized' = resized
      BY <2>4 DEF Open
    <3>2. scull_p_buffer \in BufSizes /\ 0 < scull_p_buffer
      BY MaxOfSizes DEF KindsOK
    <3> QED
      BY <1>0, <2>0, <2>1, <3>1, <3>2 DEF RingInv
  <2>5. CASE Release(f)
    <3>1. /\ UNCHANGED <<scull_p_buffer, buffersize, rp, wp>>
          /\ buffer' \in {0, buffer} /\ (~resized' => ~resized \/ buffer' = 0)
      BY <2>5 DEF Release
    <3> QED
      BY <2>0, <2>1, <3>1 DEF RingInv
  <2>6. CASE ~Read(f) /\ ~Write(f) /\ ~Open(f) /\ ~Release(f)
    <3>1. UNCHANGED <<scull_p_buffer, ringVars, resized>>
      BY <1>3, <2>6
      DEF FileStep, OuterStep, Section, CallStep, Call, Fasync, Down,
          Interrupted, Wake, Wait, Peek, Test, FinishStep, FinishWait,
          WokeStep, Woke, OpenFails, Poll, Blocked, Fault, ringVars,
          causeVars, StillMissed
    <3> QED
      BY <2>0, <2>1, <3>1 DEF RingInv, ringVars
  <2> QED
    BY <2>2, <2>3, <2>4, <2>5, <2>6
<1> QED
  BY <1>1, <1>2, <1>3, NextIsStep

LEMMA PipeInvariant == Spec => [](CallsOK /\ KindsOK /\ CountInv /\ RingInv)
<1> DEFINE Inv == CallsOK /\ KindsOK /\ CountInv /\ RingInv
<1>1. Init => Inv
  <2> SUFFICES ASSUME Init PROVE Inv
    OBVIOUS
  <2>1. CallsOK
    BY PipeAssumption DEF Init, CallsOK
  <2>2. KindsOK
    BY DEF Init, KindsOK, Calls, Places
  <2>3. CountInv
    <3>1. \A f \in Files : ~IsOpen(f)
      BY DEF Init, IsOpen
    <3>2. OpenReaders = {} /\ OpenWriters = {}
      BY <3>1 DEF OpenReaders, OpenWriters, Files
    <3> QED
      BY <3>1, <3>2, FS_EmptySet DEF Init, CountInv
  <2>4. RingInv
    <3>1. resized \in BOOLEAN /\ missed \subseteq outq
      BY DEF Init
    <3>2. /\ buffer = 0 /\ rp \in 0 .. MaxOf(BufSizes)
          /\ wp \in 0 .. MaxOf(BufSizes)
          /\ seen \in [Files -> {"none", "rp", "wp"} \X (0 .. MaxOf(BufSizes))]
      BY MaxOfSizes DEF Init, None
    <3> QED
      BY <3>1, <3>2 DEF RingInv
  <2> QED
    BY <2>1, <2>2, <2>3, <2>4
<1>2. Inv /\ [Next]_vars => Inv'
  BY CallsStep, KindsStep, CountStep, RingStep
<1> QED
  BY <1>1, <1>2, PTL DEF Spec

\* Whoever opens, closes or resizes when, the buffer lives as long as a file is
\* open, every call leaves the semaphore, and dev->end is the end of the buffer
\* unless its size has been changed after the allocation.
THEOREM BufferCorrect == Spec => []BufferOK
<1> DEFINE Inv == CallsOK /\ KindsOK /\ CountInv /\ RingInv
<1>1. Inv => BufferOK
  <2> SUFFICES ASSUME Inv PROVE BufferOK
    OBVIOUS
  <2>1. TypeOK
    BY OpenCounts DEF TypeOK, KindsOK, CountInv, RingInv
  <2>2. BufferLives /\ (EndOfBuffer \/ resized)
    BY DEF BufferLives, EndOfBuffer, CountInv, RingInv
  <2>3. SemReleased
    BY DEF SemReleased, CallsOK
  <2> QED
    BY <2>1, <2>2, <2>3 DEF BufferOK
<1> QED
  BY <1>1, PipeInvariant, PTL

(***************************************************************************)
(* No lost wake-up                                                         *)
(***************************************************************************)

\* What WakeInv says of one file.
WakeOK(g) ==
  /\ at[g] = "asleep" =>
       /\ call[g] = "read" /\ g \in inq /\ rp # wp => WakePending("write")
       /\ call[g] = "write" /\ g \in outq \ missed /\ spacefree(rp, wp) # 0
            => WakePending("read")
       /\ (/\ call[g] = "poll" /\ g \in inq \cap outq
           /\ Ready(g) /\ (g \in missed => g \in Readers /\ rp # wp))
            => WakePending("write") \/ WakePending("read")
  /\ at[g] = "test" =>
       /\ call[g] = "read" /\ g \in inq => WakePending("write") \/ ReaderTests(g)
       /\ call[g] = "write" /\ g \in outq \ missed
            => WakePending("read") \/ WriterTests(g)

LEMMA WakeByFile == WakeInv <=> \A g \in Files : WakeOK(g)
BY DEF WakeInv, WakeOK, NoLostWakeup

\* A file about to wake others goes on to do it whatever the others do.
LEMMA PendingKept ==
  ASSUME KindsOK, RingInv, NEW f \in Files, FileStep(f), NEW c,
         at[f] = "wake" => call[f] # c, WakePending(c)
  PROVE  WakePending(c)'
<1>1. PICK h \in Files : call[h] = c /\ at[h] = "wake"
  BY DEF WakePending
<1>2. h # f
  BY <1>1
<1> QED
  BY <1>1, <1>2, OnlyOneMoves DEF WakePending

\* Reading makes room: those who wait for it have f on its way to wake them,
\* and there was something to read before.
LEMMA WakeRead ==
  ASSUME KindsOK, RingInv, NEW f \in Files, Read(f),
         NEW g \in Files, WakeOK(g)
  PROVE  WakeOK(g)'
<1>0. FileStep(f)
  BY DEF FileStep, Section
<1>1. /\ at'[f] = "wake" /\ call'[f] = "read" /\ at[f] = "down"
      /\ UNCHANGED <<wp, buffersize, inq, outq, seen, missed>> /\ rp # wp
  BY DEF Read, Inside, Go, KindsOK, causeVars
<1>2. WakePending("read")'
  BY <1>1 DEF WakePending
<1>3. WakePending("write") => WakePending("write")'
  BY <1>0, <1>1, PendingKept
<1>4. CASE g = f
  BY <1>1, <1>4 DEF WakeOK
<1>5. CASE g # f
  <2>1. at'[g] = at[g] /\ call'[g] = call[g]
    BY <1>0, <1>5, OnlyOneMoves
  <2> QED
    BY <1>1, <1>2, <1>3, <2>1 DEF WakeOK, ReaderTests
<1> QED
  BY <1>4, <1>5

\* Writing brings data, and there was room before.
LEMMA WakeWrite ==
  ASSUME KindsOK, RingInv, NEW f \in Files, Write(f),
         NEW g \in Files, WakeOK(g)
  PROVE  WakeOK(g)'
<1>0. FileStep(f)
  BY DEF FileStep, Section
<1>1. /\ at'[f] = "wake" /\ call'[f] = "write" /\ at[f] = "down"
      /\ UNCHANGED <<rp, buffersize, inq, outq, seen, missed>>
      /\ spacefree(rp, wp) # 0
  BY DEF Write, Inside, Go, KindsOK, causeVars
<1>2. WakePending("write")'
  BY <1>1 DEF WakePending
<1>3. WakePending("read") => WakePending("read")'
  BY <1>0, <1>1, PendingKept
<1>4. CASE g = f
  BY <1>1, <1>4 DEF WakeOK
<1>5. CASE g # f
  <2>1. at'[g] = at[g] /\ call'[g] = call[g]
    BY <1>0, <1>5, OnlyOneMoves
  <2>2. \A r, w : spacefree(r, w)' = spacefree(r, w)
    BY <1>1 DEF spacefree
  <2>3. WriterTests(g) => WriterTests(g)'
    BY <1>1, <2>2 DEF WriterTests
  <2> QED
    BY <1>1, <1>2, <1>3, <2>1, <2>3 DEF WakeOK
<1> QED
  BY <1>4, <1>5

\* Waking empties a queue, and leaves the other to those who will wake it.
LEMMA WakeWake ==
  ASSUME CallsOK, KindsOK, RingInv, NEW f \in Files, Wake(f),
         NEW g \in Files, WakeOK(g)
  PROVE  WakeOK(g)'
<1>0. FileStep(f)
  BY DEF FileStep, OuterStep
<1>1. /\ at[f] = "wake" /\ at'[f] = "user" /\ call[f] \in {"read", "write"}
      /\ UNCHANGED <<rp, wp, buffersize, seen>>
      /\ missed' = missed \cap outq' /\ missed \subseteq outq
  BY DEF Wake, Back, KindsOK, RingInv, CallsOK, Calls, ringVars, StillMissed
<1>2. CASE g = f
  BY <1>1, <1>2 DEF WakeOK
<1>3. CASE g # f
  <2>1. at'[g] = at[g] /\ call'[g] = call[g]
    BY <1>0, <1>3, OnlyOneMoves
  <2>2. CASE call[f] = "read"
    <3>1. outq' = {} /\ inq' = inq
      BY <2>2 DEF Wake, Wakes
    <3>2. WakePending("write") => WakePending("write")'
      BY <1>0, <2>2, PendingKept
    <3> QED
      BY <1>1, <2>1, <3>1, <3>2 DEF WakeOK, ReaderTests
  <2>3. CASE call[f] = "write"
    <3>1. inq' = {} /\ outq' = outq
      BY <2>3 DEF Wake, Wakes
    <3>2. WakePending("read") => WakePending("read")'
      BY <1>0, <2>3, PendingKept
    <3>3. \A r, w : spacefree(r, w)' = spacefree(r, w)
      BY <1>1 DEF spacefree
    <3> QED
      BY <1>1, <2>1, <3>1, <3>2, <3>3 DEF WakeOK, WriterTests
  <2> QED
    BY <1>1, <2>2, <2>3
<1> QED
  BY <1>2, <1>3

\* An open leaves nothing to read, and has those who wait for room miss it.
LEMMA WakeOpen ==
  ASSUME CallsOK, KindsOK, RingInv, NEW f \in Files, Open(f), NEW g \in Files
  PROVE  WakeOK(g)'
<1>1. /\ rp' = 0 /\ wp' = 0 /\ missed' = outq
      /\ UNCHANGED <<inq, outq, seen>>
  BY DEF Open
<1>2. ReaderTests(g)'
  BY <1>1 DEF ReaderTests
<1> QED
  BY <1>1, <1>2 DEF WakeOK

\* The other steps leave the pointers and the queues of the other files alone.
CalmStep(f) ==
  \/ CallStep(f) \/ Fasync(f) \/ Down(f) \/ Interrupted(f)
  \/ Wait(f) \/ Peek(f) \/ Test(f) \/ WokeStep(f) \/ FinishStep(f)
  \/ OpenFails(f) \/ Release(f) \/ Poll(f) \/ Blocked(f) \/ Fault(f)

LEMMA CalmEffects ==
  ASSUME KindsOK, RingInv, NEW f \in Files, CalmStep(f)
  PROVE  /\ FileStep(f) /\ at[f] # "wake"
         /\ UNCHANGED <<rp, wp, buffersize>>
         /\ \A g \in Files : g # f => /\ g \in inq' <=> g \in inq
                                      /\ g \in outq' <=> g \in outq
                                      /\ g \in missed' <=> g \in missed
<1>1. FileStep(f)
  BY DEF CalmStep, FileStep, OuterStep, Section
<1>2. at[f] # "wake"
  BY DEF CalmStep, CallStep, Call, Fasync, Down, Interrupted, Wait, Peek, Test,
         WokeStep, Woke, FinishStep, FinishWait, OpenFails, Release, Poll,
         Blocked, Fault, Inside
<1>3. UNCHANGED <<rp, wp, buffersize>>
  BY DEF CalmStep, CallStep, Call, Fasync, Down, Interrupted, Wait, Peek, Test,
         WokeStep, Woke, FinishStep, FinishWait, OpenFails, Release, Poll,
         Blocked, Fault, ringVars
<1>4. /\ inq' \in {inq, inq \cup {f}, inq \ {f}}
      /\ outq' \in {outq, outq \cup {f}, outq \ {f}}
  BY DEF CalmStep, CallStep, Call, Fasync, Down, Interrupted, Wait, Peek, Test,
         WokeStep, Woke, FinishStep, FinishWait, OpenFails, Release, Poll,
         Blocked, Fault
<1>5. missed' \in {missed, missed \cap outq', (missed \ {f}) \cap outq'}
  BY DEF CalmStep, CallStep, Call, Fasync, Down, Interrupted, Wait, Peek, Test,
         WokeStep, Woke, FinishStep, FinishWait, OpenFails, Release, Poll,
         Blocked, Fault, causeVars, StillMissed
<1>6. missed \subseteq outq
  BY DEF RingInv
<1> QED
  BY <1>1, <1>2, <1>3, <1>4, <1>5, <1>6

LEMMA WakeCalm ==
  ASSUME CallsOK, KindsOK, RingInv, NEW f \in Files, CalmStep(f),
         NEW g \in Files, WakeOK(g)
  PROVE  WakeOK(g)'
<1>1. \A r, w : spacefree(r, w)' = spacefree(r, w)
  BY CalmEffects DEF spacefree
<1>2. /\ WakePending("read") => WakePending("read")'
      /\ WakePending("write") => WakePending("write")'
  BY CalmEffects, PendingKept
<1>3. CASE g # f
  <2>1. /\ at'[g] = at[g] /\ call'[g] = call[g] /\ seen'[g] = seen[g]
        /\ g \in inq' <=> g \in inq
        /\ g \in outq' <=> g \in outq
        /\ g \in missed' <=> g \in missed
    BY <1>3, CalmEffects, OnlyOneMoves
  <2>2. /\ Ready(g)' = Ready(g)
        /\ ReaderTests(g)' = ReaderTests(g)
        /\ WriterTests(g)' = WriterTests(g)
    BY <1>1, <2>1, CalmEffects DEF Ready, ReaderTests, WriterTests
  <2> QED
    BY <1>1, <1>2, <2>1, <2>2, CalmEffects DEF WakeOK
<1>4. CASE g = f
  <2>1. CASE Peek(f)
    <3>1. at'[f] = "test" /\ call' = call
      BY <2>1 DEF Peek, Go, KindsOK
    <3>2. seen'[f] = <<"rp", rp>> \/ seen'[f] = <<"wp", wp>>
      BY <2>1 DEF Peek, RingInv
    <3>3. rp' = rp /\ wp' = wp
      BY CalmEffects
    <3>4. ReaderTests(f)' /\ WriterTests(f)'
      BY <3>2, <3>3 DEF ReaderTests, WriterTests
    <3> QED
      BY <1>4, <3>1, <3>4 DEF WakeOK
  <2>2. CASE Test(f)
    <3>1. CASE at'[f] = "asleep"
      <4>1. PICK r : r = IF seen[f][1] = "rp" THEN seen[f][2] ELSE rp
        OBVIOUS
      <4>2. PICK w : w = IF seen[f][1] = "wp" THEN seen[f][2] ELSE wp
        OBVIOUS
      <4>3. /\ at[f] = "test" /\ MustSleep(f, r, w)
            /\ call' = call /\ inq' = inq /\ outq' = outq /\ missed' = missed
        BY <2>2, <3>1, <4>1, <4>2 DEF Test, Go, Back, KindsOK, causeVars
      <4>4. rp' = rp /\ wp' = wp
        BY CalmEffects
      <4>5. call[f] \in {"read", "write"} /\ seen[f][1] \in {"rp", "wp"}
        BY <4>3 DEF CallsOK, KindsOK, Calls
      <4>6. ASSUME call[f] = "read", f \in inq
            PROVE  rp = wp \/ WakePending("write")
        <5>1. r = w /\ (WakePending("write") \/ ReaderTests(f))
          BY <1>4, <4>3, <4>6 DEF MustSleep, WakeOK
        <5> QED
          BY <4>1, <4>2, <4>5, <5>1 DEF ReaderTests
      <4>7. ASSUME call[f] = "write", f \in outq \ missed
            PROVE  spacefree(rp, wp) = 0 \/ WakePending("read")
        <5>1. spacefree(r, w) = 0 /\ (WakePending("read") \/ WriterTests(f))
          BY <1>4, <4>3, <4>7 DEF MustSleep, WakeOK
        <5> QED
          BY <4>1, <4>2, <4>5, <5>1 DEF WriterTests
      <4> QED
        BY <1>1, <1>2, <1>4, <3>1, <4>3, <4>4, <4>5, <4>6, <4>7 DEF WakeOK
    <3>2. CASE at'[f] # "asleep"
      <4>1. at'[f] \in {"user", "down", "finish"}
        BY <2>2, <3>2 DEF Test, Go, Back, KindsOK
      <4> QED
        BY <1>4, <4>1 DEF WakeOK
    <3> QED
      BY <3>1, <3>2
  <2>3. CASE Poll(f)
    <3>1. /\ ~Ready(f)' \/ at'[f] = "user"
          /\ at'[f] \in {"asleep", "user"}
          /\ at'[f] = "asleep" => call'[f] = "poll"
      <4>1. Ready(f)' = Ready(f)
        BY <1>1, CalmEffects DEF Ready
      <4> QED
        BY <2>3, <4>1 DEF Poll, Inside, Go, Back, KindsOK
    <3> QED
      BY <1>4, <3>1 DEF WakeOK
  <2>4. CASE ~Peek(f) /\ ~Test(f) /\ ~Poll(f)
    <3> USE DEF Go, Back, Inside, KindsOK, fileVars
    <3>1. CASE CallStep(f) \/ Fasync(f) \/ Down(f) \/ Interrupted(f) \/ Wait(f)
      <4>1. at'[f] \notin {"asleep", "test"}
        BY <3>1 DEF CallStep, Call, Fasync, Down, Interrupted, Wait
      <4> QED
        BY <1>4, <4>1 DEF WakeOK
    <3>2. CASE WokeStep(f)
      <4>1. at[f] = "asleep" /\ call[f] \in {"read", "write", "poll"}
        BY <3>2 DEF WokeStep, Woke, CallsOK, Calls
      <4>2. at'[f] \notin {"asleep", "test"}
        BY <3>2, <4>1 DEF WokeStep, Woke
      <4> QED
        BY <1>4, <4>2 DEF WakeOK
    <3>3. CASE FinishStep(f) \/ OpenFails(f) \/ Release(f) \/ Blocked(f) \/ Fault(f)
      <4>1. at'[f] \notin {"asleep", "test"}
        BY <3>3 DEF FinishStep, FinishWait, OpenFails, Release, Blocked, Fault
      <4> QED
        BY <1>4, <4>1 DEF WakeOK
    <3> QED
      BY <2>4, <3>1, <3>2, <3>3 DEF CalmStep
  <2> QED
    BY <2>1, <2>2, <2>3, <2>4
<1> QED
  BY <1>3, <1>4

LEMMA WakeStep ==
  ASSUME CallsOK, KindsOK, CountInv, RingInv, WakeInv, [Next]_vars
  PROVE  WakeInv'
<1> SUFFICES ASSUME NEW g \in Files PROVE WakeOK(g)'
  BY DEF WakeInv, WakeOK, NoLostWakeup
<1>0. WakeOK(g)
  BY WakeByFile
<1>1. CASE UNCHANGED <<rp, wp, buffersize, inq, outq, fileVars, missed>>
  <2>1. \A r, w : spacefree(r, w)' = spacefree(r, w)
    BY <1>1 DEF spacefree
  <2>2. \A c : WakePending(c)' = WakePending(c)
    BY <1>1 DEF WakePending, fileVars
  <2>3. /\ Ready(g)' = Ready(g)
        /\ ReaderTests(g)' = ReaderTests(g)
        /\ WriterTests(g)' = WriterTests(g)
    BY <1>1, <2>1 DEF Ready, ReaderTests, WriterTests, fileVars
  <2> QED
    BY <1>0, <1>1, <2>1, <2>2, <2>3 DEF WakeOK, fileVars
<1>2. CASE UNCHANGED vars
  BY <1>1, <1>2 DEF vars, ringVars, causeVars
<1>3. ASSUME NEW n \in BufSizes, Resize(n) PROVE WakeOK(g)'
  BY <1>1, <1>3 DEF Resize, ringVars
<1>4. ASSUME NEW f \in Files, FileStep(f) PROVE WakeOK(g)'
  <2>1. CalmStep(f) \/ Read(f) \/ Write(f) \/ Wake(f) \/ Open(f)
    BY <1>4 DEF FileStep, OuterStep, Section, CalmStep
  <2> QED
    BY <1>0, <2>1, WakeCalm, WakeRead, WakeWrite, WakeWake, WakeOpen
<1> QED
  BY <1>2, <1>3, <1>4, NextIsStep

\* Nobody sleeps on what has already happened, unless the file about to wake it
\* is on its way or an open has emptied the ring under it, wherever the loads of
\* rp and wp fall.
THEOREM NoLostWakeupCorrect == Spec => []NoLostWakeup
<1> DEFINE Inv == CallsOK /\ KindsOK /\ CountInv /\ RingInv
<1>1. Init => WakeInv
  BY DEF Init, WakeInv, NoLostWakeup
<1>2. Inv /\ WakeInv /\ [Next]_vars => WakeInv'
  BY WakeStep
<1>3. WakeInv => NoLostWakeup
  BY DEF WakeInv
<1> QED
  BY <1>1, <1>2, <1>3, PipeInvariant, PTL DEF Spec

(***************************************************************************)
(* The bytes in the ring form a queue                                      *)
(***************************************************************************)

LEMMA SpanElements ==
  ASSUME NEW from \in Nat, NEW to \in Nat, from <= to
  PROVE  /\ Span(from, to) \in Seq(Nat)
         /\ Len(Span(from, to)) = to - from
         /\ \A i \in 1 .. to - from : Span(from, to)[i] = from + i - 1
<1> DEFINE n == to - from
<1>1. n \in Nat /\ n = IF from < to THEN to - from ELSE 0
  OBVIOUS
<1>2. Span(from, to) = [i \in 1 .. n |-> from + i - 1]
  BY <1>1 DEF Span
<1>3. \A i \in 1 .. n : from + i - 1 \in Nat
  OBVIOUS
<1> HIDE DEF n
<1>4. Span(from, to) \in [1 .. n -> Nat]
  BY <1>2, <1>3
<1>5. Span(from, to) \in Seq(Nat) /\ Len(Span(from, to)) = n
  BY <1>1, <1>4, SeqDef, LenProperties
<1>6. \A i \in 1 .. n : Span(from, to)[i] = from + i - 1
  BY <1>2
<1> QED
  BY <1>5, <1>6 DEF n

\* The queue of a ring that is open, place by place.
Used == IF rp <= wp THEN wp - rp ELSE buffersize - rp + wp
PlaceOf(i) ==
  IF rp + i - 1 < buffersize THEN rp + i - 1 ELSE rp + i - 1 - buffersize

\* The ring while some file is open.
RingOpen ==
  /\ buffer # 0 /\ buffersize \in Nat /\ rp \in Nat /\ wp \in Nat
  /\ rp < buffersize /\ wp < buffersize /\ buffersize <= MaxOf(BufSizes)

QueueIsRing ==
  /\ Queue \in Seq(Nat) /\ Len(Queue) = Used
  /\ \A i \in 1 .. Used : Queue[i] = PlaceOf(i)

LEMMA QueueElements == RingOpen => QueueIsRing
<1> SUFFICES ASSUME RingOpen PROVE QueueIsRing
  OBVIOUS
<1> USE DEF RingOpen, QueueIsRing
<1>1. CASE rp <= wp
  <2>1. Queue = Span(rp, wp)
    BY <1>1 DEF Queue
  <2>2. /\ Span(rp, wp) \in Seq(Nat) /\ Len(Span(rp, wp)) = wp - rp
        /\ \A i \in 1 .. wp - rp : Span(rp, wp)[i] = rp + i - 1
    BY <1>1, SpanElements
  <2>3. Used = wp - rp
    BY <1>1 DEF Used
  <2>4. \A i \in 1 .. wp - rp : PlaceOf(i) = rp + i - 1
    BY <1>1 DEF PlaceOf
  <2> QED
    BY <2>1, <2>2, <2>3, <2>4
<1>2. CASE rp > wp
  <2>1. Queue = Span(rp, buffersize) \o Span(0, wp)
    BY <1>2 DEF Queue
  <2>2. PICK s : s = Span(rp, buffersize)
    OBVIOUS
  <2>3. PICK t : t = Span(0, wp)
    OBVIOUS
  <2>4. /\ s \in Seq(Nat) /\ Len(s) = buffersize - rp
        /\ \A i \in 1 .. buffersize - rp : s[i] = rp + i - 1
    <3>1. rp <= buffersize
      OBVIOUS
    <3> QED
      BY <2>2, <3>1, SpanElements
  <2>5. /\ t \in Seq(Nat) /\ Len(t) = wp
        /\ \A i \in 1 .. wp : t[i] = i - 1
    <3>1. 0 \in Nat /\ 0 <= wp /\ wp - 0 = wp
      OBVIOUS
    <3>2. /\ t \in Seq(Nat) /\ Len(t) = wp - 0
          /\ \A i \in 1 .. wp - 0 : t[i] = 0 + i - 1
      BY <2>3, <3>1, SpanElements
    <3> QED
      BY <3>1, <3>2
  <2>6. /\ s \o t \in Seq(Nat) /\ Len(s \o t) = buffersize - rp + wp
        /\ \A i \in 1 .. buffersize - rp + wp :
             (s \o t)[i] = IF i <= buffersize - rp THEN s[i]
                                                   ELSE t[i - (buffersize - rp)]
    <3>1. /\ s \o t \in Seq(Nat) /\ Len(s \o t) = Len(s) + Len(t)
          /\ \A i \in 1 .. Len(s) + Len(t) :
               (s \o t)[i] = IF i <= Len(s) THEN s[i] ELSE t[i - Len(s)]
      BY <2>4, <2>5, ConcatProperties
    <3> QED
      BY <2>4, <2>5, <3>1
  <2>7. Used = buffersize - rp + wp
    BY <1>2 DEF Used
  <2>8. ASSUME NEW i \in 1 .. Used PROVE (s \o t)[i] = PlaceOf(i)
    <3>1. CASE i <= buffersize - rp
      BY <2>4, <2>6, <2>7, <3>1 DEF PlaceOf
    <3>2. CASE i > buffersize - rp
      <4>1. i - (buffersize - rp) \in 1 .. wp
        BY <2>7, <2>8, <3>2
      <4>2. t[i - (buffersize - rp)] = i - (buffersize - rp) - 1
        BY <2>5, <4>1
      <4> QED
        BY <2>6, <2>7, <3>2, <4>2 DEF PlaceOf
    <3>3. i <= buffersize - rp \/ i > buffersize - rp
      BY <2>7
    <3> QED
      BY <3>1, <3>2, <3>3
  <2> QED
    BY <2>1, <2>2, <2>3, <2>6, <2>7, <2>8
<1> QED
  BY <1>1, <1>2

\* A read takes bytes from the front.
LEMMA ReadTakes ==
  ASSUME KindsOK, CountInv, RingInv, NEW f \in Files, Read(f)
  PROVE  Fifo!Take
<1>1. RingOpen /\ UNCHANGED <<buffer, buffersize, wp>>
  BY RingUsed DEF Read, Inside, RingOpen
<1>2. PICK k \in Nat \ {0} : /\ rp' = Wrap(rp + k)
                             /\ rp + k <= IF rp < wp THEN wp ELSE buffersize
  BY ReadMoves
<1>3. rp # wp
  BY ReadMoves
<1>4. RingOpen' /\ k <= Used /\ Used' = Used - k /\ Used \in Nat
  BY <1>1, <1>2, <1>3 DEF RingOpen, Used, Wrap
<1>5. \A i \in 1 .. Used - k : PlaceOf(i)' = PlaceOf(k + i)
  BY <1>1, <1>2, <1>3, <1>4 DEF RingOpen, PlaceOf, Wrap, Used
<1>6. PICK q : q = Queue
  OBVIOUS
<1>7. PICK p : p = Queue'
  OBVIOUS
<1>8. PICK n : n = Used
  OBVIOUS
<1>9. /\ q \in Seq(Nat) /\ Len(q) = n /\ n \in Nat /\ k <= n
      /\ \A i \in 1 .. n : q[i] = PlaceOf(i)
  BY <1>1, <1>4, <1>6, <1>8, QueueElements DEF QueueIsRing
<1>10. /\ p \in Seq(Nat) /\ Len(p) = n - k
       /\ \A i \in 1 .. n - k : p[i] = PlaceOf(i)'
  <2>1. RingOpen' => QueueIsRing'
    BY QueueElements, PTL
  <2> QED
    BY <1>4, <1>7, <1>8, <2>1 DEF QueueIsRing
<1>11. /\ SubSeq(q, k + 1, n) \in Seq(Nat)
       /\ Len(SubSeq(q, k + 1, n)) = n - k
       /\ \A i \in 1 .. n - k : SubSeq(q, k + 1, n)[i] = q[k + i]
  <2>1. \A i \in k + 1 .. n : q[i] \in Nat
    BY <1>9, ElementOfSeq
  <2>2. /\ SubSeq(q, k + 1, n) \in Seq(Nat)
        /\ Len(SubSeq(q, k + 1, n)) =
             IF k + 1 <= n THEN n - (k + 1) + 1 ELSE 0
        /\ \A i \in 1 .. n - (k + 1) + 1 :
             SubSeq(q, k + 1, n)[i] = q[k + 1 + i - 1]
    BY SMTT(20), <1>9, <2>1, SubSeqProperties
  <2>3. /\ k + 1 <= n => n - (k + 1) + 1 = n - k
        /\ ~(k + 1 <= n) => n - k = 0
        /\ n - (k + 1) + 1 = n - k
    BY <1>9
  <2>4. Len(SubSeq(q, k + 1, n)) = n - k
    BY <2>2, <2>3
  <2>5. ASSUME NEW i \in 1 .. n - k PROVE SubSeq(q, k + 1, n)[i] = q[k + i]
    <3>1. i \in 1 .. n - (k + 1) + 1 /\ k + 1 + i - 1 = k + i
      BY <1>9, <2>3
    <3> QED
      BY <2>2, <3>1
  <2> QED
    BY <2>2, <2>4, <2>5
<1>12. p = SubSeq(q, k + 1, n)
  <2>1. ASSUME NEW i \in 1 .. n - k PROVE p[i] = SubSeq(q, k + 1, n)[i]
    <3>1. k + i \in 1 .. n
      BY <1>9
    <3> QED
      BY <1>5, <1>8, <1>9, <1>10, <1>11, <3>1
  <2> QED
    BY <1>10, <1>11, <2>1, SeqEqual
<1>13. k \in 0 .. Len(Queue)
  BY <1>6, <1>9
<1> QED
  BY <1>6, <1>7, <1>9, <1>12, <1>13 DEF Fifo!Take

\* A write appends places that were free, and never so many that the ring
\* looks empty.
LEMMA WritePuts ==
  ASSUME KindsOK, CountInv, RingInv, NEW f \in Files, Write(f)
  PROVE  Fifo!Put /\ ~(Len(Queue') < Len(Queue))
<1>1. RingOpen /\ UNCHANGED <<buffer, buffersize, rp>>
  BY RingUsed DEF Write, Inside, RingOpen
<1>2. PICK k \in Nat \ {0} :
        /\ wp' = Wrap(wp + k)
        /\ wp + k <= IF rp <= wp THEN buffersize ELSE rp - 1
        /\ k <= spacefree(rp, wp)
  BY WriteMoves
<1>3. spacefree(rp, wp) = buffersize - 1 - Used
  <2>1. spacefree(rp, wp) = IF rp <= wp THEN buffersize - 1 - (wp - rp)
                                        ELSE rp - wp - 1
    BY <1>1, SpaceFree DEF RingOpen
  <2> QED
    BY <1>1, <2>1 DEF RingOpen, Used
<1>4. RingOpen' /\ Used' = Used + k /\ Used \in Nat
  BY <1>1, <1>2, <1>3 DEF RingOpen, Used, Wrap
<1>5. \A i \in 1 .. Used + k : PlaceOf(i)' = PlaceOf(i)
  BY <1>1 DEF PlaceOf
<1>6. \A i \in 1 .. k : PlaceOf(Used + i) = wp + i - 1
  BY <1>1, <1>2, <1>3 DEF RingOpen, PlaceOf, Used
<1>7. \A i \in 1 .. Used : PlaceOf(i) < wp \/ PlaceOf(i) >= wp + k
  BY <1>1, <1>2, <1>3 DEF RingOpen, PlaceOf, Used
<1>8. PICK q : q = Queue
  OBVIOUS
<1>9. PICK p : p = Queue'
  OBVIOUS
<1>10. PICK n : n = Used
  OBVIOUS
<1>11. PICK s : s = Span(wp, wp + k)
  OBVIOUS
<1>12. /\ q \in Seq(Nat) /\ Len(q) = n /\ n \in Nat
       /\ \A i \in 1 .. n : q[i] = PlaceOf(i)
  BY <1>1, <1>4, <1>8, <1>10, QueueElements DEF QueueIsRing
<1>13. /\ p \in Seq(Nat) /\ Len(p) = n + k
       /\ \A i \in 1 .. n + k : p[i] = PlaceOf(i)
  <2>1. RingOpen' => QueueIsRing'
    BY QueueElements, PTL
  <2> QED
    BY <1>4, <1>5, <1>9, <1>10, <2>1 DEF QueueIsRing
<1>14. /\ s \in Seq(Nat) /\ Len(s) = k
       /\ \A i \in 1 .. k : s[i] = wp + i - 1
  <2>1. wp \in Nat /\ wp + k \in Nat /\ wp <= wp + k /\ wp + k - wp = k
    BY <1>1 DEF RingOpen
  <2> QED
    <3>1. PICK to \in Nat : to = wp + k
      BY <2>1
    <3>2. /\ Span(wp, to) \in Seq(Nat) /\ Len(Span(wp, to)) = to - wp
          /\ \A i \in 1 .. to - wp : Span(wp, to)[i] = wp + i - 1
      BY <2>1, <3>1, SpanElements
    <3> QED
      BY <1>11, <2>1, <3>1, <3>2
<1>15. p = q \o s
  <2>1. /\ q \o s \in Seq(Nat) /\ Len(q \o s) = n + k
        /\ \A i \in 1 .. n + k :
             (q \o s)[i] = IF i <= n THEN q[i] ELSE s[i - n]
    BY <1>12, <1>14, ConcatProperties
  <2>2. ASSUME NEW i \in 1 .. n + k PROVE p[i] = (q \o s)[i]
    <3>1. CASE i <= n
      BY <1>12, <1>13, <2>1, <3>1
    <3>2. CASE i > n
      <4>1. PICK j : j = i - n
        OBVIOUS
      <4>2. j \in 1 .. k /\ n + j = i /\ ~(i <= n)
        BY <1>12, <3>2, <4>1
      <4>3. p[i] = wp + j - 1
        BY <1>6, <1>10, <1>13, <4>2
      <4>4. (q \o s)[i] = s[j]
        BY <2>1, <4>1, <4>2
      <4> QED
        BY <1>14, <4>2, <4>3, <4>4
    <3>3. i <= n \/ i > n
      BY <1>12
    <3> QED
      BY <3>1, <3>2, <3>3
  <2> QED
    BY <1>13, <2>1, <2>2, SeqEqual
<1>16. wp \in 0 .. MaxOf(BufSizes) /\ wp + k \in wp .. MaxOf(BufSizes)
  BY <1>1, <1>2, MaxOfSizes DEF RingOpen
<1>17. \A a \in wp .. wp + k - 1 : a \notin Fifo!InUse
  BY <1>1, <1>7, <1>8, <1>10, <1>12 DEF Fifo!InUse, RingOpen
<1>18. Span(wp, wp + k) = Fifo!Span(wp, wp + k)
  BY DEF Span, Fifo!Span
<1>19. \E from \in 0 .. MaxOf(BufSizes) :
        \E to \in from .. MaxOf(BufSizes) :
          /\ \A a \in from .. to - 1 : a \notin Fifo!InUse
          /\ p = q \o Fifo!Span(from, to)
  <2>1. PICK to : to = wp + k
    OBVIOUS
  <2>2. /\ wp \in 0 .. MaxOf(BufSizes) /\ to \in wp .. MaxOf(BufSizes)
        /\ \A a \in wp .. to - 1 : a \notin Fifo!InUse
        /\ p = q \o Fifo!Span(wp, to)
    BY <1>11, <1>15, <1>16, <1>17, <1>18, <2>1
  <2> QED
    BY <2>2
<1>20. Fifo!Put
  BY <1>8, <1>9, <1>19 DEF Fifo!Put
<1>21. ~(Len(p) < Len(q))
  BY <1>12, <1>13
<1> QED
  BY <1>8, <1>9, <1>20, <1>21

\* An open and the last release drop what is left in the ring.
LEMMA QueueDropped ==
  ASSUME KindsOK, CountInv, RingInv, Queue' = <<>>
  PROVE  [Fifo!Next]_Queue
<1>1. CASE buffer = 0
  BY <1>1 DEF Queue
<1>2. CASE buffer # 0
  <2>1. RingOpen
    BY <1>2, MaxOfSizes DEF RingOpen, RingInv
  <2>2. PICK n \in Nat : n = Len(Queue)
    BY <2>1, QueueElements DEF QueueIsRing
  <2>3. SubSeq(Queue, n + 1, n) = <<>>
    BY SubSeqEmpty
  <2> QED
    BY <2>2, <2>3 DEF Fifo!Next, Fifo!Take
<1> QED
  BY <1>1, <1>2

LEMMA QueueLength ==
  ASSUME RingInv PROVE ~(Len(Queue) < Len(Queue))
<1>1. Len(Queue) \in Nat
  <2>1. CASE buffer = 0
    BY <2>1 DEF Queue
  <2>2. CASE buffer # 0
    <3>1. RingOpen
      BY <2>2, MaxOfSizes DEF RingOpen, RingInv
    <3> QED
      BY <3>1, QueueElements DEF QueueIsRing
  <2> QED
    BY <2>1, <2>2
<1> QED
  BY <1>1

LEMMA QueueStep ==
  ASSUME CallsOK, KindsOK, CountInv, RingInv, [Next]_vars
  PROVE  /\ [Fifo!Next]_Queue
         /\ Len(Queue') < Len(Queue) => \E f \in Files : Shortens(f)
<1>1. CASE UNCHANGED <<buffer, buffersize, rp, wp>>
  <2>1. Queue' = Queue
    BY <1>1 DEF Queue, Span
  <2> QED
    BY <2>1, QueueLength
<1>2. CASE UNCHANGED vars
  BY <1>1, <1>2 DEF vars, ringVars
<1>3. ASSUME NEW n \in BufSizes, Resize(n) PROVE UNCHANGED ringVars
  BY <1>3 DEF Resize
<1>4. ASSUME NEW f \in Files, Open(f) PROVE Queue' = <<>> /\ Shortens(f)
  <2>1. rp' = 0 /\ wp' = 0
    BY <1>4 DEF Open
  <2>2. Span(0, 0) = <<>>
    <3>1. Span(0, 0) = [i \in 1 .. 0 |-> 0 + i - 1]
      BY DEF Span
    <3>2. Span(0, 0) \in Seq(Nat) /\ Len(Span(0, 0)) = 0 - 0
      BY SpanElements
    <3> QED
      BY <3>2, EmptySeq
  <2>3. Queue' = <<>>
    BY <2>1, <2>2 DEF Queue, Span
  <2> QED
    BY <1>4, <2>3 DEF Open, Shortens
<1>5. ASSUME NEW f \in Files, Release(f)
      PROVE  /\ [Fifo!Next]_Queue
             /\ Len(Queue') < Len(Queue) => Shortens(f)
  <2>1. /\ UNCHANGED <<buffersize, rp, wp>> /\ buffer' \in {0, buffer}
    BY <1>5 DEF Release
  <2>2. CASE buffer' = buffer
    <3>1. UNCHANGED <<buffer, buffersize, rp, wp>>
      BY <2>1, <2>2
    <3>2. Queue' = Queue
      BY <3>1 DEF Queue, Span
    <3> QED
      BY <3>2, QueueLength
  <2>3. CASE buffer' = 0
    <3>1. Queue' = <<>>
      BY <2>3 DEF Queue
    <3> QED
      BY <1>5, <3>1, QueueDropped DEF Release, Shortens
  <2> QED
    BY <2>1, <2>2, <2>3
<1>6. ASSUME NEW f \in Files, FileStep(f),
             ~Open(f), ~Release(f), ~Read(f), ~Write(f)
      PROVE  UNCHANGED <<buffer, buffersize, rp, wp>>
  BY <1>6
  DEF FileStep, OuterStep, Section, CallStep, Call, Fasync, Down, Interrupted,
      Wake, Wait, Peek, Test, FinishStep, FinishWait, WokeStep, Woke,
      OpenFails, Poll, Blocked, Fault, ringVars
<1>7. ASSUME NEW f \in Files, Read(f) PROVE Fifo!Take /\ Shortens(f)
  BY <1>7, ReadTakes DEF Read, Shortens
<1>8. ASSUME NEW f \in Files, Write(f)
      PROVE  Fifo!Put /\ ~(Len(Queue') < Len(Queue))
  BY <1>8, WritePuts
<1>9. ASSUME NEW f \in Files, FileStep(f)
      PROVE  /\ [Fifo!Next]_Queue
             /\ Len(Queue') < Len(Queue) => \E g \in Files : Shortens(g)
  <2>1. CASE Open(f)
    BY <1>4, <2>1, QueueDropped
  <2>2. CASE Release(f)
    BY <1>5, <2>2
  <2>3. CASE Read(f)
    BY <1>7, <2>3 DEF Fifo!Next
  <2>4. CASE Write(f)
    BY <1>8, <2>4 DEF Fifo!Next
  <2> QED
    BY <1>1, <1>6, <1>9, <2>1, <2>2, <2>3, <2>4
<1> QED
  BY <1>1, <1>2, <1>3, <1>9, NextIsStep DEF ringVars

\* The ring is a queue of bytes for every use: a write appends one block of free
\* places, never so many that the ring looks empty, a read takes bytes from the
\* front, and nothing else takes any but an open or the last release.
THEOREM FifoCorrect == Spec => IsFifo
<1> DEFINE Inv == CallsOK /\ KindsOK /\ CountInv /\ RingInv
           Loses == Len(Queue') < Len(Queue) => \E f \in Files : Shortens(f)
<1>1. Init => Fifo!Init
  BY DEF Init, Queue, Fifo!Init
<1>2. Inv /\ [Next]_vars => [Fifo!Next]_Queue
  BY QueueStep
<1>3. Inv /\ [Next]_vars => [Loses]_vars
  BY QueueStep
<1> QED
  BY <1>1, <1>2, <1>3, PipeInvariant, PTL DEF Spec, IsFifo, Fifo!Spec
=============================================================================
