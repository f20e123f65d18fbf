------------------------------ MODULE ScullDev ------------------------------
(***************************************************************************)
(* One scull_dev of Kernel/Driver/scull/main.c: a list of quantum sets     *)
(* under dev->sem, read and written through several files, and the two     *)
(* global parameters that scull_trim copies into the device.  The devices  *)
(* of access.c share all of it but trim without the semaphore.             *)
(*                                                                         *)
(* A stored byte is known by the file position it was written for; a byte  *)
(* of a fresh quantum is Junk.  An array or a quantum that is NULL is the  *)
(* empty sequence.                                                         *)
(***************************************************************************)
EXTENDS Integers, Sequences, FiniteSets

CONSTANTS
  Files,
  Quanta, Qsets,               \* values of scull_quantum and scull_qset
  SCULL_QUANTUM, SCULL_QSET,   \* their defaults
  Counts,                      \* byte counts passed to read() and write()
  MaxSize,                     \* bound: positions stay at or below it
  TrimLocked,                  \* scull_open trims, not scull_u_open or others
  Free                         \* the semaphore is not held

ASSUME DevAssumption ==
  /\ Quanta \subseteq Nat \ {0} /\ Qsets \subseteq Nat \ {0}
  /\ SCULL_QUANTUM \in Quanta /\ SCULL_QSET \in Qsets
  /\ Counts \subseteq Nat \ {0} /\ MaxSize \in Nat
  /\ TrimLocked \in BOOLEAN
  /\ Free \notin Files

VARIABLES
  scull_quantum, scull_qset,       \* globals
  quantum, qset, size, data, sem,  \* the device
  freed,      \* a trim has freed the list and not reset the device yet
  at, f_pos,  \* where each file is, and its position
  geo,        \* quantum and qset as read() or write() loaded them
  req,        \* the bytes a read() or write() is working on
  stained,    \* since the last trim, a write has gone into the list with a
              \* geometry it had loaded before
  dangling    \* files that use memory a trim has freed

globals == <<scull_quantum, scull_qset>>
device == <<quantum, qset, size, data, freed>>
locals == <<f_pos, geo, req>>
vars == <<globals, device, sem, at, locals, stained, dangling>>

Junk == -1
NoGeo == <<0, 0>>
NoReq == [op |-> "none", item |-> 0, slot |-> 0, off |-> 0, n |-> 0]
MinOf(S) == CHOOSE x \in S : \A y \in S : x <= y

Init ==
  /\ scull_quantum = SCULL_QUANTUM /\ scull_qset = SCULL_QSET
  /\ quantum = scull_quantum /\ qset = scull_qset
  /\ size = 0 /\ data = <<>> /\ freed = FALSE
  /\ sem = Free
  /\ at = [f \in Files |-> "closed"]
  /\ f_pos = [f \in Files |-> 0]
  /\ geo = [f \in Files |-> NoGeo]
  /\ req = [f \in Files |-> NoReq]
  /\ stained = FALSE /\ dangling = {}

Go(f, where) == at' = [at EXCEPT ![f] = where]

\* Back to the user; the locals of the call are gone.
Return(f) ==
  /\ Go(f, "user")
  /\ geo' = [geo EXCEPT ![f] = NoGeo]
  /\ req' = [req EXCEPT ![f] = NoReq]

-----------------------------------------------------------------------------
(* open, release, llseek, ioctl *)

\* A write-only open trims the device.
Open(f, wronly) ==
  /\ at[f] = "closed"
  /\ Go(f, IF wronly THEN "trim" ELSE "user")
  /\ f_pos' = [f_pos EXCEPT ![f] = 0]
  /\ UNCHANGED <<globals, device, sem, geo, req, stained, dangling>>

Close(f) ==
  /\ at[f] = "user"
  /\ Go(f, "closed") /\ f_pos' = [f_pos EXCEPT ![f] = 0]
  /\ UNCHANGED <<globals, device, sem, geo, req, stained, dangling>>

\* down_interruptible fails while another holds the semaphore: -ERESTARTSYS
Interrupted(f) ==
  /\ sem \notin {Free, f}
  /\ \/ at[f] = "trim" /\ TrimLocked /\ Go(f, "closed") /\ UNCHANGED locals
     \/ at[f] = "down" /\ Return(f) /\ UNCHANGED f_pos
  /\ UNCHANGED <<globals, device, sem, stained, dangling>>

TrimMayStart == TrimLocked => sem = Free

\* An array of fewer quanta than the trim is about to free
ShortArray == \E i \in 1 .. Len(data) : Len(data[i]) \in 1 .. qset - 1

\* scull_trim walks and frees the list ...
TrimFree(f) ==
  /\ at[f] = "trim" /\ TrimMayStart /\ ~ShortArray
  /\ sem' = IF TrimLocked THEN f ELSE sem
  /\ Go(f, "reset")
  /\ freed' = TRUE
  /\ dangling' = IF data = <<>> THEN dangling
                 ELSE dangling \cup {g \in Files : at[g] = "copy"}
                               \cup (IF freed THEN {f} ELSE {})
  /\ UNCHANGED <<globals, quantum, qset, size, data, locals, stained>>

\* Fault: the list is still found in the device.
TrimmedData_Kept == data

TrimmedData == <<>>

\* ... and then resets the device, to the parameters as they are now.
TrimReset(f) ==
  /\ at[f] = "reset"
  /\ size' = 0 /\ quantum' = scull_quantum /\ qset' = scull_qset
  /\ data' = TrimmedData /\ freed' = FALSE /\ stained' = FALSE
  /\ sem' = IF sem = f THEN Free ELSE sem
  /\ Go(f, "user")
  /\ UNCHANGED <<globals, locals, dangling>>

Seek(f) ==
  /\ at[f] = "user"
  /\ \E p \in 0 .. MaxSize : f_pos' = [f_pos EXCEPT ![f] = p]
  /\ UNCHANGED <<globals, device, sem, at, geo, req, stained, dangling>>

\* SCULL_IOCRESET, and Set, Tell, eXchange or sHift of one parameter: no
\* semaphore.  What the last two load before they store goes to the caller.
TellQuantum == scull_quantum' \in Quanta /\ UNCHANGED scull_qset
TellQset == scull_qset' \in Qsets /\ UNCHANGED scull_quantum
Tell(f) ==
  /\ at[f] = "user"
  /\ \/ scull_quantum' = SCULL_QUANTUM /\ scull_qset' = SCULL_QSET
     \/ TellQuantum
     \/ TellQset
  /\ UNCHANGED <<device, sem, at, locals, stained, dangling>>

-----------------------------------------------------------------------------
(* read and write *)

\* read() and write() begin alike: quantum and qset are loaded, one after the
\* other, before the semaphore is taken.
LoadQuantum(f) ==
  /\ at[f] = "user"
  /\ geo' = [geo EXCEPT ![f] = <<quantum, 0>>]
  /\ Go(f, "load")
  /\ UNCHANGED <<globals, device, sem, f_pos, req, stained, dangling>>

LoadQset(f) ==
  /\ at[f] = "load"
  /\ geo' = [geo EXCEPT ![f] = <<@[1], qset>>]
  /\ Go(f, "down")
  /\ UNCHANGED <<globals, device, sem, f_pos, req, stained, dangling>>

\* Fault: the copy is not cut off at the end of the quantum.
WithinQuantum_Whole(n, q, off) == n

WithinQuantum(n, q, off) == MinOf({n, q - off})

\* A position, split into list item, index into the array, and offset in the
\* quantum, for as many bytes as the quantum has from there
Request(op, p, q, s, n) ==
  LET itemsize == q * s
      rest == p % itemsize
  IN  [op |-> op, item |-> p \div itemsize + 1, slot |-> rest \div q + 1,
       off |-> rest % q, n |-> WithinQuantum(n, q, rest % q)]

\* A read is cut off at the end of the file, and a write at the bound.
Asked(f, op, n) ==
  IF op = "read" THEN MinOf({n, size - f_pos[f]}) ELSE MinOf({n, MaxSize - f_pos[f]})

\* The semaphore is taken; a read gives up at the end.
Locate(f, op) ==
  /\ at[f] = "down" /\ sem = Free
  /\ op = "write" => f_pos[f] < MaxSize
  /\ IF op = "read" /\ f_pos[f] >= size
     THEN Return(f) /\ UNCHANGED sem
     ELSE /\ sem' = f /\ Go(f, "follow") /\ UNCHANGED geo
          /\ \E n \in Counts :
               req' = [req EXCEPT ![f] = Request(op, f_pos[f], geo[f][1],
                                                 geo[f][2], Asked(f, op, n))]
  /\ UNCHANGED <<globals, device, f_pos, stained, dangling>>

\* scull_follow: the list with at least n items, new ones empty
Followed(n) ==
  data \o [k \in 1 .. (IF n > Len(data) THEN n - Len(data) ELSE 0) |-> <<>>]

WithArray(d, i, s) ==
  IF d[i] = <<>> THEN [d EXCEPT ![i] = [k \in 1 .. s |-> <<>>]] ELSE d

\* Fault: the quantum is allocated on every write.
WithQuantum_Fresh(d, i, j, q) ==
  [d EXCEPT ![i][j] = [k \in 1 .. q |-> Junk]]

WithQuantum(d, i, j, q) ==
  IF d[i][j] = <<>> THEN [d EXCEPT ![i][j] = [k \in 1 .. q |-> Junk]] ELSE d

Hole(d, r) == d[r.item] = <<>> \/ d[r.item][r.slot] = <<>>

\* The call works with quantum and qset as they are in the device.
Current(f) == geo[f] = <<quantum, qset>>

\* The array of its item is too short for the slot, and the quantum for the
\* bytes; both have the sizes they were made with.
BeyondArray(r) ==
  /\ r.item \in 1 .. Len(data)
  /\ data[r.item] # <<>> /\ r.slot > Len(data[r.item])

BeyondQuantum(r) == r.off + r.n > Len(data[r.item][r.slot])

FollowStart(f, op) ==
  /\ at[f] = "follow" /\ req[f].op = op /\ ~BeyondArray(req[f])
  /\ dangling' = IF freed /\ data # <<>> THEN dangling \cup {f} ELSE dangling
  /\ UNCHANGED <<globals, quantum, qset, size, freed, f_pos>>

\* read() finds its quantum, or a hole ("don't fill holes").  scull_follow has
\* items to add below the size only if the geometry has changed; any of its
\* allocations may fail.
FollowRead(f) ==
  LET r == req[f]
      list == Followed(r.item)
  IN
  /\ FollowStart(f, "read")
  /\ \/ /\ data' = list
        /\ IF Hole(list, r) THEN Return(f) /\ sem' = Free
                            ELSE Go(f, "copy") /\ UNCHANGED <<geo, req, sem>>
     \/ /\ \E n \in Len(data) .. r.item - 1 : data' = Followed(n)
        /\ Return(f) /\ sem' = Free
  /\ UNCHANGED stained

\* write() allocates what is missing; each kmalloc may fail, and what has
\* been allocated before it stays.
FollowWrite(f) ==
  LET r == req[f]
      list == Followed(r.item)
      array == WithArray(list, r.item, geo[f][2])
      whole == WithQuantum(array, r.item, r.slot, geo[f][1])
  IN
  /\ FollowStart(f, "write")
  /\ \/ data' = whole /\ Go(f, "copy") /\ UNCHANGED <<geo, req, sem>>
     \/ /\ \/ \E n \in Len(data) .. r.item - 1 : data' = Followed(n)
           \/ list[r.item] = <<>> /\ data' = list
           \/ array[r.item][r.slot] = <<>> /\ data' = array
        /\ Return(f) /\ sem' = Free
  /\ stained' = (stained \/ ~Current(f))

CopyRead(f) ==
  /\ at[f] = "copy" /\ req[f].op = "read" /\ ~BeyondQuantum(req[f])
  /\ f_pos' = [f_pos EXCEPT ![f] = @ + req[f].n]
  /\ Return(f) /\ sem' = Free
  /\ UNCHANGED <<globals, device, stained, dangling>>

NewSize(p) == IF size < p THEN p ELSE size

CopyWrite(f) ==
  LET r == req[f] IN
  /\ at[f] = "copy" /\ r.op = "write" /\ ~BeyondQuantum(r)
  /\ f_pos' = [f_pos EXCEPT ![f] = @ + r.n]
  /\ data' = [data EXCEPT ![r.item][r.slot] =
                [k \in DOMAIN @ |->
                   IF k \in r.off + 1 .. r.off + r.n
                   THEN f_pos[f] + k - r.off - 1 ELSE @[k]]]
  /\ size' = NewSize(f_pos[f] + r.n)
  /\ Return(f) /\ sem' = Free
  /\ UNCHANGED <<globals, quantum, qset, freed, stained, dangling>>

\* copy_to_user or copy_from_user fails: -EFAULT
CopyFails(f) ==
  /\ at[f] = "copy"
  /\ Return(f) /\ sem' = Free
  /\ UNCHANGED <<globals, device, f_pos, stained, dangling>>

\* A call or a trim goes past the end of an array or a quantum, and what it
\* finds or overwrites there is no memory of the list.
Stray(f) ==
  /\ \/ at[f] = "follow" /\ BeyondArray(req[f]) /\ UNCHANGED sem
     \/ at[f] = "copy" /\ BeyondQuantum(req[f]) /\ UNCHANGED sem
     \/ at[f] = "trim" /\ TrimMayStart /\ ShortArray /\ sem' = f
  /\ Go(f, "astray")
  /\ UNCHANGED <<globals, device, locals, stained, dangling>>

-----------------------------------------------------------------------------
Step(f) ==
  \/ \E wronly \in BOOLEAN : Open(f, wronly)
  \/ Close(f) \/ Interrupted(f) \/ TrimFree(f) \/ TrimReset(f) \/ Seek(f)
  \/ Tell(f)
  \/ LoadQuantum(f) \/ LoadQset(f)
  \/ \E op \in {"read", "write"} : Locate(f, op)
  \/ FollowRead(f) \/ FollowWrite(f)
  \/ CopyRead(f) \/ CopyWrite(f) \/ CopyFails(f) \/ Stray(f)

\* What follows is undefined: nothing is said of it.
Astray == \E f \in Files : at[f] = "astray"

Next ==
  \/ ~Astray /\ \E f \in Files : Step(f)
  \/ Astray /\ UNCHANGED vars

Spec == Init /\ [][Next]_vars

-----------------------------------------------------------------------------
(* Properties *)

Places == {"closed", "user", "trim", "reset", "load", "down",
           "follow", "copy", "astray"}

\* Every variable stays in its type, and the position of a file in the file.
TypeOK ==
  /\ scull_quantum \in Quanta /\ scull_qset \in Qsets
  /\ quantum \in Quanta /\ qset \in Qsets
  /\ size \in 0 .. MaxSize
  /\ data \in Seq(Seq(Seq(Int)))
  /\ freed \in BOOLEAN
  /\ sem \in Files \cup {Free}
  /\ at \in [Files -> Places]
  /\ f_pos \in [Files -> 0 .. MaxSize]
  /\ geo \in [Files -> (Quanta \cup {0}) \X (Qsets \cup {0})]
  /\ \A f \in Files : req[f].n >= 0 /\ req[f].off >= 0
  /\ stained \in BOOLEAN /\ dangling \subseteq Files

Slots == {s \in (1 .. Len(data)) \X (1 .. qset) : s[2] <= Len(data[s[1]])}
Stored == {b \in 0 .. MaxSize :
             \E s \in Slots : \E k \in DOMAIN data[s[1]][s[2]] :
               data[s[1]][s[2]][k] = b}

\* "The current quantum size", "the current array size" (scull.h, struct
\* scull_dev): every array and every quantum in the list has the size the
\* device records, which scull_trim relies on when it frees them and read()
\* when it stops at the end of a quantum.
GeometryMatches ==
  ~freed => \A i \in 1 .. Len(data) :
    /\ Len(data[i]) \in {0, qset}
    /\ \A j \in 1 .. Len(data[i]) : Len(data[i][j]) \in {0, quantum}

\* They have, whenever the parameters change and trims come, unless a write
\* that had loaded its geometry before the last trim has gone into the list.
GeometryKept == stained \/ GeometryMatches

\* A copy stays inside its quantum ("up to the end of this quantum", lines
\* 331 and 380), which holds the bytes of the file's position: what is read
\* at a position is what was last written there.  A call with an old geometry
\* looks elsewhere, and after its write so does everybody.
CopiesRightBytes ==
  \A f \in Files :
    at[f] = "copy" /\ f \notin dangling /\ Current(f) /\ ~stained =>
    LET bytes == data[req[f].item][req[f].slot] IN
    \A k \in 1 .. req[f].n :
      /\ req[f].off + k \in DOMAIN bytes
      /\ bytes[req[f].off + k] \in {Junk, f_pos[f] + k - 1}

\* Nobody leaves the arrays and quanta but a call with an old geometry, or who
\* comes after one that has written.
StraysIfStale ==
  \A f \in Files : at[f] = "astray" => stained \/ (req[f].op # "none" /\ ~Current(f))

\* The size is one past the farthest byte stored, through failed and partial
\* writes, seeks past the end, and trims.
SizeIsEnd ==
  ~freed /\ ~stained => /\ \A b \in Stored : b < size
                        /\ size > 0 => size - 1 \in Stored

\* Bytes are read where they were written, and end where the size says,
\* whatever part of a write has failed.
BytesInPlace == TypeOK /\ CopiesRightBytes /\ SizeIsEnd /\ StraysIfStale

\* A byte once stored is lost by a trim only, or to a write with an old
\* geometry.
KeepsBytes == [][Stored \subseteq Stored' \/ data' = <<>> \/ stained']_vars

\* scull_trim "must be called with the device semaphore held" (line 59):
\* nobody uses a list or a quantum another has freed.
NoUseAfterFree == dangling = {}
=============================================================================
