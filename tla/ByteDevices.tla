----------------------------- MODULE ByteDevices -----------------------------
(***************************************************************************)
(* Devices that pass bytes on and keep nothing of a caller but its file    *)
(* position: the ISA window of silly.c, the port of short.c, the toggling  *)
(* of /dev/shortint, and /proc/test/buf.                                   *)
(*                                                                         *)
(* A byte written is <<file, number, call>>.  A call is one step: calls    *)
(* share only the memory or the port, without a lock, and nothing that one *)
(* returns depends on what another does in between.  Each file is one      *)
(* minor, and a copy to or from the caller may fail.                       *)
(***************************************************************************)
EXTENDS Integers, Sequences, FiniteSets

CONSTANTS
  BdFiles,
  Minor,      \* of each file, for silly: 0 .. 3 and others that are none
  Window,     \* bytes of ISA memory
  MAX_SIZE,   \* bytes of str
  BdCounts,   \* the counts of the calls
  MaxCalls    \* bound

VARIABLES
  bd_kind,    \* which device
  f_pos,
  memory,     \* the ISA window, or str; <<>> for a zero
  meant,      \* what the calls wrote, in the same places
  lines,      \* the level each file left them at
  bd_calls,
  kbufs,      \* the buffers that were not freed
  bd_read,    \* of /proc/test/buf: what each file has been given, in order
  bd_trouble

byteVars == <<bd_kind, f_pos, memory, meant, lines, bd_calls, kbufs, bd_read,
              bd_trouble>>

EFAULT == 14
Zero == <<>>
MemorySize == IF bd_kind = "silly" THEN Window ELSE MAX_SIZE
If(what, when) == IF when THEN {what} ELSE {}
Trouble(what) == bd_trouble' = bd_trouble \cup what
Counted == bd_calls < MaxCalls /\ bd_calls' = bd_calls + 1

Init ==
  /\ bd_kind \in {"silly", "short", "shortint", "proc_test"}
  /\ f_pos = [f \in BdFiles |-> 0]
  /\ memory = [a \in 0 .. MemorySize - 1 |-> Zero] /\ meant = memory
  /\ lines = [f \in BdFiles |-> 0]
  /\ bd_calls = 0 /\ kbufs = 0 /\ bd_read = [f \in BdFiles |-> <<>>]
  /\ bd_trouble = {}

-----------------------------------------------------------------------------
(* silly *)

\* A call that begins behind the end has its count below zero; being unsigned
\* it is huge, and kmalloc refuses it (-ENOMEM) where 0 was meant to be returned.
Clipped(f, count) ==
  IF f_pos[f] + count > Window THEN Window - f_pos[f] ELSE count

\* Fault: the count need not be a multiple of the access.
Unit_Start(minor, pos, n) ==
  IF minor = 2 /\ pos % 4 = 0 THEN 4
  ELSE IF minor \in {1, 2} /\ pos % 2 = 0 THEN 2 ELSE 1

\* The width of the accesses: misaligned places and odd counts go down.
Unit(minor, pos, n) ==
  IF minor = 2 /\ pos % 4 = 0 /\ n % 4 = 0 THEN 4
  ELSE IF minor \in {1, 2} /\ pos % 2 = 0 /\ n % 2 = 0 THEN 2 ELSE 1

\* Whole accesses, while as much is left
Accessed(f, n) ==
  LET unit == Unit(Minor[f], f_pos[f], n)
  IN  f_pos[f] .. f_pos[f] + unit * (n \div unit) - 1

Elsewhere(f, n) == If("outside", n > 0 /\ f_pos[f] < 0)

\* A failed copy adds its error to the file position; a minor that is none
\* returns without the kfree.
silly_read(f, count, fault) ==
  LET n == Clipped(f, count)
  IN  /\ bd_kind = "silly" /\ n >= 0 /\ Counted
      /\ IF Minor[f] > 3
         THEN /\ kbufs' = kbufs + 1 /\ Trouble({"no such minor"}) /\ UNCHANGED f_pos
         ELSE /\ f_pos' = [f_pos EXCEPT ![f] =
                             IF fault /\ n > 0 THEN @ - EFAULT ELSE @ + n]
              /\ Trouble(If("not all read",
                            Cardinality(Accessed(f, n)) < n)
                         \cup If("moved back", fault /\ n > 0) \cup Elsewhere(f, n))
              /\ UNCHANGED kbufs
      /\ UNCHANGED <<bd_kind, memory, meant, lines, bd_read>>

\* iowrite8 of a word stores the lowest of its bytes.
Stored(f, n) ==
  LET unit == Unit(Minor[f], f_pos[f], n)
  IN  {a \in Accessed(f, n) : (a - f_pos[f]) % unit = 0}

Put(m, f, places) ==
  [a \in DOMAIN m |-> IF a \in places THEN <<f, a - f_pos[f], bd_calls>> ELSE m[a]]

\* Only for who may; a failed copy leaves all as it was.
silly_write(f, count) ==
  LET n == Clipped(f, count)
  IN  /\ bd_kind = "silly" /\ n >= 0 /\ Counted
      /\ IF Minor[f] > 3
         THEN /\ kbufs' = kbufs + 1 /\ Trouble({"no such minor"})
              /\ UNCHANGED <<f_pos, memory, meant>>
         ELSE /\ memory' = Put(memory, f, Stored(f, n))
              /\ meant' = Put(meant, f, f_pos[f] .. f_pos[f] + n - 1)
              /\ f_pos' = [f_pos EXCEPT ![f] = @ + n]
              /\ Trouble(Elsewhere(f, n))
              /\ UNCHANGED kbufs
      /\ UNCHANGED <<bd_kind, lines, bd_read>>

-----------------------------------------------------------------------------
(* short: the port and the toggling lines *)

\* In each of its modes the port gets the bytes one by one; an unknown mode
\* returns -EINVAL and frees its buffer, a failed copy does not.
do_short_write(f) ==
  /\ bd_kind = "short" /\ Counted
  /\ \/ UNCHANGED <<kbufs, bd_trouble>>
     \/ kbufs' = kbufs + 1 /\ Trouble({"copy failed"})
  /\ UNCHANGED <<bd_kind, f_pos, memory, meant, lines, bd_read>>

\* The port is read as often as is asked for.  Nothing is kept, not even the
\* buffer if the copy fails or the mode is unknown.
do_short_read(f) ==
  /\ bd_kind = "short" /\ Counted
  /\ UNCHANGED <<bd_kind, f_pos, memory, meant, lines, kbufs, bd_read, bd_trouble>>

\* Fault: every write begins with a one.
Level_High(pos, k) == k % 2

\* The k-th byte of a write sets all lines or clears them.
Level(pos, k) == (k + (pos % 2)) % 2

\* A file has one writer at a time, which moves the position by what it wrote.
short_i_write(f, count) ==
  /\ bd_kind = "shortint" /\ Counted
  /\ Trouble(If("no change", Level(f_pos[f], 1) = lines[f]))
  /\ lines' = [lines EXCEPT ![f] = Level(f_pos[f], count)]
  /\ f_pos' = [f_pos EXCEPT ![f] = @ + count]
  /\ UNCHANGED <<bd_kind, memory, meant, kbufs, bd_read>>

-----------------------------------------------------------------------------
(* /proc/test/buf *)

\* Wherever the file is, str is written from its start; the position stays.
proc_write(f, count) ==
  LET n == IF count > MAX_SIZE THEN MAX_SIZE ELSE count
  IN  /\ bd_kind = "proc_test" /\ Counted
      /\ memory' = [a \in 0 .. MAX_SIZE - 1 |-> IF a < n THEN <<f, a, bd_calls>> ELSE Zero]
      /\ meant' = memory'
      /\ Trouble(If("written meanwhile", \E g \in BdFiles : bd_read[g] # <<>>))
      /\ UNCHANGED <<bd_kind, f_pos, lines, kbufs, bd_read>>

\* A count above MAX_SIZE gets what is left, below zero a failed copy; a smaller
\* one gets all it asks for.  Either is taken from the start of str.
proc_read(f, count) ==
  LET n == IF count > MAX_SIZE THEN MAX_SIZE - f_pos[f] ELSE count
  IN  /\ bd_kind = "proc_test" /\ Counted
      /\ f_pos' = [f_pos EXCEPT ![f] = IF count > MAX_SIZE THEN MAX_SIZE ELSE @ + count]
      /\ bd_read' = [bd_read EXCEPT ![f] = @ \o [k \in 1 .. n |-> memory[k - 1]]]
      /\ Trouble(If("small count", count <= MAX_SIZE))
      /\ UNCHANGED <<bd_kind, memory, meant, lines, kbufs>>

Next ==
  \E f \in BdFiles :
    \/ \E count \in BdCounts :
         \/ \E fault \in BOOLEAN : silly_read(f, count, fault)
         \/ silly_write(f, count)
         \/ short_i_write(f, count)
         \/ proc_write(f, count) \/ proc_read(f, count)
    \/ do_short_write(f) \/ do_short_read(f)

-----------------------------------------------------------------------------
(* Properties *)

\* A read fills all it returns; memory holds what was last written to it but
\* for the upper bytes of what was written by words, and is touched outside the window only
\* by a file that a failed copy has moved back.
WindowKept ==
  bd_kind = "silly" =>
    /\ "not all read" \notin bd_trouble
    /\ \A a \in DOMAIN memory :
         memory[a] # meant[a] =>
           LET minor == Minor[meant[a][1]]  place == meant[a][2]
           IN  minor \in {1, 2} /\ (place % 2 = 1 \/ (minor = 2 /\ place % 4 = 2))
    /\ "outside" \in bd_trouble => "moved back" \in bd_trouble

\* The lines change with every byte of a file, from one write to the next too.
LinesToggle == "no change" \notin bd_trouble

\* Who reads with enough room gets str once, and then its end.
StrOnce ==
  bd_kind = "proc_test" /\ bd_trouble = {} =>
    \A f \in BdFiles :
      bd_read[f] \in {<<>>, [k \in 1 .. MAX_SIZE |-> memory[k - 1]]}

\* Buffers are freed but after a failed copy of short and a minor silly has not.
BuffersFreed == kbufs > 0 => {"copy failed", "no such minor"} \cap bd_trouble # {}
=============================================================================
