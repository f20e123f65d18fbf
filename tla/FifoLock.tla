------------------------------ MODULE FifoLock ------------------------------
(***************************************************************************)
(* What a fair lock promises: those who ask for it line up, only the first *)
(* in the line gets in, and leaving the lock is leaving the line.          *)
(***************************************************************************)
EXTENDS Sequences, Naturals

CONSTANT Threads

VARIABLES
  line,     \* who has asked for the lock and not left it, first come first
  inside    \* the first in the line is inside

Init == line = <<>> /\ inside = FALSE

Ask ==
  \E t \in Threads :
    /\ \A i \in 1 .. Len(line) : line[i] # t
    /\ line' = Append(line, t)
    /\ UNCHANGED inside

Enter ==
  /\ line # <<>> /\ ~inside
  /\ inside' = TRUE
  /\ UNCHANGED line

Leave ==
  /\ inside
  /\ line' = Tail(line)
  /\ inside' = FALSE

Next == Ask \/ Enter \/ Leave

Spec == Init /\ [][Next]_<<line, inside>>
=============================================================================
