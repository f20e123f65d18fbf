------------------------------ MODULE ByteFifo ------------------------------
(***************************************************************************)
(* What a single-producer single-consumer byte ring promises: a block is a *)
(* contiguous range of free addresses, blocks join the queue one after the *)
(* other, and the consumer takes them from the front.                      *)
(***************************************************************************)
EXTENDS Naturals, Sequences

CONSTANT Capacity

VARIABLE fifo   \* addresses handed out and not released, oldest first

\* The addresses from, from+1, ..., to-1, in order.
Span(from, to) ==
  [i \in 1 .. (IF from < to THEN to - from ELSE 0) |-> from + i - 1]

InUse == {fifo[i] : i \in 1 .. Len(fifo)}

Init == fifo = <<>>

Put ==
  \E from \in 0 .. Capacity : \E to \in from .. Capacity :
    /\ \A a \in from .. to - 1 : a \notin InUse
    /\ fifo' = fifo \o Span(from, to)

Take ==
  \E n \in 0 .. Len(fifo) : fifo' = SubSeq(fifo, n + 1, Len(fifo))

Next == Put \/ Take

Spec == Init /\ [][Next]_fifo
=============================================================================
