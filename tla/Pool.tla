-------------------------------- MODULE Pool --------------------------------
(***************************************************************************)
(* What an allocator promises: what it hands out overlaps nothing that is  *)
(* still in use, and only what has been given back is handed out again.    *)
(***************************************************************************)
CONSTANT Units   \* the smallest pieces of memory

VARIABLE live    \* the blocks in use, each a set of units

Init == live = {}

Acquire(block) ==
  /\ block \in (SUBSET Units) \ {{}}
  /\ \A other \in live : block \intersect other = {}
  /\ live' = live \union {block}

Release(block) == block \in live /\ live' = live \ {block}

\* Every step hands out or takes back one block.
Next == \E block \in live \union live' : Acquire(block) \/ Release(block)

Spec == Init /\ [][Next]_live
=============================================================================
