------------------------------ MODULE SimpleMap ------------------------------
(***************************************************************************)
(* The two devices of ldd3-master/simple/simple.c that map physical memory *)
(* into a process: simpler maps all of it at once, simplen page by page as *)
(* it is touched.                                                          *)
(*                                                                         *)
(* The kernel splits a mapping when part of it is unmapped, copies it when *)
(* its process forks, and gives pages and their references back.  It calls *)
(* open for each new mapping, and moves vm_pgoff with its start.           *)
(***************************************************************************)
EXTENDS Integers, FiniteSets

CONSTANTS
  Frames,      \* page frames of the machine
  Ram,         \* those with a struct page
  MaxMaps      \* bound: mappings

VARIABLES
  maps,        \* a set of mappings: kind, number, start, end, vm_pgoff, pages
  refs,        \* of each frame: references taken through mappings
  mapped       \* how many were made

mapVars == <<maps, refs, mapped>>

Addresses == 0 .. 2

Init == maps = {} /\ refs = [p \in Frames |-> 0] /\ mapped = 0

Pages(vma) == DOMAIN vma.at

\* Fault: the offset of the mapping is left out.
FrameOf_Start(vma, address) == address - vma.start

\* "virtual_address - vm_start + offset", in pages
FrameOf(vma, address) == vma.pgoff + address - vma.start

New(kind, start, end, pgoff) ==
  [kind |-> kind, id |-> mapped, start |-> start, end |-> end, pgoff |-> pgoff,
   at |-> <<>>]

\* remap_pfn_range maps every frame there and then, with or without a page, and
\* takes no references.
simple_remap_mmap(start, end, pgoff) ==
  LET vma == New("simpler", start, end, pgoff)
  IN  /\ mapped < MaxMaps /\ mapped' = mapped + 1
      /\ \A a \in start .. end : FrameOf(vma, a) \in Frames
      /\ maps' = maps \cup {[vma EXCEPT !.at = [a \in start .. end |-> pgoff + a - start]]}
      /\ UNCHANGED refs

simple_nopage_mmap(start, end, pgoff) ==
  /\ mapped < MaxMaps /\ mapped' = mapped + 1
  /\ maps' = maps \cup {New("simplen", start, end, pgoff)}
  /\ UNCHANGED refs

Become(vma, new, counts) ==
  /\ maps' = (maps \ {vma}) \cup new
  /\ refs' = counts

\* A frame without a page brings SIGBUS, and nothing changes.
simple_vma_nopage(vma, address) ==
  LET frame == FrameOf(vma, address)
  IN  /\ vma.kind = "simplen" /\ address \in vma.start .. vma.end \ Pages(vma)
      /\ frame \in Ram
      /\ Become(vma, {[vma EXCEPT !.at = [a \in Pages(vma) \cup {address} |->
                                            IF a = address THEN frame ELSE vma.at[a]]]},
                [refs EXCEPT ![frame] = @ + 1])
      /\ UNCHANGED mapped

-----------------------------------------------------------------------------
(* The kernel *)

Recount(vma, by) ==
  [p \in Frames |->
     refs[p] + by * (IF vma.kind = "simplen"
                     THEN Cardinality({a \in Pages(vma) : vma.at[a] = p}) ELSE 0)]

Part(vma, id, start, end) ==
  [vma EXCEPT !.id = id, !.start = start, !.end = end, !.pgoff = @ + start - vma.start,
              !.at = [a \in Pages(vma) \cap (start .. end) |-> vma.at[a]]]

\* fork: simple_vma_open only prints.
simple_vma_open(vma) ==
  /\ mapped < MaxMaps /\ mapped' = mapped + 1
  /\ maps' = maps \cup {[vma EXCEPT !.id = mapped]}
  /\ refs' = Recount(vma, 1)

\* munmap of a whole mapping
simple_vma_close(vma) == Become(vma, {}, Recount(vma, -1)) /\ UNCHANGED mapped

\* munmap of its first page
Split(vma) ==
  /\ vma.start < vma.end
  /\ Become(vma, {Part(vma, vma.id, vma.start + 1, vma.end)},
            Recount(Part(vma, vma.id, vma.start, vma.start), -1))
  /\ UNCHANGED mapped

Next ==
  \/ \E start, end \in Addresses, pgoff \in Frames :
       /\ start < end
       /\ simple_remap_mmap(start, end, pgoff) \/ simple_nopage_mmap(start, end, pgoff)
  \/ \E vma \in maps :
       \/ \E address \in Addresses : simple_vma_nopage(vma, address)
       \/ simple_vma_open(vma) \/ simple_vma_close(vma) \/ Split(vma)

-----------------------------------------------------------------------------
(* Properties *)

\* Whichever device, and whatever was split or copied, an address shows the
\* frame at its distance from the start of the mapping that was made, and each
\* page that was faulted in is counted until it is unmapped.
FramesMapped ==
  /\ \A vma \in maps, a \in Addresses :
       a \in Pages(vma) => vma.at[a] = vma.pgoff + a - vma.start
  /\ \A vma \in maps : vma.kind = "simplen" => \A a \in Pages(vma) : vma.at[a] \in Ram
  /\ \A p \in Frames :
       refs[p] = Cardinality({x \in maps \X Addresses :
                                /\ x[1].kind = "simplen" /\ x[2] \in Pages(x[1])
                                /\ x[1].at[x[2]] = p})
=============================================================================
