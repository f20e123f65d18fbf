----------------------------- MODULE ScullItems -----------------------------
(***************************************************************************)
(* The memory devices of ldd3-master that have allocators of their own:    *)
(* scullp (whole pages), scullv (vmalloc), sculld (scullp as a device of   *)
(* the lddbus) and scullc (a cache of objects).  Their text is the same    *)
(* but for the allocator, and all but scullc can be mapped: what they      *)
(* share is written once, from scullp, and what each does its own way      *)
(* carries its name.                                                       *)
(*                                                                         *)
(* Memory is counted in pages.  A quantum is unit pages long, "PAGE_SIZE   *)
(* << order" (in scullc any size); an item is an array of qset quanta.  A  *)
(* page holds the position that was written to it, Zero or Junk.  The      *)
(* mutex is held from its lock to its unlock, which is one step here.      *)
(***************************************************************************)
EXTENDS Integers, FiniteSets, Sequences, FiniteSetsExt

CONSTANTS
  Procs,    \* processes that have the device open
  Units,    \* sizes of a quantum, in pages
  Default,  \* of each driver: the parameters it begins with
  Qsets,    \* lengths of an item
  Starts,   \* the reads and writes made: operation, offset and whence of the
            \* seek before it, segments
  MaxCalls  \* bound: calls made

VARIABLES
  kind,     \* the driver
  param,    \* scullp_order and scullp_qset, for devices trimmed from now on
  dev,      \* [size, unit, qset; arrays: lengths of the items' arrays, 0 for
            \*  none; quanta: what is allocated]
  cache,    \* size of scullc_cache's objects, 0 before it is created
  vmas,     \* dev->vmas
  vma,      \* of each process: the state of its mapping
  reg,      \* of each process: the count it is about to store
  pte,      \* of each process: pages it has mapped
  call,     \* of each process: its call
  calls,    \* calls made
  it_trouble

itemVars == <<kind, param, dev, cache, vmas, vma, reg, pte, call, calls, it_trouble>>

Zero == -1
Junk == -2
Error == -14
NoCall == [op |-> "none"]
Empty(p) == [size |-> 0, unit |-> p.unit, qset |-> p.qset, arrays |-> <<0>>, quanta |-> <<>>]
If(what, when) == IF when THEN {what} ELSE {}
Trouble(set) == it_trouble' = it_trouble \cup set

Init ==
  /\ kind \in {"scullc", "scullp", "sculld", "scullv"}
  /\ param = Default[kind]
  /\ dev = Empty(param) /\ cache = 0
  /\ vmas = 0 /\ vma = [p \in Procs |-> "none"] /\ reg = [p \in Procs |-> 0]
  /\ pte = [p \in Procs |-> {}]
  /\ call = [p \in Procs |-> NoCall]
  /\ calls = 0
  /\ it_trouble = {}

-----------------------------------------------------------------------------
(* The list *)

\* Where a position is: item, slot and page of the quantum
Place(pos, unit, qset) ==
  [item |-> pos \div (unit * qset), slot |-> (pos % (unit * qset)) \div unit,
   page |-> pos % unit]

\* scullp_follow: items are added as they are passed, with order 0 and qset 0.
Follow(arrays, item) ==
  [n \in 1 .. Max({item + 1, Len(arrays)}) |-> IF n \in DOMAIN arrays THEN arrays[n] ELSE 0]

\* Pages __get_free_pages and vmalloc return for the item's order
PagesOf(item) == IF item = 0 THEN dev.unit ELSE 1

\* kmem_cache_alloc returns an object of the cache, and the memset is as long
\* as the quantum the module has now.
Allocated(item) == IF kind = "scullc" THEN cache ELSE PagesOf(item)
Cleared(item) == IF kind = "scullc" THEN param.unit ELSE PagesOf(item)

NewQuantum(item) ==
  [n \in 0 .. Allocated(item) - 1 |-> IF n < Cleared(item) THEN Zero ELSE Junk]

\* A copy ends with its quantum.
InQuantum(count, unit, page) == Min({count, unit - page})

\* Why a copy may miss its quantum
Causes(c, at) ==
  If("stale", c.unit # dev.unit \/ c.qset # dev.qset)
    \cup If("later item", kind # "scullc" /\ at.item > 0 /\ dev.unit > 1)
    \cup If("other quantum", kind = "scullc" /\ {param.unit, dev.unit, cache} # {cache})

Held(at) == <<at.item, at.slot>> \in DOMAIN dev.quanta
Array(arrays, at) == arrays[at.item + 1]

-----------------------------------------------------------------------------
(* Calls *)

\* The body of a call is done: count is what it returns.
Returned(p, c, count) ==
  LET done == [c EXCEPT !.pos = IF count > 0 THEN @ + count ELSE @,
                        !.segs = @ - 1, !.sum = @ + count]
  IN  call' = [call EXCEPT ![p] =
                 [done EXCEPT !.at = IF c.segs > 1 THEN "entry" ELSE "end"]]

Loaded(c) == [c EXCEPT !.at = "body", !.unit = dev.unit, !.qset = dev.qset]

\* Where llseek moves a file that is at 0: a position that would be negative
\* is refused, and the size is read without the mutex.
Llseek(off, whence) == (IF whence = "SEEK_END" THEN dev.size ELSE 0) + off

\* A read or a write of two pages through a file that has just been opened and
\* moved, or an asynchronous one of that for each segment.  Quantum and qset
\* are loaded before the mutex is taken.
Start(p, op, pos, segs) ==
  /\ pos >= 0
  /\ call[p] = NoCall /\ vma[p] \in {"none", "mapped"}
  /\ calls < MaxCalls /\ calls' = calls + 1
  /\ kind = "sculld" => segs = 1
  /\ call' = [call EXCEPT ![p] = Loaded(
       [op |-> op, pos |-> pos, count |-> 2, segs |-> segs, sum |-> 0, at |-> "entry",
        unit |-> 0, qset |-> 0])]
  /\ UNCHANGED <<kind, param, dev, cache, vmas, vma, reg, pte, it_trouble>>

\* The second segment
Enter(p) ==
  /\ call[p] # NoCall /\ call[p].at = "entry"
  /\ call' = [call EXCEPT ![p] = Loaded(@)]
  /\ UNCHANGED <<kind, param, dev, cache, vmas, vma, reg, pte, calls, it_trouble>>

InBody(p, op) == call[p] # NoCall /\ call[p].at = "body" /\ call[p].op = op

\* scullp_follow when the kernel has no memory for an item it has to add: the
\* null pointer is cleared as if it were one, and the process dies with the
\* mutex held.
FollowFails(p) ==
  LET c == call[p] IN
  /\ InBody(p, "write") \/ (InBody(p, "read") /\ c.pos <= dev.size)
  /\ \E item \in Len(dev.arrays) .. Place(c.pos, c.unit, c.qset).item :
       dev' = [dev EXCEPT !.arrays = Follow(@, item - 1)]
  /\ Trouble({"null item"})
  /\ UNCHANGED <<kind, param, cache, vmas, vma, reg, pte, call, calls>>

\* scullp_read: the copy to the user may fail.
Read(p, ends) ==
  LET c == call[p]
      at == Place(c.pos, c.unit, c.qset)
      within == Min({c.count, dev.size - c.pos})
      arrays == Follow(dev.arrays, at.item)
      count == InQuantum(within, c.unit, at.page)
      block == dev.quanta[<<at.item, at.slot>>]
      range == {n \in at.page .. at.page + count - 1 : n \in DOMAIN block}
  IN  /\ InBody(p, "read")
      /\ ends = "fault" => count > 0
      /\ IF c.pos > dev.size
         THEN Returned(p, c, 0) /\ UNCHANGED <<dev, it_trouble>>
         ELSE /\ dev' = [dev EXCEPT !.arrays = arrays]
              /\ IF Array(arrays, at) = 0 \/ (at.slot < Array(arrays, at) /\ ~Held(at))
                 THEN Returned(p, c, 0) /\ UNCHANGED it_trouble
                 ELSE /\ Returned(p, c, IF ends = "done" THEN count ELSE Error)
                      /\ Trouble(Causes(c, at)
                           \cup If("overrun", at.slot >= Array(arrays, at))
                           \cup IF Held(at) /\ ends = "done"
                                THEN If("overrun", Cardinality(range) < count)
                                       \cup If("uncleared", \E n \in range : block[n] = Junk)
                                       \cup If("wrong page", \E n \in range :
                                              block[n] >= 0 /\ block[n] # c.pos + n - at.page)
                                ELSE {})
      /\ UNCHANGED <<kind, param, cache, vmas, vma, reg, pte, calls>>

\* scullp_write: the allocation of the array, that of the quantum, or the copy
\* may fail, with the list, the array and the quantum left as they are by then.
Write(p, ends) ==
  LET c == call[p]
      at == Place(c.pos, c.unit, c.qset)
      listed == Follow(dev.arrays, at.item)
      arrays == IF Array(listed, at) = 0
                THEN [listed EXCEPT ![at.item + 1] = c.qset] ELSE listed
      quanta == IF Held(at) THEN dev.quanta
                ELSE [k \in DOMAIN dev.quanta \cup {<<at.item, at.slot>>} |->
                        IF k \in DOMAIN dev.quanta THEN dev.quanta[k] ELSE NewQuantum(at.item)]
      block == quanta[<<at.item, at.slot>>]
      count == InQuantum(c.count, c.unit, at.page)
      copied == at.page .. at.page + count - 1
      inside == at.slot < Array(arrays, at)
  IN  /\ InBody(p, "write")
      /\ ends = "no array" => Array(listed, at) = 0
      /\ ends = "no quantum" => ~Held(at)
      /\ dev' = CASE ends = "no array" -> [dev EXCEPT !.arrays = listed]
                  [] ends = "no quantum" -> [dev EXCEPT !.arrays = arrays]
                  [] ends = "fault" -> [dev EXCEPT !.arrays = arrays, !.quanta = quanta]
                  [] OTHER -> [dev EXCEPT
                       !.arrays = arrays,
                       !.quanta = [quanta EXCEPT ![<<at.item, at.slot>>] =
                                     [n \in DOMAIN @ |-> IF n \in copied
                                                         THEN c.pos + n - at.page ELSE @[n]]],
                       !.size = IF @ < c.pos + count THEN c.pos + count ELSE @]
      /\ Returned(p, c, IF ends = "done" THEN count ELSE Error)
      /\ Trouble(Causes(c, at)
           \cup If("overrun", \/ ~inside
                              \/ ends \in {"fault", "done"} /\ ~Held(at)
                                   /\ Cleared(at.item) > Allocated(at.item)
                              \/ ends = "done" /\ ~(copied \subseteq DOMAIN block))
           \cup If("no cache", /\ kind = "scullc" /\ cache = 0 /\ ~Held(at)
                               /\ ends # "no array"))
      /\ UNCHANGED <<kind, param, cache, vmas, vma, reg, pte, calls>>

\* The call returns, or scullp_defer_op has aio_complete called a little later
\* with what the segments returned, added up, errors as well.
Defer(p) ==
  /\ call[p] # NoCall /\ call[p].at = "end"
  /\ call' = [call EXCEPT ![p] = NoCall]
  /\ Trouble(If("errors added", call[p].sum < 0 /\ call[p].sum # Error))
  /\ UNCHANGED <<kind, param, dev, cache, vmas, vma, reg, pte, calls>>

-----------------------------------------------------------------------------
(* Trim and parameters *)

\* Fault: mapped devices are trimmed as well.
MayTrim_Always(n) == TRUE

\* "don't trim: there are active mappings"
MayTrim(n) == n = 0

\* scullp_trim.  An array shorter than dev->qset is read behind its end, and of
\* a longer one the rest is lost.
Trim ==
  IF MayTrim(vmas)
  THEN /\ dev' = Empty(param)
       /\ Trouble(If("overrun", \E n \in DOMAIN dev.arrays : dev.arrays[n] \in 1 .. dev.qset - 1)
                    \cup If("lost", \E k \in DOMAIN dev.quanta : k[2] >= dev.qset)
                    \cup If("freed under a mapping", \E q \in Procs : pte[q] # {})
                    \cup If("trimmed meanwhile",
                           \E q \in Procs : vma[q] \in {"checked", "opening"}))
  ELSE UNCHANGED <<dev, it_trouble>>

\* scullp_open of a file opened for writing, which trims the device under its
\* mutex and ignores the error
Open(p) ==
  /\ call[p] = NoCall /\ calls < MaxCalls /\ calls' = calls + 1
  /\ UNCHANGED <<kind, param, cache, vmas, vma, reg, pte, call>>

\* scullp_ioctl: IOCRESET, and the commands that set a parameter, or change it
\* for the old value
Ioctl(p, new) ==
  /\ call[p] = NoCall /\ calls < MaxCalls /\ calls' = calls + 1
  /\ new # param /\ (new.unit = param.unit \/ new.qset = param.qset)
  /\ param' = new
  /\ UNCHANGED <<kind, dev, cache, vmas, vma, reg, pte, call, it_trouble>>

\* scullc_init: the cache is created when the devices are there already.
CreateCache ==
  /\ kind = "scullc" /\ cache = 0
  /\ cache' = param.unit
  /\ UNCHANGED <<kind, param, dev, vmas, vma, reg, pte, call, calls, it_trouble>>

-----------------------------------------------------------------------------
(* Mappings *)

Step(p, from, to) == vma[p] = from /\ vma' = [vma EXCEPT ![p] = to]
Others(p) == {q \in Procs \ {p} : vma[q] \in {"opening", "closing"}}

\* scullp_mmap: the order is looked at, in scullv it is not.
Mmap(p) ==
  /\ call[p] = NoCall /\ calls < MaxCalls /\ calls' = calls + 1
  /\ kind = "scullv" \/ (kind # "scullc" /\ dev.unit = 1)
  /\ Step(p, "none", "checked")
  /\ UNCHANGED <<kind, param, dev, cache, vmas, reg, pte, call, it_trouble>>

\* scullp_vma_open and scullp_vma_close load the count, and store it: they hold
\* no lock of the device.
Load(p, from, to, n) ==
  /\ call[p] = NoCall
  /\ Step(p, from, to)
  /\ reg' = [reg EXCEPT ![p] = vmas + n]
  /\ Trouble(If("raced", Others(p) # {}))
  /\ UNCHANGED <<kind, param, dev, cache, vmas, pte, call, calls>>

Store(p, from, to) ==
  /\ Step(p, from, to)
  /\ vmas' = reg[p]
  /\ UNCHANGED <<kind, param, dev, cache, reg, pte, call, calls, it_trouble>>

VmaOpen(p) == Load(p, "checked", "opening", 1) \/ Store(p, "opening", "mapped")

\* The pages are unmapped first.
VmaClose(p) ==
  \/ pte[p] = {} /\ Load(p, "mapped", "closing", -1)
  \/ Store(p, "closing", "none")

\* munmap and exit
Unmap(p) ==
  /\ vma[p] = "mapped" /\ call[p] = NoCall /\ pte[p] # {}
  /\ pte' = [pte EXCEPT ![p] = {}]
  /\ UNCHANGED <<kind, param, dev, cache, vmas, vma, reg, call, calls, it_trouble>>

\* fork copies a mapping, and the kernel calls vma_open.
Fork(p, child) ==
  /\ vma[p] = "mapped" /\ call[p] = NoCall
  /\ call[child] = NoCall /\ calls < MaxCalls /\ calls' = calls + 1
  /\ Step(child, "none", "checked")
  /\ UNCHANGED <<kind, param, dev, cache, vmas, reg, pte, call, it_trouble>>

\* scullp_vma_nopage: the page is looked for as if a quantum were a page.  A
\* page beyond the size, or in a hole, is answered with none.
Touches(p, pos) == vma[p] = "mapped" /\ call[p] = NoCall /\ pos \notin pte[p]

Finds(pos, at) ==
  /\ pos < dev.size
  /\ at.item < Len(dev.arrays) /\ dev.arrays[at.item + 1] > at.slot /\ Held(at)

Nopage(p, pos) ==
  LET at == Place(pos, 1, dev.qset)
      right == Place(pos, dev.unit, dev.qset)
  IN  /\ Touches(p, pos)
      /\ pte' = [pte EXCEPT ![p] = IF Finds(pos, at) THEN @ \cup {pos} ELSE @]
      /\ Trouble(If("large quanta", dev.unit > 1)
           \cup If("wrong mapping", /\ Finds(pos, at)
                                    /\ <<at.item, at.slot, 0>>
                                         # <<right.item, right.slot, right.page>>))
      /\ UNCHANGED <<kind, param, dev, cache, vmas, vma, reg, call, calls>>

\* In sculld the address that is found is never made a page: get_page follows
\* NOPAGE_SIGBUS, which is NULL, and the process dies with the semaphore held.
NopageOfNull(p, pos) ==
  /\ Touches(p, pos) /\ Finds(pos, Place(pos, 1, dev.qset))
  /\ Trouble({"null page"})
  /\ UNCHANGED <<kind, param, dev, cache, vmas, vma, reg, pte, call, calls>>

-----------------------------------------------------------------------------
(* The drivers *)

ReadEnds == {"done", "fault"}
Ends == ReadEnds \cup {"no array", "no quantum"}
Params == [unit : Units, qset : Qsets]
Pages == 0 .. 1
Seeks(p) == \E c \in Starts : c[4] = 1 /\ Start(p, c[1], Llseek(c[2], c[3]), 1)
Submits(p) == \E c \in Starts : c[3] = "SEEK_SET" /\ Start(p, c[1], c[2], c[4])

scullp_llseek(p) == kind = "scullp" /\ Seeks(p)
scullp_aio(p) == kind = "scullp" /\ Submits(p)
scullp_follow(p) == kind = "scullp" /\ FollowFails(p)
scullp_read(p) == kind = "scullp" /\ \E ends \in ReadEnds : Read(p, ends)
scullp_write(p) == kind = "scullp" /\ \E ends \in Ends : Write(p, ends)
scullp_defer_op(p) == kind = "scullp" /\ (Enter(p) \/ Defer(p))
scullp_trim == kind = "scullp" /\ Trim
scullp_open(p) == Open(p) /\ scullp_trim
scullp_ioctl(p) == kind = "scullp" /\ \E new \in Params : Ioctl(p, new)
scullp_mmap(p) == kind = "scullp" /\ Mmap(p)
scullp_vma_open(p) == kind = "scullp" /\ VmaOpen(p)
scullp_vma_close(p) == kind = "scullp" /\ VmaClose(p)
scullp_vma_nopage(p) == kind = "scullp" /\ \E pos \in Pages : Nopage(p, pos)

scullv_llseek(p) == kind = "scullv" /\ Seeks(p)
scullv_aio(p) == kind = "scullv" /\ Submits(p)
scullv_follow(p) == kind = "scullv" /\ FollowFails(p)
scullv_read(p) == kind = "scullv" /\ \E ends \in ReadEnds : Read(p, ends)
scullv_write(p) == kind = "scullv" /\ \E ends \in Ends : Write(p, ends)
scullv_defer_op(p) == kind = "scullv" /\ (Enter(p) \/ Defer(p))
scullv_trim == kind = "scullv" /\ Trim
scullv_open(p) == Open(p) /\ scullv_trim
scullv_ioctl(p) == kind = "scullv" /\ \E new \in Params : Ioctl(p, new)
scullv_mmap(p) == kind = "scullv" /\ Mmap(p)
scullv_vma_open(p) == kind = "scullv" /\ VmaOpen(p)
scullv_vma_close(p) == kind = "scullv" /\ VmaClose(p)
scullv_vma_nopage(p) == kind = "scullv" /\ \E pos \in Pages : Nopage(p, pos)

sculld_llseek(p) == kind = "sculld" /\ Seeks(p)
sculld_aio(p) == kind = "sculld" /\ Submits(p)
sculld_follow(p) == kind = "sculld" /\ FollowFails(p)
sculld_read(p) == kind = "sculld" /\ \E ends \in ReadEnds : Read(p, ends)
sculld_write(p) == kind = "sculld" /\ \E ends \in Ends : Write(p, ends)
sculld_defer_op(p) == kind = "sculld" /\ (Enter(p) \/ Defer(p))
sculld_trim == kind = "sculld" /\ Trim
sculld_open(p) == Open(p) /\ sculld_trim
sculld_ioctl(p) == kind = "sculld" /\ \E new \in Params : Ioctl(p, new)
sculld_mmap(p) == kind = "sculld" /\ Mmap(p)
sculld_vma_open(p) == kind = "sculld" /\ VmaOpen(p)
sculld_vma_close(p) == kind = "sculld" /\ VmaClose(p)
sculld_vma_nopage(p) == kind = "sculld" /\ \E pos \in Pages : NopageOfNull(p, pos)

scullc_llseek(p) == kind = "scullc" /\ Seeks(p)
scullc_aio(p) == kind = "scullc" /\ Submits(p)
scullc_follow(p) == kind = "scullc" /\ FollowFails(p)
scullc_read(p) == kind = "scullc" /\ \E ends \in ReadEnds : Read(p, ends)
scullc_write(p) == kind = "scullc" /\ \E ends \in Ends : Write(p, ends)
scullc_defer_op(p) == kind = "scullc" /\ (Enter(p) \/ Defer(p))
scullc_trim == kind = "scullc" /\ Trim
scullc_open(p) == Open(p) /\ scullc_trim
scullc_ioctl(p) == kind = "scullc" /\ \E new \in Params : Ioctl(p, new)

Driver(p) ==
  \/ scullp_llseek(p) \/ scullp_aio(p) \/ scullp_follow(p)
  \/ scullp_read(p) \/ scullp_write(p) \/ scullp_defer_op(p) \/ scullp_open(p)
  \/ scullp_ioctl(p) \/ scullp_mmap(p) \/ scullp_vma_nopage(p)
  \/ scullp_vma_open(p) \/ scullp_vma_close(p)
  \/ scullv_llseek(p) \/ scullv_aio(p) \/ scullv_follow(p)
  \/ scullv_read(p) \/ scullv_write(p) \/ scullv_defer_op(p) \/ scullv_open(p)
  \/ scullv_ioctl(p) \/ scullv_mmap(p) \/ scullv_vma_nopage(p)
  \/ scullv_vma_open(p) \/ scullv_vma_close(p)
  \/ sculld_llseek(p) \/ sculld_aio(p) \/ sculld_follow(p)
  \/ sculld_read(p) \/ sculld_write(p) \/ sculld_defer_op(p) \/ sculld_open(p)
  \/ sculld_ioctl(p) \/ sculld_mmap(p) \/ sculld_vma_nopage(p)
  \/ sculld_vma_open(p) \/ sculld_vma_close(p)
  \/ scullc_llseek(p) \/ scullc_aio(p) \/ scullc_follow(p)
  \/ scullc_read(p) \/ scullc_write(p) \/ scullc_defer_op(p) \/ scullc_open(p)
  \/ scullc_ioctl(p)

\* A behaviour ends with its first fault.
Faults == {"overrun", "uncleared", "wrong page", "lost", "no cache",
           "freed under a mapping", "wrong mapping", "errors added", "null item",
           "null page"}
Healthy == Faults \cap it_trouble = {}

Next ==
  /\ Healthy
  /\ \/ CreateCache
     \/ \E p \in Procs :
          \/ Driver(p) \/ Unmap(p)
          \/ \E child \in Procs : Fork(p, child)

Spec == Init /\ [][Next]_itemVars

-----------------------------------------------------------------------------
(* Properties *)

Caused(faults, causes) ==
  faults \cap it_trouble # {} => causes \cap it_trouble # {}

\* A copy stays inside the quantum it is for, whose pages are cleared or
\* written, and each page is at its place, unless the geometry was loaded
\* before a trim changed it, a quantum of more than a page is in a later item,
\* whose order is 0, or scullc's quantum is not the size its cache has.
InsideQuanta ==
  Caused({"overrun", "uncleared", "wrong page", "lost", "no cache"},
         {"stale", "later item", "other quantum"})

\* The count of mappings is exact, and no page is freed under one, unless two
\* processes change the count at once.
MappingsCounted ==
  "raced" \notin it_trouble =>
    /\ vmas = Cardinality({p \in Procs : vma[p] \in {"mapped", "closing"}})
    /\ "freed under a mapping" \notin it_trouble

\* A page that is mapped is the page of its position, unless quanta are
\* larger than a page: in scullv they may be, in scullp only when a trim came
\* between the look at the order and the count.  sculld maps no page at all: a
\* process that touches one that is there dies of it.
MapsItsPage ==
  "wrong mapping" \in it_trouble =>
    /\ "large quanta" \in it_trouble
    /\ \/ kind = "scullv"
       \/ kind = "scullp" /\ {"trimmed meanwhile", "raced"} \cap it_trouble # {}
=============================================================================
