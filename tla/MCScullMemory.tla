---------------------------- MODULE MCScullMemory ----------------------------
(***************************************************************************)
(* The memory devices, each on a small instance: the first state says      *)
(* which one runs.  Files and processes differ in nothing but their names. *)
(***************************************************************************)
EXTENDS ScullDev, TLC

CONSTANTS
  Procs,                                  \* of ScullItems
  Units, Default, Starts, MaxCalls,
  Devs, Shapes, AskedFor, SeqSize, MaxChanges,   \* of ProcFiles
  Frames, Ram, MaxMaps                    \* of SimpleMap

ASSUME MemoryAssumption == IsFiniteSet(Procs) /\ Devs \in Nat

VARIABLES
  driver,
  kind, param, items, cache, vmas, vma, reg, pte, call, calls, it_trouble,
  pr_kind, devs, rd, pos, shown, quiet, changes, pr_trouble,
  maps, refs, mapped

\* scullv begins with quanta of several pages, as it does by default; one of
\* the others has items of two quanta.
MCDefault ==
  [k \in {"scullc", "scullp", "sculld", "scullv"} |->
     [unit |-> IF k \in {"scullc", "scullv"} THEN 2 ELSE 1,
      qset |-> IF k = "scullp" THEN 2 ELSE 1]]

MCStarts ==
  {<<"write", 0, "SEEK_SET", 1>>, <<"write", 0, "SEEK_SET", 2>>,
   <<"write", 0, "SEEK_END", 1>>, <<"read", 0, "SEEK_SET", 1>>,
   <<"read", -1, "SEEK_END", 1>>}

MCShapes == {<<0, {}>>, <<2, {1, 2}>>}

Items == INSTANCE ScullItems WITH dev <- items

\* The counts are below the margin, a little less than a device's first lines
\* take, and enough for several pieces.
Listings == INSTANCE ProcFiles WITH Counts <- AskedFor

\* The last frame is none of memory.
Mappings == INSTANCE SimpleMap

mapVars == <<maps, refs, mapped>>
procVars == <<pr_kind, devs, rd, pos, shown, quiet, changes, pr_trouble>>
itemVars == <<kind, param, items, cache, vmas, vma, reg, pte, call, calls, it_trouble>>

MemoryInit ==
  /\ driver \in {"scull", "items", "proc", "simple"}
  /\ Init /\ Items!Init /\ Listings!Init /\ Mappings!Init
  /\ driver # "items" => kind = "scullp"
  /\ driver # "proc" => pr_kind = "scullpipe"

\* The calls of ScullItems and SimpleMap come to an end; those of scull do not.
MemoryNext ==
  /\ \/ driver = "scull" /\ Next /\ UNCHANGED <<itemVars, procVars, mapVars>>
     \/ driver = "items" /\ Items!Next /\ UNCHANGED <<vars, procVars, mapVars>>
     \/ driver = "items" /\ UNCHANGED <<itemVars, vars, procVars, mapVars>>
     \/ driver = "proc" /\ Listings!Next /\ UNCHANGED <<vars, itemVars, mapVars>>
     \/ driver = "simple" /\ Mappings!Next /\ UNCHANGED <<vars, itemVars, procVars>>
     \/ driver = "simple" /\ UNCHANGED <<itemVars, vars, procVars, mapVars>>
  /\ UNCHANGED driver

MemorySpec == MemoryInit /\ [][MemoryNext]_<<driver, itemVars, vars, procVars, mapVars>>

\* A list with stale geometries in it is followed no further than to its
\* first item.
StainedBound == stained => Len(data) <= 1

Symmetry == Permutations(Files) \cup Permutations(Procs)

-----------------------------------------------------------------------------
(* Properties *)

\* Bytes are where their positions say, unless the geometry or the allocator
\* fails them in one of the ways named, and a mapping shows the pages that
\* reads do, or the frames it was made for.  The files of /proc list all there
\* is.
BytesAndPages ==
  /\ driver = "scull" => BytesInPlace
  /\ driver = "items" => Items!InsideQuanta /\ Items!MapsItsPage
  /\ driver = "proc" => Listings!ShowsAll /\ Listings!NoJunk /\ Listings!LittleTooMuch
  /\ driver = "simple" => Mappings!FramesMapped

\* Nothing is freed that is being copied, or that is mapped unless two
\* processes count mappings at once; and a list that is shown is freed only by
\* a trim between scullmem's load of the list and its semaphore.
NothingFreedInUse ==
  /\ driver = "scull" => NoUseAfterFree
  /\ driver = "items" => Items!MappingsCounted
  /\ driver = "proc" => Listings!ListsValid
=============================================================================
