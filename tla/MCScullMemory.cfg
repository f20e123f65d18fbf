SPECIFICATION MemorySpec
CONSTANTS
  Files = {f1, f2}
  Quanta = {1, 2}
  Qsets = {1, 2}
  SCULL_QUANTUM = 2
  SCULL_QSET = 2
  Counts = {1, 3}
  MaxSize = 3
  TrimLocked = TRUE
  Free = Free
  Procs = {p1, p2}
  Units = {1, 2}
  Default <- MCDefault
  Starts <- MCStarts
  MaxCalls = 4
  Devs = 2
  Shapes <- MCShapes
  AskedFor = {2, 8, 24}
  SeqSize = 24
  MaxChanges = 1
  Frames = {0, 1, 2, 3}
  Ram = {0, 1, 2}
  MaxMaps = 2
CONSTRAINT StainedBound
SYMMETRY Symmetry
INVARIANTS GeometryKept BytesAndPages NothingFreedInUse
PROPERTIES KeepsBytes
