SPECIFICATION Spec
CONSTANTS
  Files = {f1, f2}
  Quanta = {1, 2}
  Qsets = {2}
  SCULL_QUANTUM = 2
  SCULL_QSET = 2
  Counts = {1}
  MaxSize = 2
  TrimLocked = FALSE
  Free = Free
INVARIANT NoUseAfterFree
