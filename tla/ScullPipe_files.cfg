SPECIFICATION FairSpec
CONSTANTS
  Free = Free
  Readers = {f, g}
  Writers = {f, g}
  NonBlock = {g}
  AsyncFiles = {f}
  Counts = {1, 2}
  BufSizes = {2, 3}
INVARIANTS BufferOK NoLostWakeup
PROPERTIES IsFifo WriteReturns
