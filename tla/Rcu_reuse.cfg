SPECIFICATION Spec
CONSTANTS
  Readers = {r1, r2}
  Objects = {o1, o2}
  Threshold = 1
  MaxVersion = 3
  StoreBuffered = TRUE
  BufferSlots = 2
  None = None
INVARIANT NoUseAfterFree
