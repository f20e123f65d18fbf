SPECIFICATION Spec
CONSTANTS
  Readers = {r1, r2}
  Objects = {o1, o2, o3, o4}
  Threshold = 2
  MaxVersion = 3
  StoreBuffered = FALSE
  BufferSlots = 2
  None = None
SYMMETRY Symmetry
INVARIANTS NoUseAfterFree RetiredOnce
PROPERTY IsGracePeriod
