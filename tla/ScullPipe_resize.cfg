SPECIFICATION Spec
CONSTANTS
  Free = Free
  Readers = {r1, rw}
  Writers = {w1, rw}
  NonBlock = {}
  AsyncFiles = {}
  Counts = {1, 2}
  BufSizes = {2, 3}
INVARIANTS EndOfBuffer
