SPECIFICATION FairSpec
CONSTANTS
  Capacity = 9
  Sizes = {0, 1, 2, 3, 4, 5, 6, 7, 8, 9}
INVARIANTS NoOverlap DataEndNotRaced
PROPERTIES IsFifo ReleasesWhatItRead AcquireReturns
CHECK_DEADLOCK FALSE
