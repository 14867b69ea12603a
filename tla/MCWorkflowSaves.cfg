SPECIFICATION Spec
CONSTANTS
  Default = default
  Ids = {w1, w2}
  MaxSent = 3
  MaxLost = 1
  MaxStarts = 1
INVARIANTS DeletedStaysDeleted RefusedOnlyGone SettledAsSaved
SYMMETRY Symmetric
CHECK_DEADLOCK FALSE
