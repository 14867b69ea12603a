CONSTANTS
  e1 = e1
  e2 = e2
  e3 = e3
  Events = {e1, e2, e3}
  Handlers = {h1, h2}
  Workers = {w1, w2}
  Batches <- MCBatches
  Capacity = 1
  MaxSize = 2
  MaxAge = 1
  MaxRequests = 2
  MaxClock = 2
SPECIFICATION FairSpec
INVARIANTS TypeOK NothingUncounted OncePerMemory
PROPERTIES Drained WorkersReturn
CHECK_DEADLOCK FALSE
