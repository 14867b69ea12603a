CONSTANTS
  Clients = {k1, k2}
  Limit = 2
  Window = 2
  MaxNow = 7
  MaxRefused = 1
SPECIFICATION LimiterSpec
INVARIANTS LimiterTypeOK NeverOver
PROPERTY RefusedWithReason
CHECK_DEADLOCK FALSE
