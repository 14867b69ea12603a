CONSTANTS
  d1 = d1
  d2 = d2
  d3 = d3
  Events <- MCEvents
  Workers = {w1, w2}
  Device <- MCDevice
  Key <- MCKey
  Stamp <- MCStamp
  Rules <- MCRules
  Duration = 3
  Second = 2
  MaxChanges = 2
SPECIFICATION Spec
INVARIANTS NothingStranded NoFalseAlarm NoBurstMissed
CHECK_DEADLOCK FALSE
