CONSTANTS
  Callers = {g1, g2}
  Chains = {c1, c2}
  Keys = {k1}
  MaxRequest = 2
  MaxDepth = 1
  MaxPercent = 50
  MaxAbsolute = 3
  FleetSizes = {0, 4}
  Cooldown = 1
  MaxClock = 3
SPECIFICATION Spec
INVARIANTS TypeOK RefusalsAreFree
PROPERTIES GrantsFitFleet NothingGrantedWhenHalted
CHECK_DEADLOCK FALSE
