CONSTANTS
  Palettes <- MCPalettes
  MaxDrawn = 4
SPECIFICATION GraphSpec
INVARIANTS CycleCheckExact ValidatedCompiles SameMeaning
CHECK_DEADLOCK FALSE
