CONSTANTS
  MaxPends = 3
  MaxLen = 3
  MaxCycle = 4
SPECIFICATION Spec
INVARIANT StreamContract
CHECK_DEADLOCK FALSE
