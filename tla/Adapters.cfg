CONSTANTS
  MaxPends = 3
  MaxLen = 3
  MaxCycle = 4
SPECIFICATION Spec
INVARIANTS OutputCorrect NoLatePoll QueriesHold
PROPERTY Completes
CHECK_DEADLOCK FALSE
