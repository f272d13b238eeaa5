CONSTANTS
  Workers = {w1, w2}
  Callers = {c1, c2}
  Tasks = {a, b}
  MaxHandles = 2
  MaxWakes = 3
SPECIFICATION FairSpec
INVARIANTS OnePlace CloseIsLast
PROPERTIES WokenIsPolled WorkersStop
CHECK_DEADLOCK FALSE
