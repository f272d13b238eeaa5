CONSTANTS
  a = a
  b = b
  x1 = x1
  x2 = x2
  Tasks <- MCTasks
  Threads <- MCThreads
  MaxWakes = 2
SPECIFICATION Spec
INVARIANTS MemorySafe SetConsistent NoLostWakeUp
SYMMETRY Symmetry
CHECK_DEADLOCK FALSE
