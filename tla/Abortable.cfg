CONSTANTS
  ta = ta
  tb = tb
  h1 = h1
  h2 = h2
  NoWaker = NoWaker
  Tasks <- TwoTasks
  Handles <- TwoHandles
  Threads <- MCThreads
  Wakers <- TwoTasks
SPECIFICATION FairSpec
INVARIANTS CellIsSound AbortReachesTask
PROPERTIES ImplementsWakerCell AbortCompletes
