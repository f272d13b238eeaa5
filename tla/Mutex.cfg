CONSTANTS
  t1 = t1
  t2 = t2
  t3 = t3
  Tasks <- MCTasks
  Keys <- MCKeys
SPECIFICATION FairSpec
INVARIANTS MutualExclusion SlabMatchesFutures SomeoneWillLock
PROPERTY WaitersProgress
