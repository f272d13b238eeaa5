CONSTANTS
  t1 = t1
  t2 = t2
  c1 = c1
  c2 = c2
  c3 = c3
  Env = Env
  NoFut = NoFut
  Threads <- TwoThreads
  Futs <- ThreeClones
  Home <- MCHome
  Parent <- MCParent
  Mains <- MCMains
  MaxEvents = 2
SPECIFICATION FairSpec
INVARIANTS PolledByOne WakeUpKept
PROPERTIES NoWakeMissed AllResolve
CHECK_DEADLOCK FALSE
