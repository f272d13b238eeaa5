CONSTANTS
  Reader = Reader
  Writer = Writer
  Pollers = {Reader, Writer}
  MaxItems = 2
  MaxPends = 2
SPECIFICATION SplitSpec
INVARIANTS LockIsSound ParkedIsReachable SplitDelivers
PROPERTIES HalvesFinish
CHECK_DEADLOCK FALSE
