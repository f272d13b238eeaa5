CONSTANTS
  s1 = s1
  s2 = s2
  Senders = {s1, s2}
  First = s1
  Buffer = 0
  OPEN_MASK = 8
  MaxSends = 2
SPECIFICATION FairMpscSpec
INVARIANTS CountIsExact CapacityBound NoLostWakeUp
PROPERTIES ImplementsChannel PendingSenderIsNotified EndIsReached
CHECK_DEADLOCK FALSE
