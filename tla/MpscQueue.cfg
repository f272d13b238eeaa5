CONSTANTS
  n1 = n1
  n2 = n2
  n3 = n3
  n4 = n4
  p1 = p1
  p2 = p2
  va = va
  vb = vb
  None = None
  Null = Null
  Empty = Empty
  Inconsistent = Inconsistent
  Nodes <- MCNodes
  Producers <- MCProducers
  Values <- MCValues
SPECIFICATION FairSpec
INVARIANTS NodesAreSound
PROPERTIES ImplementsFifo PopReturns
CHECK_DEADLOCK FALSE
