SPECIFICATION Spec
CONSTANTS
  n1 = n1
  n2 = n2
  n3 = n3
  Node = {n1, n2, n3}
  Nowhere = nowhere
  Peers <- Triangle
  MaxOwn <- MaxOwnValue
  Watched = {n2}
  HopLimit = 2
  MaxUint = 15
INVARIANTS TypeOK LoopNeedsLag RelayKnowsOrLearns SettledRoutesDeliver
PROPERTY EveryPacketEnds
CHECK_DEADLOCK FALSE
