SPECIFICATION FairSpec
CONSTANTS
  a = a
  b = b
  c = c
  Node = {a, b, c}
  Kinds <- TLCAndHeartbeats
  InitPeers <- Line
  MaxOwn <- OneZeroTwo
  MaxInFlight = 1
  CanDuplicate = FALSE
PROPERTY Delivered
