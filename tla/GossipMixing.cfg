SPECIFICATION Spec
CONSTANTS
  a = a
  b = b
  c = c
  Node = {a, b, c}
  Kinds <- RumorsAndBlocks
  InitPeers <- Line
  MaxOwn <- TwoZeroOne
  MaxInFlight = 2
  CanDuplicate = FALSE
INVARIANT StoredUnderItsID
