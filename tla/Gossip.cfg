SPECIFICATION Spec
CONSTANTS
  a = a
  b = b
  c = c
  Node = {a, b, c}
  Kinds <- BlocksTLCAndRumor
  InitPeers <- Line
  MaxOwn <- TwoZeroOne
  MaxInFlight = 2
  CanDuplicate = TRUE
INVARIANTS TypeOK StoredUnderItsID PrefixOfOrigin CountedExactly WantsTheNext
PROPERTY ImplementsRumorLog
