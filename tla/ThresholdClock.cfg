SPECIFICATION Spec
CONSTANTS
  a = a
  b = b
  c = c
  Node = {a, b, c}
  Flags <- CommandLines
  MaxTx <- TwoOneOne
  MaxHeard <- AllReachA
INVARIANTS TypeOK ConfirmedIsHeld ConfirmedOnce Lockstep NoOutrun AdvancesOnMajority
CHECK_DEADLOCK FALSE
