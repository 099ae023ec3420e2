SPECIFICATION Spec
CONSTANTS
  a = a
  b = b
  c = c
  v1 = v1
  v2 = v2
  Node = {a, b, c}
  N = 3
  Ballot = {v1, v2}
  VoterOf <- Voters
  Casts <- OneStation
  Fitness = {1, 2, 3}
SYMMETRY Others
INVARIANTS TypeOK Agreement NoStaleHandoff MarkedIsKept
PROPERTY ImplementsLedger
CHECK_DEADLOCK FALSE
