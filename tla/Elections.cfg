SPECIFICATION Spec
CONSTANTS
  a = a
  b = b
  v1 = v1
  v1x = v1x
  w1 = w1
  w2 = w2
  Node = {a, b}
  N = 2
  Fitness = {1, 2}
  BallotA = {v1, v1x}
  VoterOfA <- VotersA
  CastsA <- DoubleVote
  BallotB = {w1, w2}
  VoterOfB <- VotersB
  CastsB <- OneStation
INVARIANTS OneBallotPerVoter CastIsKept NobodyStalls
CHECK_DEADLOCK FALSE
