SPECIFICATION MongeringSpec
CONSTANTS
  g1 = g1
  g2 = g2
  k1 = k1
  Peer = {":5000"}
  Origin = {"x"}
  Count <- Messages
  MaxID = 2
  KeyOf <- Concatenated
  Monger = {g1}
  Acker = {k1}
  Nobody = nobody
PROPERTY MongeringEnds
CHECK_DEADLOCK FALSE
