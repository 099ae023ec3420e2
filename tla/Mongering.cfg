SPECIFICATION MongeringSpec
CONSTANTS
  g1 = g1
  g2 = g2
  k1 = k1
  Peer = {":500", ":5000"}
  Origin = {"0x", "x"}
  Count <- Messages
  MaxID = 2
  KeyOf <- Concatenated
  Monger = {g1, g2}
  Acker = {k1}
  Nobody = nobody
SYMMETRY Slots
INVARIANTS SendsFindTheirChannel EntriesAreLive
CHECK_DEADLOCK FALSE
