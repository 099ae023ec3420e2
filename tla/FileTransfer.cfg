SPECIFICATION Spec
CONSTANTS
  a = a
  b = b
  f1 = f1
  f2 = f2
  f3 = f3
  c1 = c1
  c2 = c2
  x = x
  y = y
  Node = {a, b}
  File = {f1, f2, f3}
  Chunk = {c1, c2}
  Name = {x, y}
  Content <- Chunks
  Named <- Names
  Disk <- Shared
  MaxJobs = 2
  MaxInFlight = 2
  None = none
INVARIANTS TypeOK WrittenIsWhole RepliesFindTheirRequest SharersNeverKill
PROPERTY UndisturbedDownloadsEnd
CHECK_DEADLOCK FALSE
