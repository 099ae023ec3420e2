SPECIFICATION Spec
CONSTANTS
  me = me
  n1 = n1
  n2 = n2
  None = none
  Node = {me, n1, n2}
  Me = me
  Topologies <- LineAndTriangle
  Shared <- SharedValue
  Wanted <- WantedValue
  Short = {"a copy of x"}
  Threshold = 2
  Budgets = {2, 5}
  MaxBudget = 3
  MaxUint = 15
INVARIANTS TypeOK ServedWithinBudget  OnlyDownloadersKill ListenLoopGoesOn
CHECK_DEADLOCK FALSE
