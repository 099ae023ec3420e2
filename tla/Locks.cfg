SPECIFICATION Spec
CONSTANTS
  p1 = p1
  p2 = p2
  timers = timers
  Router = router
  Returned = returned
  Thread = {p1, p2, timers}
  Duty <- AllDuties
INVARIANT CircleNeedsReversal
PROPERTY FinishesUnlessBroken
CHECK_DEADLOCK FALSE
