SPECIFICATION ClientSpec
CONSTANTS
  c1 = c1
  c2 = c2
  Callers <- Both
  Timed <- First
  Ops <- Calls
  MaxBatch = 2
  MaxItems = 3
  Awaited <- Both
  Endless <- Second
  Gathering <- Both
INVARIANTS NothingLost OwedCounted ExitClean
PROPERTIES ClosedForGood CloseWakes SettledOnce CancelReleases OutcomeDelivered
CHECK_DEADLOCK FALSE
