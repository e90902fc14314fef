SPECIFICATION FairSpec
CONSTANTS
  p1 = p1
  p2 = p2
  q1 = q1
  q2 = q2
  Layouts <- SharedOrNot
  PVs = {p1, p2}
  Queues = {q1, q2}
  Chans = {c1, c2}
  Ops = {o1}
  NoPV = NoPV
  MaxMoves = 5
  MayStop = TRUE
INVARIANTS NeverDangling EdgeTruth
PROPERTIES OpAnswered CloseSyncReturns
CHECK_DEADLOCK FALSE
