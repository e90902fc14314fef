SPECIFICATION ServerSpec
CONSTANTS
  e1 = e1
  e2 = e2
  t1 = t1
  t2 = t2
  k1 = k1
  k2 = k2
  k3 = k3
  Entries = {e1, e2}
  Threads = {t1, t2}
  Dbs = {d1, d2}
  Cells = {k1, k2, k3}
  Values <- Numbers
  Namings <- Names
  None = None
  MaxCalls = 6
  p1 = p1
  p2 = p2
  q1 = q1
  q2 = q2
  u1 = u1
  u2 = u2
  PVs <- Two
  Queues = {q1, q2}
  Puts = {u1, u2}
  Target <- To
  Layouts <- Either
  MaxMoves = 2
INVARIANTS OneHome ValueKept OneVerdict
PROPERTY PutAnswered
SYMMETRY Symmetry
CHECK_DEADLOCK FALSE
