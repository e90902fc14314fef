SPECIFICATION Spec
CONSTANTS
  s1 = s1
  t1 = t1
  t2 = t2
  f1 = f1
  f2 = f2
  s2 = s2
  Types = {t1, t2}
  Fields = {f1, f2}
  Numbers <- Numbering
  Subs = {s1, s2}
  PlainSubs = {s2}
  Limit <- Rings
  Puts = {u1}
  Closed = Closed
  MaxPosts = 3
INVARIANTS OpenAgrees SeedOrRing LastWriteStands
SYMMETRY Symmetry
CHECK_DEADLOCK FALSE
