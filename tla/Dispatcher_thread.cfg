CONSTANTS
  s1 = s1
  s2 = s2
  Subs <- TwoSubs
  AllUpdates <- JustOne
  Flavour = "thread"
  MayHappen <- Failing
  HubKinds <- Mixed
  MaxItems = 4
SPECIFICATION Spec
CHECK_DEADLOCK FALSE
INVARIANTS CollapseSound CountAccounted
