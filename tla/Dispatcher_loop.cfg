CONSTANTS
  s1 = s1
  s2 = s2
  Subs <- TwoSubs
  AllUpdates <- Nobody
  Flavour = "loop"
  MayHappen <- Anything
  HubKinds <- Mixed
  MaxItems = 3
SPECIFICATION FairSpec
CHECK_DEADLOCK FALSE
PROPERTIES NoCallbackAfterClose EventuallyApplied
