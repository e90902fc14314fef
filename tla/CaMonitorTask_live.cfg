CONSTANTS
  t1 = t1
  Tasks <- OneTask
  Values <- OneTask
  Limited <- NoTask
  Large <- NoTask
  Sized <- NoTask
  Deadlined <- NoTask
  Notes <- Noted
  LateAnswer = FALSE
  Queue = 1
  EventCap = 1
  MaxChanges = 3
  MaxCtrl = 1
SPECIFICATION FairSpec
CHECK_DEADLOCK FALSE
INVARIANT StateTold
PROPERTIES EventuallyEnds EventuallyFollows
