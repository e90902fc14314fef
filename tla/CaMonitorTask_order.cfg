CONSTANTS
  t1 = t1
  Tasks <- OneTask
  Values <- OneTask
  Limited <- OneTask
  Large <- NoTask
  Sized <- OneTask
  Deadlined <- OneTask
  Notes <- Noted
  LateAnswer = TRUE
  Queue = 1
  EventCap = 1
  MaxChanges = 3
  MaxCtrl = 2
SPECIFICATION Spec
CHECK_DEADLOCK FALSE
INVARIANTS ItemOrder PauseKept
