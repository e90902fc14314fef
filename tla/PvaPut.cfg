SPECIFICATION Spec
CONSTANTS
  e1 = e1
  e2 = e2
  Bad = Bad
  Size = 5
  Up <- Nested
  Data <- Bits
  Entries <- Both
  Contended <- Second
  OwnValue <- First
  Dicts <- Some
  MaxMarks = 1
INVARIANTS MarksAgree VerdictsTrue
PROPERTIES UnmarkSpares PutSendsNamed
CHECK_DEADLOCK FALSE
