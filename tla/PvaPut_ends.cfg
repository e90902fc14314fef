SPECIFICATION FairSpec
CONSTANTS
  e1 = e1
  e2 = e2
  Bad = Bad
  Size = 4
  Up <- Shallow
  Data <- Bits
  Entries <- Both
  Contended <- None
  OwnValue <- First
  Dicts <- Few
  MaxMarks = 1
PROPERTY PutEnds
CHECK_DEADLOCK FALSE
