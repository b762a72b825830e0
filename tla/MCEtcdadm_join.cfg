CONSTANTS
  A = A
  B = B
  C = C
  Machine = {A, B, C}
  First = A
  Pairs = 2
  MaxId = 6
  Plans <- Commands
SPECIFICATION FairSpec
INVARIANT PublishedDataKept
PROPERTY AllJoin
CHECK_DEADLOCK FALSE
