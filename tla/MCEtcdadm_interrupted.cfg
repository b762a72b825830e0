CONSTANTS
  A = A
  B = B
  C = C
  Machine = {A, B, C}
  First = A
  Pairs = 2
  MaxId = 6
  Plans <- Interrupted
SPECIFICATION FairSpec
PROPERTY ErasedWhenStopped
CHECK_DEADLOCK FALSE
