SPECIFICATION RCFairSpec
CONSTANTS
  A = A
  B = B
  C = C
  D = D
  Node = {A, B, C, D}
  Cluster = {1, 2, 3, 4}
  Old = Old
  New = New
  Far = Far
  Version = {Old, New, Far}
  None = None
  InPlace <- Rolling
  Scenarios <- Wanted
  MaxWrites = 1
  MaxCommands = 2
INVARIANTS ServesThroughout
  
