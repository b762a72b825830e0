SPECIFICATION RCSpec
CONSTANTS
  A = A
  B = B
  C = C
  D = D
  Node = {A, B, C}
  Cluster = {1, 2, 3, 4}
  Old = Old
  New = New
  Far = Far
  Version = {Old, New, Far}
  None = None
  InPlace <- Rolling
  Scenarios <- Interrupted
  MaxWrites = 1
  MaxCommands = 2
SYMMETRY Alike
INVARIANTS DataKept ServesLatest
 
