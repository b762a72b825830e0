\* Backups are made and cleaned up, commands are issued and carried out.
SPECIFICATION Spec
CONSTANTS
  A = A
  B = B
  S = S
  T = T
  Agent = {A, B}
  Controller = {A, B}
  SpecValue = {S, T}
  FirstSpec = S
  MaxCommands = 2
  Hour = 2
  HoursPerDay = 2
  HourlyRetention = 4
  DailyRetention = 6
  BackupInterval = 0
  CleanupInterval = 2
  MaxSequence = 1
  Epoch = 8
  Plans <- Stores
INVARIANTS ListedHasData EarliestKept NotLost
PROPERTIES NotRepeated QueueDrains
CHECK_DEADLOCK FALSE
