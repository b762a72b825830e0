CONSTANTS
  Node = {1, 2, 3}
  NoToken = NoToken
  NoNode = NoNode
  NoLock = NoLock
  MaxFaults = 1
  Cluster = {1, 2, 3}
  Version = {v1}
  None = None
  MemberCount = 3
  Late = {1}
SPECIFICATION MCSpec
INVARIANTS  StopFindsMember 
PROPERTIES NoSilentSwitch
