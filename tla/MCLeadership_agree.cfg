CONSTANTS
  Node = {1, 2, 3}
  NoToken = NoToken
  NoNode = NoNode
  NoLock = NoLock
  MaxFaults = 1
  Late = {1}
SPECIFICATION MCFairSpec
INVARIANTS TypeOK CountedPeersAcked LockExclusive
PROPERTIES EventualAgreement LeaderActs
