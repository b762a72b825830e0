CONSTANTS
  Node = {n1}
  Cluster = {c1, c2}
  Version = {v1, v2}
  None = None
  Leader = {t1, t2}
  Torn = Torn
  Failures = {"crash", "exit", "start"}
  MaxFaults = 3
SPECIFICATION FairSpec
INVARIANTS TypeOK DurableRun RunsWhatItKnows
PROPERTIES ImplementsParticipant MemberRuns
