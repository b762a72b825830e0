SPECIFICATION MachineFairSpec
CONSTANTS
  Main = Main
  Events = Events
  Created = Created
  Other = Other
  a1 = a1
  a2 = a2
  h1 = h1
  h2 = h2
  Node = {Main, Events}
  Imported = Imported
  Cluster = {Imported, Created, Other}
  Elsewhere = {Other}
  Version <- Installed
  None = None
  Leader = {t1}
  Torn = Torn
  Failures = {"crash", "exit", "start", "write", "torn"}
  MaxFaults = 2
  CA = {1, 2}
  Names = {1, 2}
  NoCert = NoCert
  Cut = Cut
  CertDuration = 2
  CertMinTimeLeft = 20
  Address = {a1, a2}
  Host = {h1, h2}
  MaxAttempts = 2
  MaxOverlaps = 2
  Plans <- Days
INVARIANTS ImportedWhole HostsFileWhole
PROPERTIES CertificateFits JoinsFresh  HostsFileSettles
CHECK_DEADLOCK FALSE
