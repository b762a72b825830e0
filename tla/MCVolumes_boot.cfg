SPECIFICATION FairSpec
CONSTANTS
  m1 = m1
  m2 = m2
  m3 = m3
  v1 = v1
  v2 = v2
  None = None
  Machine = {m1, m2, m3}
  Volume = {v1, v2}
  Matches <- Zone
  Provider = {"aws", "gce", "openstack", "azure", "do", "hetzner", "scaleway"}
  Devices = 2
  MaxFaults = 2
CHECK_DEADLOCK FALSE
INVARIANTS AtMostOneVolume 
PROPERTIES SameVolumeAgain VolumeGetsMounted
