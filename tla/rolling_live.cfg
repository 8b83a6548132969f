\* A loss of power, in a control plane of three.
SPECIFICATION FairSpec
CONSTANTS
  c1 = c1  c2 = c2  c3 = c3  n1 = n1
  v1 = v1  v2 = v2
  Machines = {c1, c2, c3}
  ControlPlanes = {c1, c2, c3}
  Versions = {v1, v2}
  Granted <- GrantedToTwo
  MaxHolders = 1
  Faults = {"power_loss"}
  MaxFaults = 1
  MaxOps = 1
INVARIANTS
  DownUnderLock
  AtMostDown
PROPERTIES
  ReleasesLock
  EveryEnabledUpdated
CHECK_DEADLOCK FALSE
