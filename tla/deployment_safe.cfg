\* Every fault, a machine whose boot interface changes.
SPECIFICATION DeploySpec
CONSTANTS
  m1 = m1  m2 = m2  m3 = m3
  Uuids = {m1, m2, m3}
  Macs <- AllMacs
  NoMac = NoMac
  Reports <- ChangingBoot
  ExpectedNb = 2
  NbTry = 2
  SyncTry = 2
  Workers = {w1}
  Idle = Idle
  NoGroup = NoGroup
  NoIgnition = NoIgnition
  CidrOf <- InBlocks
  SubIps = 256
  RangeNbIps = 253
  SkipIps = 1
  Faults = {"plan_crash", "refused", "worker_lost", "http_error"}
  MaxFaults = 1
  MaxMishaps = 1
INVARIANTS
  DeployInv
  InstalledAsScheduled
  PodsApart
PROPERTIES
  ImplementsScheduling
