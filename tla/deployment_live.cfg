\* The faults the plan notices, one card per machine.
SPECIFICATION FairDeploySpec
CONSTANTS
  m1 = m1  m2 = m2  m3 = m3
  Uuids = {m1, m2, m3}
  Macs <- AllMacs
  NoMac = NoMac
  Reports <- OneCard
  ExpectedNb = 2
  NbTry = 2
  SyncTry = 2
  Workers = {w1}
  Idle = Idle
  NoGroup = NoGroup
  NoIgnition = NoIgnition
  CidrOf <- InGaps
  SubIps = 0
  RangeNbIps = 60
  SkipIps = 1
  Faults = {"plan_crash", "worker_lost"}
  MaxFaults = 1
  MaxMishaps = 1
INVARIANTS
  ClusterIsComplete
  OneCluster
  PodsApart
PROPERTIES
  GroupsAreRegenerated
  EveryMachineInstalled
