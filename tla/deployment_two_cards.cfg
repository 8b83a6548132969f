\* A control plane with two network cards.
SPECIFICATION DeploySpec
CONSTANTS
  m1 = m1  m2 = m2  m3 = m3
  Uuids = {m1, m2, m3}
  Macs <- AllMacs
  NoMac = NoMac
  Reports <- TwoCards
  ExpectedNb = 2
  NbTry = 2
  SyncTry = 2
  Workers = {w1}
  Idle = Idle
  NoGroup = NoGroup
  NoIgnition = NoIgnition
  CidrOf <- InBlocks
  SubIps = 256
  RangeNbIps = 253
  SkipIps = 1
  Faults = {}
  MaxFaults = 0
  MaxMishaps = 0
INVARIANTS
  MemberOfItsCluster
