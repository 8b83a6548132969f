\* A POST answered 500 in the middle of a batch.
SPECIFICATION Spec
CONSTANTS
  m1 = m1  m2 = m2  m3 = m3  m4 = m4  m5 = m5
  Uuids = {m1, m2, m3, m4, m5}
  Macs <- AllMacs
  NoMac = NoMac
  Reports <- SteadyReports
  ExpectedNb = 2
  NbTry = 2
  Workers = {w1}
  Idle = Idle
  Faults = {"http_error"}
  MaxFaults = 1
INVARIANTS
  NodesAfterControlPlane
