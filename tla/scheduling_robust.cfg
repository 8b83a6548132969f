\* One API worker, every kind of fault, machines whose cards change.
SPECIFICATION Spec
CONSTANTS
  m1 = m1  m2 = m2  m3 = m3  m4 = m4  m5 = m5
  Uuids = {m1, m2, m3, m4, m5}
  Macs <- AllMacs
  NoMac = NoMac
  Reports <- ChangingReports
  ExpectedNb = 2
  NbTry = 2
  Workers = {w1}
  Idle = Idle
  Faults = {"plan_crash", "refused", "worker_lost", "http_error"}
  MaxFaults = 2
INVARIANTS
  IInv
  WholeTiers
  ControlPlaneBound
