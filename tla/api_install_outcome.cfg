\* One worker, an installer that waits for its answers.
SPECIFICATION Spec
CONSTANTS
  u1 = u1  u2 = u2
  w1 = w1  w2 = w2
  c1 = c1  c2 = c2
  Uuids = {u1, u2}
  Macs = {1, 2, 3, 4}
  Reports <- TheReports
  Workers <- Pair
  Contents = {c1, c2}
  Files = {"cp", "node"}
  Traffics <- Installations
  NoList = NoList
  MaxRequests = 4
  MaxFaults = 0
  MaxChanges = 0
INVARIANTS
  LastOutcomeIsRecorded
CHECK_DEADLOCK FALSE
