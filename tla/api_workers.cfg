\* One or two workers, and each kind of traffic.
SPECIFICATION FairSpec
CONSTANTS
  u1 = u1  u2 = u2
  w1 = w1  w2 = w2
  c1 = c1  c2 = c2
  Uuids = {u1, u2}
  Macs = {1, 2, 3, 4}
  Reports <- TheReports
  Workers <- Pair
  Contents = {c1, c2}
  Files = {"cp", "node"}
  Traffics <- TheTraffics
  NoList = NoList
  MaxRequests = 4
  MaxFaults = 1
  MaxChanges = 2
INVARIANTS
  ApiTypeOK
  FactsOfOneReport
  OneMachinePerUuid
  StateShownForItsMachine
  RowsBounded
  GrantsBounded
  LastAnswerIsRecorded
  VersionsKept
  ListIsCurrent
  ShutdownIsComplete
PROPERTIES
  StatusConverges
  ShutdownEnds
\* A bounded traffic ends.
CHECK_DEADLOCK FALSE
