\* A drain of a control plane that fails.
SPECIFICATION Spec
CONSTANTS
  c1 = c1  c2 = c2  c3 = c3  n1 = n1
  v1 = v1  v2 = v2
  Machines = {c1, c2, c3, n1}
  ControlPlanes = {c1, c2, c3}
  Versions = {v1, v2}
  Granted <- GrantedToAny
  MaxHolders = 1
  Faults = {"drain_fails"}
  MaxFaults = 1
  MaxOps = 0
INVARIANTS
  AtMostDown
CHECK_DEADLOCK FALSE
