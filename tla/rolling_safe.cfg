\* Every kind of fault.
SPECIFICATION Spec
CONSTANTS
  c1 = c1  c2 = c2  c3 = c3  n1 = n1
  v1 = v1  v2 = v2
  Machines = {c1, c2, c3, n1}
  ControlPlanes = {c1, c2, c3}
  Versions = {v1, v2}
  Granted <- GrantedToAny
  MaxHolders = 1
  Faults = {"power_loss", "api_fails", "locksmith_fails", "drain_fails", "write_fails", "restart_fails"}
  MaxFaults = 1
  MaxOps = 1
SYMMETRY Alike
INVARIANTS
  RollInv
  QuorumKept
CHECK_DEADLOCK FALSE
