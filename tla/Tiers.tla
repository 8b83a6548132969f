-------------------------------- MODULE Tiers --------------------------------
(***************************************************************************)
(* What the Kubernetes 2-tiers plan promises, without the API, the         *)
(* database, the HTTP requests or the processes: every machine starts      *)
(* without a tier, receives at most one, keeps it for ever, and no machine *)
(* becomes a node before the control plane is large enough to serve it.    *)
(*                                                                         *)
(* Quorum is the number of control planes the configuration asks for;      *)
(* Limit is the largest control plane that can be built; Size counts the   *)
(* members of a set.                                                       *)
(***************************************************************************)
EXTENDS Integers

CONSTANTS
  Machines,
  Quorum,
  Limit,
  Size(_)

VARIABLE tier

InTier(t) == {m \in Machines : tier[m] = t}

Init == tier = [m \in Machines |-> "none"]

JoinControlPlane(m) ==
  /\ tier[m] = "none"
  /\ Size(InTier("control-plane")) < Limit
  /\ tier' = [tier EXCEPT ![m] = "control-plane"]

BecomeNode(m) ==
  /\ tier[m] = "none"
  /\ Size(InTier("control-plane")) >= Quorum
  /\ tier' = [tier EXCEPT ![m] = "node"]

Next == \E m \in Machines : JoinControlPlane(m) \/ BecomeNode(m)

Spec == Init /\ [][Next]_tier

=============================================================================
