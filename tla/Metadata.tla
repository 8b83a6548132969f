------------------------------- MODULE Metadata -------------------------------
(***************************************************************************)
(* The pod network in the metadata of a group: ConfigSyncSchedules._cni_ipam *)
(* (sync.py) gives each machine a range of addresses for its pods, in the  *)
(* network of the machine, that CNI's host-local hands out on that machine *)
(* without asking the others.                                              *)
(*                                                                         *)
(* An IPv4 address is a number.  A cidrv4 is the address of an interface   *)
(* with the size of its network, 2^(32 - prefix length).                   *)
(***************************************************************************)
EXTENDS Integers

CONSTANTS SubIps, RangeNbIps, SkipIps  \* sub_ips, range_nb_ips, skip_ips of configs.py

\* The assertion of _cni_ipam, which fails with a ValueError otherwise.
ASSUME SubIpsIsPower == SubIps \in {0, 1, 2, 4, 8, 16, 32, 64, 128, 256}
ASSUME RangeIsNatural == RangeNbIps \in Nat /\ SkipIps \in Nat

Cidr == [ip: Nat, size: Nat \ {0}]

\* IPv4Interface.network
NetworkOf(cidr) == cidr.ip - (cidr.ip % cidr.size)
Subnet(cidr) == NetworkOf(cidr) .. NetworkOf(cidr) + cidr.size - 1

LastDecimalField(ip) == ip % 256

\* Mutation: every machine counts from its own address.
FirstOfMachine(cidr) == cidr.ip

\* Where the addresses of the machine begin: sub_ips of them for each last decimal
\* field, from the start of the network; or next to the machine without sub_ips.
FirstIp(cidr) ==
  IF SubIps > 0 THEN NetworkOf(cidr) + LastDecimalField(cidr.ip) * SubIps ELSE cidr.ip

\* Mutation: the address of the machine is not skipped.
NoneSkipped(cidr) == FirstIp(cidr)

RangeStart(cidr) == FirstIp(cidr) + SkipIps
RangeEnd(cidr) == RangeStart(cidr) + RangeNbIps

\* host-local hands out the end of the range too.
PodIps(cidr) == RangeStart(cidr) .. RangeEnd(cidr)

-----------------------------------------------------------------------------
(* How the addresses of the machines have to be laid out, which nothing in *)
(* the code checks: tests/test_sync.py and enjoliver.yaml do it this way.  *)

\* The machines are at the start of the network, and differ in their last field.
BlocksFit(cidrs) ==
  /\ RangeNbIps + SkipIps < SubIps
  /\ \A c \in cidrs :
       /\ 0 < LastDecimalField(c.ip)
       /\ c.ip < NetworkOf(c) + SubIps
       /\ (LastDecimalField(c.ip) + 1) * SubIps <= c.size
  /\ \A c, d \in cidrs : LastDecimalField(c.ip) = LastDecimalField(d.ip) => c = d

\* The machines leave room for their pods after them.
GapsFit(cidrs) ==
  /\ SkipIps > 0
  /\ \A c \in cidrs : c.ip + SkipIps + RangeNbIps < NetworkOf(c) + c.size
  /\ \A c, d \in cidrs : c.ip < d.ip => c.ip + SkipIps + RangeNbIps < d.ip
  /\ \A c, d \in cidrs : c.ip = d.ip => c = d

AddressesFit(cidrs) ==
  /\ \A c, d \in cidrs : NetworkOf(c) = NetworkOf(d) /\ c.size = d.size
  /\ IF SubIps > 0 THEN BlocksFit(cidrs) ELSE GapsFit(cidrs)

\* What the pods of two machines need: addresses of the network, and neither those
\* of the machines nor the same.
PodsHaveTheirOwn(c, d) ==
  /\ {RangeStart(c), RangeEnd(c)} \subseteq Subnet(c)
  /\ c.ip \notin PodIps(c) /\ d.ip \notin PodIps(c)
  /\ RangeStart(c) \notin PodIps(d) /\ RangeStart(d) \notin PodIps(c)
=============================================================================
