----------------------------- MODULE MCDeployment -----------------------------
(* Instances of Deployment for TLC.                                        *)
EXTENDS Deployment

CONSTANTS m1, m2, m3

Fact(uuid, macs, mac) == [uuid |-> uuid, nics |-> macs, boot |-> mac]

\* One interface per machine; m3, scheduled last, sorts before m2.
OneCard == {Fact(m1, {1}, 1), Fact(m2, {3}, 3), Fact(m3, {2}, 2)}

\* m2 may come back from an interface that it does not report.
ChangingBoot == OneCard \cup {Fact(m2, {3}, 4)}

\* m1 boots from the second of its two interfaces.
TwoCards == {Fact(m1, {1, 5}, 5), Fact(m2, {3}, 3), Fact(m3, {2}, 2)}

AllMacs == 1 .. 5
ASSUME CardsStayHome /\ BootsAtHome

\* The leases are in 10.99.32.0/19: blocks of pods for machines at the start of it
\* (as in tests/test_sync.py, test_03), or gaps after the machines (test_04).
Network == 174268416
Lease(fields) == [mac \in AllMacs |-> [ip |-> Network + fields[mac], size |-> 8192]]
InBlocks == Lease(<<10, 11, 1, 30, 2>>)
InGaps == Lease(<<257, 381, 319, 443, 2>>)
ASSUME AddressPlan
=============================================================================
