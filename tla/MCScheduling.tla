----------------------------- MODULE MCScheduling -----------------------------
(* Instances of Scheduling for TLC.  m1 has two interfaces and boots from  *)
(* the second.                                                             *)
EXTENDS Scheduling

CONSTANTS m1, m2, m3, m4, m5

Fact(uuid, macs, mac) == [uuid |-> uuid, nics |-> macs, boot |-> mac]

\* Every machine reports the same facts at every discovery; m5 booted from an
\* interface it does not report, so it never has a boot interface.
SteadyReports ==
  {Fact(m1, {1, 5}, 5), Fact(m2, {2}, 2), Fact(m3, {3}, 3), Fact(m4, {4}, 4), Fact(m5, {6}, 7)}

\* m1 may come back without the interface it booted from, m2 with another card.
ChangingReports ==
  {Fact(m1, {1, 5}, 5), Fact(m1, {1}, 5), Fact(m2, {2}, 2), Fact(m2, {7}, 7),
   Fact(m3, {3}, 3), Fact(m4, {4}, 4)}

AllMacs == 1 .. 7
ASSUME CardsStayHome
=============================================================================
