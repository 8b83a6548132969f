------------------------------- MODULE MCApi -------------------------------
(* Instances of Api for TLC.                                               *)
EXTENDS Api, TLC

CONSTANTS u1, u2, w1, w2, c1, c2

\* Card 2 is common to both reports of u1, whose other card is replaced; u2 comes
\* with the card that u1 may have, and with one of its own.
First1 == [uuid |-> u1, mac |-> 1, macs |-> {1, 2}]
Second1 == [uuid |-> u1, mac |-> 3, macs |-> {2, 3}]
Stolen2 == [uuid |-> u2, mac |-> 3, macs |-> {3, 4}]
Whole2 == [uuid |-> u2, mac |-> 4, macs |-> {4}]
\* It did not see the card it booted from.
Bootless2 == [uuid |-> u2, mac |-> 3, macs |-> {4}]
TheReports == {First1, Second1, Stolen2, Whole2, Bootless2}

Pair == {w1, w2}
Comes(kinds, waits, reports, workers, bounded) ==
  [kinds |-> kinds, waits |-> waits, reports |-> reports, workers |-> workers,
   bounded |-> bounded]

\* Machines report and boot; the machines that are listed; installations; the
\* reports and the policies of installed machines; operators who do not wait; the
\* sync's versions; the end.
TheTraffics ==
  { Comes({"discovery", "boot"}, FALSE, {First1, Second1, Stolen2}, Pair, TRUE),
    Comes({"discovery", "list"}, FALSE, TheReports, {w1}, TRUE),
    Comes({"discovery", "authorize", "install"}, FALSE, {First1}, Pair, TRUE),
    Comes({"authorize"}, FALSE, {First1, Whole2}, Pair, TRUE),
    Comes({"discovery", "ignition", "policy"}, TRUE, {First1}, Pair, FALSE),
    Comes({"discovery", "policy"}, FALSE, {First1}, Pair, TRUE),
    Comes({"discovery", "schedule"}, FALSE, {First1}, Pair, TRUE),
    Comes({"version"}, TRUE, {First1}, Pair, FALSE),
    Comes({"boot", "health", "shutdown"}, FALSE, {First1}, Pair, TRUE),
    Comes({"ignition", "shutdown"}, FALSE, {First1}, {w1}, TRUE) }

Installations == {Comes({"discovery", "install"}, TRUE, {First1}, {w1}, TRUE)}

Sides == Permutations(Pair)
=============================================================================
