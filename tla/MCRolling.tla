----------------------------- MODULE MCRolling -----------------------------
(* Instances of Rolling for TLC.                                           *)
EXTENDS Rolling, TLC

CONSTANTS c1, c2, c3, n1, v1, v2

\* Control planes fail, and are updated, alike; so are the ignitions.
Alike == Permutations({c1, c2, c3}) \union Permutations({v1, v2})

\* The machines granted an update before: any of them, or two.
GrantedToAny == SUBSET Machines
GrantedToTwo == {{c1, c2}}
=============================================================================
