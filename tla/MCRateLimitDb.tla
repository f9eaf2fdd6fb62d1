--------------------------- MODULE MCRateLimitDb ---------------------------
(* Three request threads: one alone serves k1, two share k2 (MCOneShared);  *)
(* or two threads that both serve k1 (MCSameKey).                           *)
EXTENDS RateLimitDb, TLC

CONSTANTS k1, k2, w1, w2, w3
MCKeys == {k1, k2}
MCOneKey == {k1}
MCThree == {w1, w2, w3}
MCTwo == {w1, w2}
MCOneShared == [w \in MCThree |-> IF w = w1 THEN {k1} ELSE {k2}]
MCSameKey == [w \in MCTwo |-> {k1}]
\* Exchanging w2 and w3, which serve the same identifier, changes nothing.
MCSymmetry == Permutations({w2, w3})
MCInstants == 0..2
=============================================================================
