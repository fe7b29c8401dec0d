------------------------- MODULE MCVideocardBalancer -------------------------
(* TLC instance of VideocardBalancer: four processings on two videocards   *)
(* of two places each, so that a profile can have two cards with room at   *)
(* once; a third address, so that a stale pointer need not be reused.      *)
EXTENDS VideocardBalancer, TLC

CONSTANTS p1, p2, p3, p4, f1, f2, c1, c2, c3

MCProcessings == {p1, p2, p3, p4}
MCProfiles == {f1, f2}
MCCards == {c1, c2, c3}

Symmetry == Permutations(MCProcessings) \cup Permutations(MCProfiles)
              \cup Permutations(MCCards)
=============================================================================
