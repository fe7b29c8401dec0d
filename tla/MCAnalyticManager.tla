-------------------------- MODULE MCAnalyticManager --------------------------
(* TLC instance of AnalyticManager: two start commands, two profiles, two  *)
(* addresses of videocards.                                                *)
EXTENDS AnalyticManager, TLC

CONSTANTS p1, p2, f1, f2, c1, c2, u1

Two == {p1, p2}
MCProfiles == {f1, f2}
MCCards == {c1, c2}

Symmetry == Permutations(Two) \cup Permutations(MCProfiles)
              \cup Permutations(MCCards)
=============================================================================
