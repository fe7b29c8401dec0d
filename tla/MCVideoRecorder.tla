---------------------------- MODULE MCVideoRecorder ----------------------------
(* TLC instance of VideoRecorder: recordings and cameras are alike.        *)
EXTENDS VideoRecorder, TLC

CONSTANTS r1, r2, s1, s2

MCIds == {r1, r2}
MCSensors == {s1, s2}
Symmetry == Permutations(MCIds) \cup Permutations(MCSensors)
=============================================================================
