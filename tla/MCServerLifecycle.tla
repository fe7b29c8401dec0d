-------------------------- MODULE MCServerLifecycle --------------------------
(* TLC instance of ServerLifecycle: analyses and recordings over a few     *)
(* processes.                                                              *)
EXTENDS ServerLifecycle, TLC

CONSTANTS a1, a2, r1

TwoAnalyses == {a1, a2}
OneAnalysis == {a1}
OneRecording == {r1}
=============================================================================
