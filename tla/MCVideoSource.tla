---------------------------- MODULE MCVideoSource ----------------------------
(* One source: a receiver that may be launched twice, two consumers.       *)
EXTENDS VideoSource
=============================================================================
