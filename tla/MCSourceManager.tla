--------------------------- MODULE MCSourceManager ---------------------------
(* Instance of SourceManager for TLC.                                       *)
EXTENDS SourceManager, TLC
=============================================================================
