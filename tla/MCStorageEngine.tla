--------------------------- MODULE MCStorageEngine ---------------------------
(* Instance of StorageEngine for TLC.                                       *)
EXTENDS StorageEngine, TLC
=============================================================================
