---------------------------- MODULE MCMasterKey ----------------------------
(* A service that loads the key for itself, and one that holds the bytes   *)
(* of a key it shares with its group.                                      *)
EXTENDS MasterKey

MCFunctionOf == [s \in Services |-> IF s = "own" THEN "Load" ELSE "ReadShared"]
=============================================================================
