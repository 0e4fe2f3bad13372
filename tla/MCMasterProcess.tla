--------------------------- MODULE MCMasterProcess --------------------------
(* MasterProcess with two workers, as a daemon.                            *)
EXTENDS MasterProcess
=============================================================================
