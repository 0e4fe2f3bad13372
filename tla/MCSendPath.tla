----------------------------- MODULE MCSendPath -----------------------------
(* SendPath with packets of two units and a socket buffer of one or two.   *)
(* The threads of the pool are alike.                                      *)
EXTENDS SendPath, TLC

Alike == Permutations(PoolThreads)
=============================================================================
