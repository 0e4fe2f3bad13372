---------------------------- MODULE MCTimerQueue ----------------------------
(* TimerQueue with the shortest m_iWaitTime the configuration allows.      *)
EXTENDS TimerQueue, TLC

Symmetry == Permutations(Conns)
=============================================================================
