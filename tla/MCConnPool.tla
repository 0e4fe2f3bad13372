---------------------------- MODULE MCConnPool ----------------------------
(* ConnPool with one user at a time, one listening socket and at most two  *)
(* objects for clients.                                                    *)
EXTENDS ConnPool

MCConns == 1 .. (PoolLimit + 2)
===========================================================================
