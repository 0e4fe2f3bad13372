---------------------------- MODULE MCThreadPool ----------------------------
(* ThreadPool with more messages than threads, and as many.                *)
EXTENDS ThreadPool
=============================================================================
