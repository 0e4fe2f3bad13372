--------------------------- MODULE MCRecvFraming ---------------------------
(* RecvFraming with headers of two bytes, packets of at most four, and     *)
(* headers that announce less, or more, than that.                         *)
EXTENDS RecvFraming
=============================================================================
