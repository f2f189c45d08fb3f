----------------------------- MODULE MCSpscQueue -----------------------------
(* A ring of four cells, so that the indices wrap while it is neither full  *)
(* nor empty, and three distinguishable items.                              *)
EXTENDS SpscQueue

MCCapacity == 4
=============================================================================
