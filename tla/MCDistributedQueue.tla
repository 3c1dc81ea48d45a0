------------------------- MODULE MCDistributedQueue -------------------------
(* The queue on a small instance: two workers, one reconciler, one run.     *)
EXTENDS DistributedQueue

CONSTANTS w1, w2, r1, m1
=============================================================================
