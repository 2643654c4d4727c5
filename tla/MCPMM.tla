------------------------------- MODULE MCPMM -------------------------------
(* PMM on ten blocks: the bitmap has two whole bytes of four bits and a    *)
(* tail of two, so that the single-block search misses the tail, and       *)
(* requests run from the rejected 0 to a run that only fits empty memory.  *)
EXTENDS PMM

=============================================================================
