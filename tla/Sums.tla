-------------------------------- MODULE Sums --------------------------------
(***************************************************************************)
(* The sum of a sequence of numbers, for the counters that the code keeps  *)
(* of what its lists and queues hold.                                      *)
(***************************************************************************)
EXTENDS Integers, Sequences

SumSeq(q) ==
  LET sum[k \in 0..Len(q)] == IF k = 0 THEN 0 ELSE sum[k - 1] + q[k]
  IN  sum[Len(q)]
=============================================================================
