-------------------------- MODULE MCCausalSortLoop --------------------------
(***************************************************************************)
(* Every queue of up to MaxLen items over the clocks of Source with        *)
(* counters up to MaxCounter.  With three sources and counters 0 and 1 the *)
(* clocks form the cube order, which contains chains, antichains, forks,   *)
(* joins and the N shape.                                                  *)
(***************************************************************************)
EXTENDS CausalSortLoop

CONSTANTS s1, s2, s3,
          MaxLen    \* bound: items per queue

AllQueues == UNION {[1..n -> Item] : n \in 0..MaxLen}
=============================================================================
