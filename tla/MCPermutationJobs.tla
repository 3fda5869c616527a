------------------------- MODULE MCPermutationJobs -------------------------
(***************************************************************************)
(* Two jobs of two seeds for TLC, one below and one at the actual metric.   *)
(***************************************************************************)
EXTENDS PermutationJobs, TLC

CONSTANTS s1, s2

TwoMetrics == (s1 :> 1) @@ (s2 :> 2)

=============================================================================
