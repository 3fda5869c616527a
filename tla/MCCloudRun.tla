----------------------------- MODULE MCCloudRun -----------------------------
(***************************************************************************)
(* Small instances of CloudRun.                                            *)
(***************************************************************************)
EXTENDS CloudRun, TLC

Symmetry == Permutations(Workers) \cup Permutations(Calls) \cup Permutations(Runs)

=============================================================================
