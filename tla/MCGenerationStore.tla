------------------------- MODULE MCGenerationStore -------------------------
(***************************************************************************)
(* Small instances of GenerationStore for TLC.                             *)
(***************************************************************************)
EXTENDS GenerationStore, TLC

\* A refresh of one session and of both.
NestedRanges == {{1}, {1, 2}}

\* A refresh of one session or of the other.
DisjointRanges == {{1}, {2}}

\* A refresh of one session.
OneDayRange == {{1}}

\* The acquirers are interchangeable when every one takes the lock.
Symmetry == Permutations(Acquirers)

=============================================================================
