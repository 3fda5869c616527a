----------------------------- MODULE MCDatabase -----------------------------
(***************************************************************************)
(* Small instances of Database: migrators that race and one run.           *)
(***************************************************************************)
EXTENDS Database, TLC

Symmetry == Permutations(Migrators) \cup Permutations(Copies)

=============================================================================
