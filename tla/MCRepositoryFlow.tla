-------------------------- MODULE MCRepositoryFlow --------------------------
(***************************************************************************)
(* Instances of RepositoryFlow for TLC.  Spec contents and auditor ids are *)
(* interchangeable: both are symmetry sets in the runs without liveness.   *)
(***************************************************************************)
EXTENDS RepositoryInvariant, TLC

Symmetry == Permutations(Specs) \cup Permutations(Auditors)
=============================================================================
