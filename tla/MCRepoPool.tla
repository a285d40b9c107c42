----------------------------- MODULE MCRepoPool -----------------------------
(***************************************************************************)
(* Instances of RepoPool for TLC: a few runs and generations.              *)
(***************************************************************************)
EXTENDS RepoPool, TLC

Symmetry == Permutations(Supervised) \cup Permutations(Runs \ Supervised)
=============================================================================
