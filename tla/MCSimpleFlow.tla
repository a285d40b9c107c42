---------------------------- MODULE MCSimpleFlow ----------------------------
(***************************************************************************)
(* Instances of SimpleFlow for TLC: a small budget and a short streak.     *)
(***************************************************************************)
EXTENDS SimpleFlow, TLC

Symmetry == Permutations(Specs)
=============================================================================
