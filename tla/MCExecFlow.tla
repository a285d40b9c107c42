----------------------------- MODULE MCExecFlow -----------------------------
(***************************************************************************)
(* Instances of ExecFlow for TLC: a small batch instead of six audits, and *)
(* a few trees and session ids.                                            *)
(***************************************************************************)
EXTENDS ExecFlow, TLC

Symmetry == Permutations(Trees) \cup Permutations(Auditors)
=============================================================================
