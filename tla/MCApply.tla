------------------------------- MODULE MCApply -------------------------------
(* Instances of DispatchApply for TLC. *)
EXTENDS DispatchApply, TLC

Symmetry == Permutations(Workers)
==============================================================================
