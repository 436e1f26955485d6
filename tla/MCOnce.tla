------------------------------- MODULE MCOnce -------------------------------
(* Instances of DispatchOnce for TLC. *)
EXTENDS DispatchOnce, TLC

Symmetry == Permutations(Threads)
==============================================================================
