------------------------------ MODULE MCUnfair ------------------------------
(* Instances of UnfairLock for TLC. *)
EXTENDS UnfairLock, TLC

Symmetry == Permutations(Threads)
==============================================================================
