----------------------------- MODULE MCSemaphore -----------------------------
(* Model checking DispatchSemaphore. *)
EXTENDS DispatchSemaphore, TLC

\* The threads are interchangeable: no definition names one of them.  Used in
\* the runs that check invariants only.
Symmetry == Permutations(Threads)
==============================================================================
