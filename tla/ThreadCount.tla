----------------------------- MODULE ThreadCount -----------------------------
(***************************************************************************)
(* Counting the threads that are at given program points.  Every component *)
(* of the project keeps a function pc from threads to program points, and  *)
(* its invariants relate a counter of the code to the number of threads    *)
(* that are inside some window of the code.                                *)
(***************************************************************************)
EXTENDS Integers, FiniteSets

\* The threads whose program point, in the control state f, is in P.
At(f, P) == {t \in DOMAIN f : f[t] \in P}

\* How many they are.
Count(f, P) == Cardinality(At(f, P))

\* An increment of 1 when a condition holds.
Bit(b) == IF b THEN 1 ELSE 0
==============================================================================
