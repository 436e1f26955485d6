-------------------------- MODULE ThreadCount_proofs --------------------------
(* Facts about counting threads, used by the proofs of the components. *)
EXTENDS ThreadCount, FiniteSetTheorems, TLAPS

\* The number of threads in a window of the code is a natural number, no
\* larger than the number of threads, and 0 exactly when the window is empty.
LEMMA CountType ==
    ASSUME NEW S, IsFiniteSet(S), NEW V, NEW f \in [S -> V], NEW P
    PROVE  /\ IsFiniteSet(At(f, P))
           /\ Count(f, P) \in Nat
           /\ Count(f, P) <= Cardinality(S)
           /\ Count(f, P) = 0 <=> At(f, P) = {}
  <1>1. At(f, P) \in SUBSET S
    BY DEF At
  <1> QED BY <1>1, FS_Subset, FS_CardinalityType, FS_EmptySet DEF Count

\* When one thread moves, a window gains it if it moves in, loses it if it
\* moves out, and is the same set of threads otherwise.
LEMMA CountMove ==
    ASSUME NEW S, IsFiniteSet(S), NEW V, NEW f \in [S -> V], NEW g \in [S -> V],
           NEW t \in S, \A u \in S : u # t => g[u] = f[u], NEW P
    PROVE  /\ (g[t] \in P /\ f[t] \in P) \/ (g[t] \notin P /\ f[t] \notin P)
                => At(g, P) = At(f, P) /\ Count(g, P) = Count(f, P)
           /\ g[t] \in P /\ f[t] \notin P
                => /\ At(g, P) = At(f, P) \cup {t}
                   /\ t \notin At(f, P)
                   /\ Count(g, P) = Count(f, P) + 1
           /\ g[t] \notin P /\ f[t] \in P
                => /\ At(g, P) = At(f, P) \ {t}
                   /\ t \in At(f, P)
                   /\ Count(g, P) = Count(f, P) - 1
  <1>1. IsFiniteSet(At(f, P))
    BY CountType
  <1>2. ASSUME (g[t] \in P /\ f[t] \in P) \/ (g[t] \notin P /\ f[t] \notin P)
        PROVE  At(g, P) = At(f, P) /\ Count(g, P) = Count(f, P)
    <2>1. At(g, P) = At(f, P) BY <1>2 DEF At
    <2> QED BY <2>1 DEF Count
  <1>3. ASSUME g[t] \in P, f[t] \notin P
        PROVE  /\ At(g, P) = At(f, P) \cup {t}
               /\ t \notin At(f, P)
               /\ Count(g, P) = Count(f, P) + 1
    <2>1. At(g, P) = At(f, P) \cup {t} BY <1>3 DEF At
    <2>2. t \notin At(f, P) BY <1>3 DEF At
    <2> QED BY <1>1, <2>1, <2>2, FS_AddElement, Zenon DEF Count
  <1>4. ASSUME g[t] \notin P, f[t] \in P
        PROVE  /\ At(g, P) = At(f, P) \ {t}
               /\ t \in At(f, P)
               /\ Count(g, P) = Count(f, P) - 1
    <2>1. At(g, P) = At(f, P) \ {t} BY <1>4 DEF At
    <2>2. t \in At(f, P) BY <1>4 DEF At
    <2> QED BY <1>1, <2>1, <2>2, FS_RemoveElement, Zenon DEF Count
  <1> QED BY <1>2, <1>3, <1>4
==============================================================================
