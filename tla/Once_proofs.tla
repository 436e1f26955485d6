----------------------------- MODULE Once_proofs -----------------------------
(***************************************************************************)
(* DispatchOnce keeps its safety properties for every set of threads, with *)
(* and without the quiescent counter.                                      *)
(***************************************************************************)
EXTENDS DispatchOnce, TLAPS

\* What each program point knows about the gate.
GateKnown ==
    /\ runs = IF dgo_once = UNLOCKED THEN 0 ELSE 1
    /\ dgo_once.tag \in {"gen", "done"} => finished
    /\ finished => dgo_once # UNLOCKED
    /\ finished /\ dgo_once.tag = "locked" => pc[dgo_once.owner] = "broadcast"
    /\ \A t \in Threads :
         /\ pc[t] \in {"callout", "broadcast"} =>
              dgo_once.tag = "locked" /\ dgo_once.owner = t
         /\ pc[t] = "callout" => ~finished
         /\ pc[t] \in Waiting => dgo_once # UNLOCKED
         /\ pc[t] \in {"sleep", "asleep"} =>
              local[t].tag = "locked" /\ local[t].waiters = 1 /\ local[t].owner # t
         /\ pc[t] = "broadcast" => local[t].tag \in {"gen", "done"}
         /\ pc[t] \in {"mark", "store"} => dgo_once.tag \in {"gen", "done"}

\* The inductive invariant.
OnceInv == TypeOK /\ GateKnown /\ ReturnsAfterInit /\ NoLostSleeper /\ CrashesOnlyInCallout

\* A word of the gate determines, and is determined by, its fields.
LEMMA WordFields ==
    ASSUME NEW v \in Words
    PROVE  /\ v.tag \in {"unlocked", "locked", "gen", "done"}
           /\ v.tag = "unlocked" <=> v = UNLOCKED
           /\ v.tag = "done" <=> v = DONE
           /\ v.tag = "locked" => /\ v.owner \in Threads /\ v.waiters \in {0, 1}
                                  /\ v = Locked(v.owner, v.waiters)
           /\ v.tag = "gen" => v.gen \in 0 .. MaxGeneration /\ v = MAKE_GEN(v.gen)
  <1>1. CASE v \in {UNLOCKED, DONE}
    BY <1>1 DEF UNLOCKED, DONE, Word
  <1>2. CASE v \in {Locked(t, w) : t \in Threads, w \in {0, 1}}
    <2>1. PICK t \in Threads, w \in {0, 1} : v = Locked(t, w)
      BY <1>2
    <2> QED BY <2>1 DEF UNLOCKED, DONE, Locked, Word
  <1>3. CASE v \in {MAKE_GEN(g) : g \in 0 .. MaxGeneration}
    <2>1. PICK g \in 0 .. MaxGeneration : v = MAKE_GEN(g)
      BY <1>3
    <2> QED BY <2>1 DEF UNLOCKED, DONE, MAKE_GEN, Word
  <1> QED BY <1>1, <1>2, <1>3 DEF Words

\* The words that the code makes.
LEMMA NewWords ==
    /\ UNLOCKED \in Words /\ UNLOCKED.tag = "unlocked"
    /\ DONE \in Words /\ DONE.tag = "done"
    /\ \A t \in Threads, w \in {0, 1} :
         /\ Locked(t, w) \in Words
         /\ Locked(t, w).tag = "locked" /\ Locked(t, w).owner = t /\ Locked(t, w).waiters = w
    /\ \A g \in 0 .. MaxGeneration : MAKE_GEN(g) \in Words /\ MAKE_GEN(g).tag = "gen"
  <1>1. /\ UNLOCKED \in Words /\ UNLOCKED.tag = "unlocked"
        /\ DONE \in Words /\ DONE.tag = "done"
    BY DEF Words, UNLOCKED, DONE, Word
  <1>2. ASSUME NEW t \in Threads, NEW w \in {0, 1}
        PROVE  /\ Locked(t, w) \in Words
               /\ Locked(t, w).tag = "locked" /\ Locked(t, w).owner = t /\ Locked(t, w).waiters = w
    <2>1. Locked(t, w) \in Words
      BY DEF Words
    <2> QED BY <2>1 DEF Locked, Word
  <1>3. ASSUME NEW g \in 0 .. MaxGeneration
        PROVE  MAKE_GEN(g) \in Words /\ MAKE_GEN(g).tag = "gen"
    <2>1. MAKE_GEN(g) \in Words
      BY DEF Words
    <2> QED BY <2>1 DEF MAKE_GEN, Word
  <1> QED BY <1>1, <1>2, <1>3

\* Setting the waiters bit of a locked word.
LEMMA SetWaiters ==
    ASSUME NEW v \in Words, v.tag = "locked"
    PROVE  WithWaiters(v) = Locked(v.owner, 1)
  <1>1. PICK t \in Threads, w \in {0, 1} : v = Locked(t, w)
    BY WordFields
  <1> QED BY <1>1 DEF WithWaiters, Locked, Word

\* Where a read leads.
LEMMA AfterReadPoint ==
    ASSUME NEW v \in Words, NEW p
    PROVE  \/ v.tag = "done" /\ AfterRead(v, p) = "returned"
           \/ v.tag = "gen" /\ AfterRead(v, p) = "mark"
           \/ v.tag \in {"unlocked", "locked"} /\ AfterRead(v, p) = p
BY WordFields DEF AfterRead, IsDone, IS_GEN

-----------------------------------------------------------------------------
\* Init establishes the invariant.
LEMMA OnceInit == Init => OnceInv
  <1> SUFFICES ASSUME Init PROVE OnceInv
    OBVIOUS
  <1>1. TypeOK
    <2>1. dgo_once \in Words /\ local \in [Threads -> Words]
      BY NewWords DEF Init
    <2>2. generation \in 0 .. MaxGeneration /\ runs \in Nat
      BY OnceAssumption DEF Init
    <2>3. pc \in [Threads -> Points] /\ crashed \in BOOLEAN /\ finished \in BOOLEAN
      BY Zenon DEF Init, Points
    <2> QED BY <2>1, <2>2, <2>3 DEF TypeOK
  <1>2. GateKnown
    <2>1. dgo_once = UNLOCKED /\ dgo_once.tag = "unlocked" /\ runs = 0 /\ finished = FALSE
      BY NewWords DEF Init
    <2>2. \A t \in Threads : pc[t] = "idle"
      BY DEF Init
    <2> QED BY <2>1, <2>2 DEF GateKnown, Waiting
  <1>3. ReturnsAfterInit /\ NoLostSleeper /\ CrashesOnlyInCallout
    BY DEF Init, ReturnsAfterInit, NoLostSleeper, CrashesOnlyInCallout
  <1> QED BY <1>1, <1>2, <1>3 DEF OnceInv

\* Every step keeps the invariant, and moves the gate forward.
Forward ==
    /\ Rank(dgo_once') >= Rank(dgo_once)
    /\ dgo_once.tag = "locked" /\ dgo_once'.tag = "locked" =>
         dgo_once'.owner = dgo_once.owner /\ dgo_once'.waiters >= dgo_once.waiters
    /\ dgo_once.tag = "gen" /\ dgo_once'.tag = "gen" => dgo_once' = dgo_once

LEMMA OnceStep ==
    ASSUME OnceInv, [Next]_vars
    PROVE  OnceInv' /\ Forward
  <1> USE DEF OnceInv
  <1> DEFINE Invs == GateKnown' /\ ReturnsAfterInit' /\ NoLostSleeper' /\ CrashesOnlyInCallout'
  <1>1. ASSUME NEW t \in Threads, Call(t), ~crashed PROVE OnceInv' /\ Forward
    <2>1. TypeOK'
      BY <1>1, AfterReadPoint DEF TypeOK, Call, Goto, Points, Waiting
    <2>2. Invs
      BY <1>1, AfterReadPoint
      DEF TypeOK, Call, Goto, GateKnown, ReturnsAfterInit, NoLostSleeper, CrashesOnlyInCallout,
          At, Waiting, Points
    <2>3. Forward
      BY <1>1, WordFields DEF TypeOK, Call, Forward, Rank
    <2> QED BY <2>1, <2>2, <2>3
  <1>2. ASSUME NEW t \in Threads, TryEnter(t), ~crashed PROVE OnceInv' /\ Forward
    <2>1. TypeOK'
      BY <1>2, NewWords DEF TypeOK, TryEnter, Goto, Points, Waiting
    <2>2. Invs
      BY <1>2, NewWords, WordFields
      DEF TypeOK, TryEnter, CanEnter, Goto, GateKnown, ReturnsAfterInit, NoLostSleeper,
          CrashesOnlyInCallout, At, Waiting, Points
    <2>3. Forward
      BY <1>2, WordFields, NewWords DEF TypeOK, TryEnter, CanEnter, Forward, Rank
    <2> QED BY <2>1, <2>2, <2>3
  <1>3. ASSUME NEW t \in Threads, CalloutReturns(t), ~crashed PROVE OnceInv' /\ Forward
    <2>1. TypeOK'
      BY <1>3, NewWords, WordFields DEF TypeOK, CalloutReturns, FinalWord, Goto, Points, Waiting
    <2>2. Invs
      BY <1>3, NewWords, WordFields
      DEF TypeOK, CalloutReturns, FinalWord, Goto, GateKnown, ReturnsAfterInit, NoLostSleeper,
          CrashesOnlyInCallout, At, Waiting, Points
    <2>3. Forward
      BY <1>3, NewWords, WordFields DEF TypeOK, CalloutReturns, GateKnown, Forward, Rank
    <2> QED BY <2>1, <2>2, <2>3
  <1>4. ASSUME NEW t \in Threads, StoreDone(t), ~crashed PROVE OnceInv' /\ Forward
    <2>1. TypeOK'
      BY <1>4, NewWords DEF TypeOK, StoreDone, Goto, Points, Waiting
    <2>2. Invs
      BY <1>4, NewWords
      DEF TypeOK, StoreDone, Goto, GateKnown, ReturnsAfterInit, NoLostSleeper,
          CrashesOnlyInCallout, At, Waiting, Points
    <2>3. Forward
      BY <1>4, NewWords, WordFields DEF TypeOK, StoreDone, GateKnown, Forward, Rank
    <2> QED BY <2>1, <2>2, <2>3
  <1>5. ASSUME NEW t \in Threads, Broadcast(t), ~crashed PROVE OnceInv' /\ Forward
    <2>1. TypeOK'
      BY <1>5, NewWords, WordFields DEF TypeOK, Broadcast, NeedsWake, Goto, Points, Waiting
    <2>2. Invs
      BY <1>5, NewWords, WordFields
      DEF TypeOK, Broadcast, NeedsWake, Goto, GateKnown, ReturnsAfterInit, NoLostSleeper,
          CrashesOnlyInCallout, At, Waiting, Points
    <2>3. Forward
      BY <1>5, NewWords, WordFields DEF TypeOK, Broadcast, NeedsWake, GateKnown, Forward, Rank
    <2> QED BY <2>1, <2>2, <2>3
  <1>6. ASSUME NEW t \in Threads, WakeAll(t), ~crashed PROVE OnceInv' /\ Forward
    <2>1. TypeOK'
      BY <1>6, WordFields DEF TypeOK, WakeAll, Goto, Points, Waiting
    <2>2. Invs
      BY <1>6, WordFields
      DEF TypeOK, WakeAll, Goto, GateKnown, ReturnsAfterInit, NoLostSleeper,
          CrashesOnlyInCallout, At, Waiting, Points
    <2>3. Forward
      BY <1>6, WordFields DEF TypeOK, WakeAll, GateKnown, Forward, Rank
    <2> QED BY <2>1, <2>2, <2>3
  <1>7. ASSUME NEW t \in Threads, WaitLoop(t), ~crashed PROVE OnceInv' /\ Forward
    <2>1. dgo_once \in Words /\ dgo_once # UNLOCKED /\ pc[t] = "wait"
      BY <1>7 DEF TypeOK, WaitLoop, GateKnown, Waiting
    <2>2. CASE dgo_once.tag = "locked"
      <3>1. /\ dgo_once' = Locked(dgo_once.owner, 1) /\ dgo_once.owner \in Threads
            /\ local' = [local EXCEPT ![t] = Locked(dgo_once.owner, 1)]
            /\ pc' = [pc EXCEPT ![t] = IF dgo_once.owner = t THEN "wait" ELSE "sleep"]
            /\ crashed' = (dgo_once.owner = t)
            /\ dgo_once.waiters \in {0, 1}
        BY <1>7, <2>1, <2>2, WordFields, SetWaiters DEF WaitLoop, Goto, IsDone, IS_GEN, LockedBySelf
      <3>2. /\ dgo_once' \in Words /\ dgo_once'.tag = "locked"
            /\ dgo_once'.owner = dgo_once.owner /\ dgo_once'.waiters = 1
        BY <3>1, NewWords
      <3>3. UNCHANGED <<generation, runs, finished>>
        BY <1>7 DEF WaitLoop
      <3>4. TypeOK'
        BY <3>1, <3>2, <3>3 DEF TypeOK, Points, Waiting
      <3>5. dgo_once' # UNLOCKED
        BY <3>2, NewWords
      <3>6. Forward
        BY <2>2, <3>1, <3>2 DEF Forward, Rank
      <3>7. CASE dgo_once.owner = t
        <4>1. ~finished
          BY <2>1, <2>2, <3>7 DEF GateKnown
        <4>2. pc' = pc
          BY <2>1, <3>1, <3>7 DEF TypeOK
        <4> QED BY <2>1, <2>2, <3>1, <3>2, <3>3, <3>4, <3>5, <3>6, <3>7, <4>1, <4>2
                DEF TypeOK, GateKnown, ReturnsAfterInit, NoLostSleeper, CrashesOnlyInCallout, At,
                    Waiting, Points
      <3>8. CASE dgo_once.owner # t
        <4>1. pc' = [pc EXCEPT ![t] = "sleep"] /\ crashed' = FALSE
          BY <3>1, <3>8, Zenon
        <4>2. local'[t].tag = "locked" /\ local'[t].waiters = 1 /\ local'[t].owner # t
          BY <3>1, <3>2, <3>8 DEF TypeOK
        <4> QED BY <2>1, <2>2, <3>1, <3>2, <3>3, <3>4, <3>5, <3>6, <3>8, <4>1, <4>2
                DEF TypeOK, GateKnown, ReturnsAfterInit, NoLostSleeper, CrashesOnlyInCallout, At,
                    Waiting, Points
      <3> QED BY <3>7, <3>8
    <2>3. CASE dgo_once.tag \in {"gen", "done"}
      <3>1. /\ dgo_once' = dgo_once
            /\ local' = [local EXCEPT ![t] = dgo_once]
            /\ pc' \in {[pc EXCEPT ![t] = "mark"], [pc EXCEPT ![t] = "returned"]}
            /\ crashed' = crashed
        BY <1>7, <2>1, <2>3, WordFields, AfterReadPoint DEF WaitLoop, Goto, IsDone, IS_GEN
      <3>2. UNCHANGED <<generation, runs, finished>>
        BY <1>7 DEF WaitLoop
      <3>3. TypeOK'
        BY <2>1, <3>1, <3>2 DEF TypeOK, Points, Waiting
      <3>4. Invs
        BY <2>1, <2>3, <3>1, <3>2
        DEF TypeOK, GateKnown, ReturnsAfterInit, NoLostSleeper, CrashesOnlyInCallout, At, Waiting, Points
      <3>5. Forward
        BY <2>3, <3>1 DEF Forward, Rank
      <3> QED BY <3>3, <3>4, <3>5
    <2> QED BY <2>1, <2>2, <2>3, WordFields
  <1>8. ASSUME NEW t \in Threads, Sleep(t), ~crashed PROVE OnceInv' /\ Forward
    <2>1. TypeOK'
      BY <1>8, WordFields DEF TypeOK, Sleep, Sleeps, Goto, Points, Waiting
    <2>2. Invs
      BY <1>8, WordFields
      DEF TypeOK, Sleep, Sleeps, Goto, GateKnown, ReturnsAfterInit, NoLostSleeper,
          CrashesOnlyInCallout, At, Waiting, Points
    <2>3. Forward
      BY <1>8, WordFields DEF TypeOK, Sleep, Sleeps, GateKnown, Forward, Rank
    <2> QED BY <2>1, <2>2, <2>3
  <1>9. ASSUME NEW t \in Threads, Interrupt(t), ~crashed PROVE OnceInv' /\ Forward
    <2>1. TypeOK'
      BY <1>9, WordFields DEF TypeOK, Interrupt, Goto, Points, Waiting
    <2>2. Invs
      BY <1>9, WordFields
      DEF TypeOK, Interrupt, Goto, GateKnown, ReturnsAfterInit, NoLostSleeper,
          CrashesOnlyInCallout, At, Waiting, Points
    <2>3. Forward
      BY <1>9, WordFields DEF TypeOK, Interrupt, GateKnown, Forward, Rank
    <2> QED BY <2>1, <2>2, <2>3
  <1>10. ASSUME NEW t \in Threads, MarkDone(t), ~crashed PROVE OnceInv' /\ Forward
    <2>1. TypeOK'
      BY <1>10, NewWords, WordFields DEF TypeOK, MarkDone, Goto, Points, Waiting
    <2>2. Invs
      BY <1>10
      DEF TypeOK, MarkDone, Goto, GateKnown, ReturnsAfterInit, NoLostSleeper,
          CrashesOnlyInCallout, At, Waiting, Points
    <2>3. Forward
      BY <1>10, NewWords, WordFields DEF TypeOK, MarkDone, GateKnown, Forward, Rank
    <2> QED BY <2>1, <2>2, <2>3
  <1>11. ASSUME NEW t \in Threads, Again(t), ~crashed PROVE OnceInv' /\ Forward
    <2>1. TypeOK'
      BY <1>11, WordFields DEF TypeOK, Again, Goto, Points, Waiting
    <2>2. Invs
      BY <1>11, WordFields
      DEF TypeOK, Again, Goto, GateKnown, ReturnsAfterInit, NoLostSleeper, CrashesOnlyInCallout,
          At, Waiting, Points
    <2>3. Forward
      BY <1>11, WordFields DEF TypeOK, Again, GateKnown, Forward, Rank
    <2> QED BY <2>1, <2>2, <2>3
  <1>12. ASSUME Quiesce, ~crashed PROVE OnceInv' /\ Forward
    <2>1. TypeOK'
      BY <1>12, OnceAssumption DEF TypeOK, Quiesce
    <2>2. Invs
      BY <1>12
      DEF Quiesce, GateKnown, ReturnsAfterInit, NoLostSleeper, CrashesOnlyInCallout, At,
          Waiting, Points
    <2>3. Forward
      BY <1>12, WordFields DEF TypeOK, Quiesce, Forward, Rank
    <2> QED BY <2>1, <2>2, <2>3
  <1>13. ASSUME UNCHANGED vars PROVE OnceInv' /\ Forward
    <2>1. TypeOK'
      BY <1>13 DEF TypeOK, vars
    <2>2. Invs
      BY <1>13
      DEF vars, GateKnown, ReturnsAfterInit, NoLostSleeper, CrashesOnlyInCallout, At, Waiting,
          Points
    <2>3. Forward
      BY <1>13, WordFields DEF TypeOK, vars, Forward, Rank
    <2> QED BY <2>1, <2>2, <2>3
  <1> QED
    BY <1>1, <1>2, <1>3, <1>4, <1>5, <1>6, <1>7, <1>8, <1>9, <1>10, <1>11, <1>12, <1>13
    DEF Next, Step

\* dispatch_once(): the initializer is started at most once, no caller gets past
\* it before it has returned, no thread sleeps through the broadcast, and only a
\* recursive initializer crashes.
THEOREM OnceSafe ==
    Spec => [](TypeOK /\ RunsOnce /\ ReturnsAfterInit /\ NoLostSleeper /\ CrashesOnlyInCallout)
  <1>1. OnceInv /\ [Next]_vars => OnceInv'
    BY OnceStep
  <1>2. OnceInv => TypeOK /\ RunsOnce /\ ReturnsAfterInit /\ NoLostSleeper /\ CrashesOnlyInCallout
    BY DEF OnceInv, GateKnown, RunsOnce
  <1> QED BY OnceInit, <1>1, <1>2, PTL DEF Spec

\* The gate of dispatch_once() only moves forward.
THEOREM OnceForward == Spec => GateMovesForward
  <1>1. OnceInv /\ [Next]_vars => OnceInv'
    BY OnceStep
  <1>2. OnceInv /\ [Next]_vars => [Forward]_vars
    BY OnceStep
  <1>3. Spec => [][Forward]_vars
    BY OnceInit, <1>1, <1>2, PTL DEF Spec
  <1> QED BY <1>3 DEF GateMovesForward, Forward
==============================================================================
