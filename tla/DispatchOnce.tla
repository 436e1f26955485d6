---------------------------- MODULE DispatchOnce ----------------------------
(***************************************************************************)
(* dispatch_once() (once.c) and the gate it is built on (shims/lock.h and  *)
(* shims/lock.c).  The gate is one word: unlocked, locked by the thread    *)
(* that runs the initializer, perhaps with waiters, or done.  With         *)
(* DISPATCH_ONCE_USE_QUIESCENT_COUNTER the initializer first leaves the    *)
(* generation of the kernel's quiescent counter in the word, and a later   *)
(* caller replaces it by done once the counter has advanced far enough.    *)
(* Memory is sequentially consistent here.                                 *)
(***************************************************************************)
EXTENDS ThreadCount

CONSTANTS Threads, NULL,
          Quiescent,     \* DISPATCH_ONCE_USE_QUIESCENT_COUNTER
          SAFE_DELTA,    \* DISPATCH_ONCE_GEN_SAFE_DELTA, in generations
          MaxGeneration  \* bound on the quiescent counter

ASSUME OnceAssumption ==
    /\ IsFiniteSet(Threads) /\ NULL \notin Threads
    /\ Quiescent \in BOOLEAN /\ SAFE_DELTA \in Nat /\ MaxGeneration \in Nat

VARIABLES dgo_once,     \* the gate
          generation,   \* the kernel's quiescent counter
          pc,
          local,        \* the word a thread has read or written last
          crashed,
          runs,         \* history: how often the initializer was started
          finished      \* history: has it returned?

vars == <<dgo_once, generation, pc, local, crashed, runs, finished>>

Word(tag, owner, waiters, gen) ==
    [tag |-> tag, owner |-> owner, waiters |-> waiters, gen |-> gen]

UNLOCKED == Word("unlocked", NULL, 0, 0)
DONE     == Word("done", NULL, 0, 0)
Locked(t, waiters) == Word("locked", t, waiters, 0)
MAKE_GEN(g) == Word("gen", NULL, 0, g)
WithWaiters(v) == Word(v.tag, v.owner, 1, v.gen)

Words == {UNLOCKED, DONE} \cup {Locked(t, w) : t \in Threads, w \in {0, 1}}
             \cup {MAKE_GEN(g) : g \in 0 .. MaxGeneration}

IS_GEN(v) == v.tag = "gen"

Waiting == {"wait", "sleep", "asleep"}
Points == {"idle", "tryenter", "callout", "broadcast", "wake", "mark", "store", "returned"}
              \cup Waiting

Init ==
    /\ dgo_once = UNLOCKED
    /\ generation = 0
    /\ pc = [t \in Threads |-> "idle"]
    /\ local = [t \in Threads |-> UNLOCKED]
    /\ crashed = FALSE
    /\ runs = 0
    /\ finished = FALSE

Goto(t, p) == pc' = [pc EXCEPT ![t] = p]

\* Where a thread goes that has read v: a generation is as good as done.
NeverDoneMutant(v) == FALSE
IsDoneMutant(v) == v.tag # "unlocked"
IsDone(v) == v = DONE

AfterRead(v, otherwise) ==
    IF IsDone(v) THEN "returned" ELSE IF IS_GEN(v) THEN "mark" ELSE otherwise

-----------------------------------------------------------------------------
\* dispatch_once_f() up to the compare-and-swap.  The initializer may call it
\* again with the same predicate.
Call(t) ==
    /\ pc[t] \in {"idle", "callout"}
    /\ local' = [local EXCEPT ![t] = dgo_once]
    /\ Goto(t, AfterRead(dgo_once, "tryenter"))
    /\ UNCHANGED <<dgo_once, generation, crashed, runs, finished>>

\* _dispatch_once_gate_tryenter(): the winner runs the initializer.
CanEnterMutant(v) == v.tag # "locked"
CanEnter(v) == v = UNLOCKED

TryEnter(t) ==
    /\ pc[t] = "tryenter"
    /\ IF CanEnter(dgo_once)
         THEN /\ dgo_once' = Locked(t, 0)
              /\ runs' = runs + 1
              /\ Goto(t, "callout")
         ELSE /\ Goto(t, "wait")
              /\ UNCHANGED <<dgo_once, runs>>
    /\ UNCHANGED <<generation, local, crashed, finished>>

\* The word that the broadcast leaves: with the quiescent counter, its
\* generation of this moment.
FinalWord == IF Quiescent THEN MAKE_GEN(generation) ELSE DONE

\* The initializer returns, and _dispatch_once_mark_quiescing() reads the
\* counter, some time before it exchanges the words.
CalloutReturns(t) ==
    /\ pc[t] = "callout"
    /\ finished' = TRUE
    /\ local' = [local EXCEPT ![t] = FinalWord]
    /\ Goto(t, "broadcast")
    /\ UNCHANGED <<dgo_once, generation, crashed, runs>>

\* _dispatch_once_gate_broadcast(), the exchange: only a word with the waiters bit needs the
\* slow path, which checks that the caller is the owner.
NeedsWakeMutant(v, t) == v.owner # t
NeedsWake(v, t) == v # Locked(t, 0)

Broadcast(t) ==
    /\ pc[t] = "broadcast"
    /\ dgo_once' = local[t]
    /\ Goto(t, IF NeedsWake(dgo_once, t) THEN "wake" ELSE "returned")
    /\ crashed' = (NeedsWake(dgo_once, t) /\ dgo_once.owner # t)
    /\ UNCHANGED <<generation, local, runs, finished>>

\* _dispatch_gate_broadcast_slow(): wake every thread that sleeps on the word.
WakeAll(t) ==
    /\ pc[t] = "wake"
    /\ pc' = [u \in Threads |-> IF u = t THEN "returned"
                                ELSE IF pc[u] = "asleep" THEN "wait" ELSE pc[u]]
    /\ UNCHANGED <<dgo_once, generation, local, crashed, runs, finished>>

-----------------------------------------------------------------------------
\* _dispatch_once_wait(): the read-modify-write loop, and the check that it is
\* not the initializer that waits, for itself.
NotRecursiveMutant(v, t) == FALSE
AnyOwnerMutant(v, t) == v.tag = "locked"
LockedBySelf(v, t) == v.tag = "locked" /\ v.owner = t

WaitLoop(t) ==
    LET v == dgo_once IN
    /\ pc[t] = "wait"
    /\ \/ /\ IsDone(v) \/ IS_GEN(v)
          /\ local' = [local EXCEPT ![t] = v]
          /\ Goto(t, AfterRead(v, "sleep"))
          /\ UNCHANGED <<dgo_once, crashed>>
       \/ /\ ~(IsDone(v) \/ IS_GEN(v))
          /\ dgo_once' = WithWaiters(v)
          /\ local' = [local EXCEPT ![t] = WithWaiters(v)]
          /\ crashed' = LockedBySelf(v, t)
          /\ Goto(t, IF LockedBySelf(v, t) THEN "wait" ELSE "sleep")
    /\ UNCHANGED <<generation, runs, finished>>

\* The kernel compares the word with the one the loop left, and sleeps.
Sleeps(t) == dgo_once = local[t]

Sleep(t) ==
    /\ pc[t] = "sleep"
    /\ Goto(t, IF Sleeps(t) THEN "asleep" ELSE "wait")
    /\ UNCHANGED <<dgo_once, generation, local, crashed, runs, finished>>

\* It may return early: _dlock_wait() sleeps again after a signal, and lets
\* its caller try again after a fault.
Interrupt(t) ==
    /\ pc[t] = "asleep"
    /\ \E p \in {"sleep", "wait"} : Goto(t, p)
    /\ UNCHANGED <<dgo_once, generation, local, crashed, runs, finished>>

\* _dispatch_once_mark_done_if_quiesced(): has the counter advanced far enough?
MarkDone(t) ==
    /\ pc[t] = "mark"
    /\ Goto(t, IF generation - local[t].gen >= SAFE_DELTA THEN "store" ELSE "returned")
    /\ UNCHANGED <<dgo_once, generation, local, crashed, runs, finished>>

\* Its store, whatever the gate has become in the meantime.
StoreDone(t) ==
    /\ pc[t] = "store"
    /\ dgo_once' = DONE
    /\ Goto(t, "returned")
    /\ UNCHANGED <<generation, local, crashed, runs, finished>>

\* The kernel advances the counter when every CPU has switched contexts.
Quiesce ==
    /\ generation < MaxGeneration
    /\ generation' = generation + 1
    /\ UNCHANGED <<dgo_once, pc, local, crashed, runs, finished>>

\* The client calls again.
Again(t) ==
    /\ pc[t] = "returned"
    /\ Goto(t, "idle")
    /\ UNCHANGED <<dgo_once, generation, local, crashed, runs, finished>>

-----------------------------------------------------------------------------
Step(t) ==
    \/ TryEnter(t) \/ Broadcast(t) \/ WakeAll(t)
    \/ WaitLoop(t) \/ Sleep(t) \/ MarkDone(t) \/ StoreDone(t)

Next ==
    /\ ~crashed
    /\ \/ Quiesce
       \/ \E t \in Threads :
            Call(t) \/ Step(t) \/ CalloutReturns(t) \/ Interrupt(t) \/ Again(t)

Spec == Init /\ [][Next]_vars

\* Threads inside a call are scheduled, and an initializer that does not call
\* itself returns.
FairSpec ==
    Spec /\ \A t \in Threads : WF_vars(~crashed /\ (Step(t) \/ CalloutReturns(t)))

-----------------------------------------------------------------------------
(* Properties *)

\* The types of the gate, the counter and the locals.
TypeOK ==
    /\ dgo_once \in Words
    /\ generation \in 0 .. MaxGeneration
    /\ pc \in [Threads -> Points]
    /\ local \in [Threads -> Words]
    /\ crashed \in BOOLEAN /\ runs \in Nat /\ finished \in BOOLEAN

\* The initializer is started at most once, whatever callers race for it
\* (the compare-and-swap of _dispatch_once_gate_tryenter()).
RunsOnce == runs <= 1

\* No caller of dispatch_once_f() returns, or is about to, before the
\* initializer has: neither through the fast path, nor after waiting, nor
\* after having been woken early.
ReturnsAfterInit ==
    \A t \in Threads :
        pc[t] \in {"returned", "mark", "store", "wake", "broadcast"} => finished

\* A thread asleep on the gate waits for another thread's initializer, and the
\* waiters bit of the locked gate announces it, or the broadcast that wakes it
\* is still to come (_dispatch_once_wait() against
\* _dispatch_once_gate_broadcast()): nobody sleeps on a lock of their own.
NoLostSleeper ==
    \A t \in Threads : pc[t] = "asleep" =>
        \/ dgo_once.tag = "locked" /\ dgo_once.waiters = 1 /\ dgo_once.owner # t
        \/ At(pc, {"wake"}) # {}

\* The only crash is the one of an initializer that calls itself, in
\* _dispatch_once_wait(), while it has not returned: the check there never
\* takes another waiter for the owner, and the owner check of
\* _dispatch_gate_broadcast_slow() never fails.
CrashesOnlyInCallout ==
    crashed => /\ ~finished
               /\ dgo_once.tag = "locked"
               /\ pc[dgo_once.owner] = "wait"

\* The gate only moves forward, from unlocked through locked and perhaps a
\* generation to done, and a lock never changes hands: in particular no late
\* waiter or late dgo_once store puts it back.
Rank(v) == CASE v.tag = "unlocked" -> 0 [] v.tag = "locked" -> 1
             [] v.tag = "gen" -> 2 [] v.tag = "done" -> 3

GateMovesForward ==
    [][ /\ Rank(dgo_once') >= Rank(dgo_once)
        /\ dgo_once.tag = "locked" /\ dgo_once'.tag = "locked" =>
             dgo_once'.owner = dgo_once.owner /\ dgo_once'.waiters >= dgo_once.waiters
        /\ dgo_once.tag = "gen" /\ dgo_once'.tag = "gen" => dgo_once' = dgo_once ]_vars

\* Every call returns, unless the initializer crashes by calling itself.
CallsReturn ==
    \A t \in Threads : pc[t] \in Points \ {"idle", "returned"} ~> pc[t] = "returned" \/ crashed
==============================================================================
