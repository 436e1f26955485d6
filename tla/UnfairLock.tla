----------------------------- MODULE UnfairLock -----------------------------
(***************************************************************************)
(* dispatch_unfair_lock_t (shims/lock.h, shims/lock.c) on top of the       *)
(* kernel's ulock (xnu, bsd/kern/sys_ulock.c, operation UL_UNFAIR_LOCK).   *)
(*                                                                         *)
(* The lock is one word: the owner, a waiters bit and a failed-trylock     *)
(* bit.  The kernel keeps its own record of the lock, the ull: how many    *)
(* threads are inside ulock_wait(), and the thread it believes to be the   *)
(* owner; a wake from any other thread is ignored as late.  Each kernel    *)
(* call holds the ull's spin lock and is one action.                       *)
(***************************************************************************)
EXTENDS ThreadCount

CONSTANTS Threads, NULL

ASSUME UnfairAssumption == IsFiniteSet(Threads) /\ NULL \notin Threads

VARIABLES dul_lock,       \* the word
          ull_nwaiters, ull_owner,
          pc,
          next,           \* the waiters bit a thread will set when it gets the lock
          expected,       \* the word it passes to ulock_wait()
          crashed,
          missed          \* history: has a trylock failed that the owner does not know of?

vars == <<dul_lock, ull_nwaiters, ull_owner, pc, next, expected, crashed, missed>>
kernel == <<ull_nwaiters, ull_owner>>

Word(owner, waiters, failed) == [owner |-> owner, waiters |-> waiters, failed |-> failed]
UNLOCKED == Word(NULL, 0, 0)
Words == [owner : Threads, waiters : {0, 1}, failed : {0, 1}] \cup {UNLOCKED}

\* _dispatch_lock_is_locked()
NeverFreeMutant(v) == TRUE
IsLockedMutant(v) == v.owner # NULL /\ v.failed = 0
IsLocked(v) == v.owner # NULL

InKernel == {"asleep", "woken", "aborted"}
Points == {"idle", "slow", "wait", "held", "wake"} \cup InKernel

Init ==
    /\ dul_lock = UNLOCKED
    /\ ull_nwaiters = 0 /\ ull_owner = NULL
    /\ pc = [t \in Threads |-> "idle"]
    /\ next = [t \in Threads |-> 0]
    /\ expected = [t \in Threads |-> UNLOCKED]
    /\ crashed = FALSE
    /\ missed = FALSE

Goto(t, p) == pc' = [pc EXCEPT ![t] = p]

-----------------------------------------------------------------------------
(* The lock, in user space *)

\* _dispatch_unfair_lock_lock(): the fast path.
Lock(t) ==
    /\ pc[t] = "idle"
    /\ IF dul_lock = UNLOCKED
         THEN dul_lock' = Word(t, 0, 0) /\ Goto(t, "held")
         ELSE dul_lock' = dul_lock /\ Goto(t, "slow")
    /\ UNCHANGED <<kernel, next, expected, crashed, missed>>

\* The read-modify-write loop of _dispatch_unfair_lock_lock_slow().
LockSlow(t) ==
    LET old == dul_lock
        new == IF IsLocked(old) THEN Word(old.owner, 1, old.failed)
                               ELSE Word(t, next[t], 0)
    IN  /\ pc[t] = "slow"
        /\ dul_lock' = new
        /\ IF IsLocked(old)
             THEN /\ Goto(t, "wait")
                  /\ expected' = [expected EXCEPT ![t] = new]
                  /\ UNCHANGED next
             ELSE /\ Goto(t, "held")
                  /\ next' = [next EXCEPT ![t] = 0]
                  /\ expected' = [expected EXCEPT ![t] = UNLOCKED]
        /\ UNCHANGED <<kernel, crashed, missed>>

\* A thread that holds the lock takes it again.
LockRecursively(t) ==
    /\ pc[t] = "held"
    /\ dul_lock' = Word(dul_lock.owner, 1, dul_lock.failed)
    /\ crashed' = TRUE
    /\ UNCHANGED <<kernel, pc, next, expected, missed>>

\* _dispatch_unfair_lock_trylock(): a failure leaves a mark for the owner.
TryLock(t) ==
    /\ pc[t] = "idle"
    /\ IF IsLocked(dul_lock)
         THEN dul_lock' = Word(dul_lock.owner, dul_lock.waiters, 1) /\ missed' = TRUE /\ UNCHANGED pc
         ELSE dul_lock' = Word(t, 0, 0) /\ Goto(t, "held") /\ UNCHANGED missed
    /\ UNCHANGED <<kernel, next, expected, crashed>>

\* Must the thread that replaced the word cur by UNLOCKED wake someone?
MustWakeMutant(cur) == cur.waiters = 1 /\ cur.failed = 0
MustWake(cur) == cur.waiters = 1

\* _dispatch_unfair_lock_unlock_had_failed_trylock(): the exchange, and the
\* report of a failed trylock.
Unlock(t) ==
    /\ pc[t] = "held"
    /\ dul_lock' = UNLOCKED
    /\ crashed' = (dul_lock.owner # t)
    /\ missed' = (missed /\ dul_lock.failed = 0)
    /\ Goto(t, IF MustWake(dul_lock) THEN "wake" ELSE "idle")
    /\ UNCHANGED <<kernel, next, expected>>

\* _dispatch_unfair_lock_tryunlock(): keep the lock when a trylock has failed.
RefusesMutant(cur) == cur.failed = 1 /\ cur.waiters = 0
Refuses(cur) == cur.failed = 1

TryUnlock(t) ==
    /\ pc[t] = "held"
    /\ IF Refuses(dul_lock)
         THEN /\ dul_lock' = Word(dul_lock.owner, dul_lock.waiters, 0)
              /\ missed' = FALSE
              /\ UNCHANGED <<pc, crashed>>
         ELSE /\ dul_lock' = UNLOCKED
              /\ Goto(t, IF MustWake(dul_lock) THEN "wake" ELSE "idle")
              /\ crashed' = (MustWake(dul_lock) /\ dul_lock.owner # t)
              /\ UNCHANGED missed
    /\ UNCHANGED <<kernel, next, expected>>

-----------------------------------------------------------------------------
(* The kernel *)

\* rc > 0 is ENOTEMPTY to _dlock_wait(): the lock will be taken with the
\* waiters bit set.
KeepsBitMutant(t, rc) == next[t]
KeepsBit(t, rc) == IF rc > 0 THEN 1 ELSE next[t]

\* ulock_wait(): a word that is not the expected one returns at once ...
WaitStale(t) ==
    /\ pc[t] = "wait" /\ dul_lock # expected[t]
    /\ next' = [next EXCEPT ![t] = KeepsBit(t, ull_nwaiters)]
    /\ Goto(t, "slow")
    /\ UNCHANGED <<dul_lock, kernel, expected, crashed, missed>>

\* ... as does one that cannot be read without a page fault (EFAULT) ...
WaitFault(t) ==
    /\ pc[t] = "wait"
    /\ Goto(t, "slow")
    /\ UNCHANGED <<dul_lock, kernel, next, expected, crashed, missed>>

\* ... and otherwise the thread sleeps, and its owner becomes the known owner.
WaitSleep(t) ==
    /\ pc[t] = "wait" /\ dul_lock = expected[t]
    /\ ull_nwaiters' = ull_nwaiters + 1
    /\ ull_owner' = dul_lock.owner
    /\ Goto(t, "asleep")
    /\ UNCHANGED <<dul_lock, next, expected, crashed, missed>>

\* A signal ends the sleep.
Abort(t) ==
    /\ pc[t] = "asleep"
    /\ Goto(t, "aborted")
    /\ UNCHANGED <<dul_lock, kernel, next, expected, crashed, missed>>

\* ulock_wait_cleanup(), and what _dlock_wait() does with the result: the
\* others that still wait, or EINTR, after which it waits again.
Cleanup(t) ==
    /\ pc[t] \in {"woken", "aborted"}
    /\ ull_nwaiters' = ull_nwaiters - 1
    /\ ull_owner' = IF ull_nwaiters = 1 THEN NULL ELSE ull_owner
    /\ IF pc[t] = "woken"
         THEN Goto(t, "slow") /\ next' = [next EXCEPT ![t] = KeepsBit(t, ull_nwaiters - 1)]
         ELSE Goto(t, "wait") /\ UNCHANGED next
    /\ UNCHANGED <<dul_lock, expected, crashed, missed>>

\* ulock_wake(): no ull, or a late wake, does nothing.  Otherwise a thread
\* that sleeps, if there is one, is woken and becomes the known owner.
IsLate(t) == ull_nwaiters = 0 \/ ull_owner # t

WakeLate(t) ==
    /\ pc[t] = "wake" /\ IsLate(t)
    /\ Goto(t, "idle")
    /\ UNCHANGED <<dul_lock, kernel, next, expected, crashed, missed>>

WakeOne(t) ==
    /\ pc[t] = "wake" /\ ~IsLate(t)
    /\ IF At(pc, {"asleep"}) = {}
         THEN ull_owner' = NULL /\ Goto(t, "idle")
         ELSE \E u \in At(pc, {"asleep"}) :
                /\ ull_owner' = u
                /\ pc' = [pc EXCEPT ![t] = "idle", ![u] = "woken"]
    /\ UNCHANGED <<dul_lock, ull_nwaiters, next, expected, crashed, missed>>

-----------------------------------------------------------------------------
\* The steps that a thread takes inside a call.
Step(t) == LockSlow(t) \/ WaitStale(t) \/ WaitSleep(t) \/ Cleanup(t) \/ WakeLate(t) \/ WakeOne(t)

Next ==
    /\ ~crashed
    /\ \E t \in Threads :
         \/ Step(t) \/ WaitFault(t) \/ Abort(t)
         \/ Lock(t) \/ TryLock(t) \/ LockRecursively(t)
         \/ Unlock(t) \/ TryUnlock(t)

Spec == Init /\ [][Next]_vars

\* Threads inside a call are scheduled, and a thread that holds the lock
\* unlocks it.
FairSpec == Spec /\ \A t \in Threads : WF_vars(~crashed /\ (Step(t) \/ Unlock(t)))

-----------------------------------------------------------------------------
(* Properties *)

\* The types of the word, of the ull and of the locals.
TypeOK ==
    /\ dul_lock \in Words
    /\ ull_nwaiters \in Nat /\ ull_owner \in Threads \cup {NULL}
    /\ pc \in [Threads -> Points]
    /\ next \in [Threads -> {0, 1}]
    /\ expected \in [Threads -> Words]
    /\ crashed \in BOOLEAN /\ missed \in BOOLEAN

\* At most one thread is between a lock and its unlock, and the word names it:
\* the bits that waiters and failed trylocks add never hand the lock on.
MutualExclusion ==
    \A t \in Threads : pc[t] = "held" <=> dul_lock.owner = t

\* No thread sleeps with nobody to wake it: the waiters bit is set, or a wake
\* that the kernel will not take for late is on its way, or a thread that was
\* woken will take the lock with the bit set or set the bit on the owner's
\* behalf (ENOTEMPTY in _dispatch_unfair_lock_lock_slow()).
NoLostWaiter ==
    At(pc, {"asleep"}) # {} =>
        \/ dul_lock.waiters = 1
        \/ \E t \in Threads :
             \/ pc[t] = "wake" /\ ull_owner = t
             \/ pc[t] = "woken"
             \/ pc[t] \in {"slow", "wait"} /\ next[t] = 1

\* The thread that holds the lock learns of every trylock that failed during
\* its time, when it unlocks or because tryunlock refuses: no failure is lost
\* when bits are set by several threads.
FailuresReported == missed => dul_lock.failed = 1

\* The unlock never finds the lock owned by another thread; the only crash is
\* that of a thread which locks recursively.
CrashesOnlyRecursive == crashed => \E t \in Threads : pc[t] = "held" /\ dul_lock.owner = t

\* A thread that blocks gets the lock, unless the others lock it over and over
\* again (the lock is not fair): no wake is lost between the word and the kernel.
Blocked(t) == pc[t] \in {"slow", "wait"} \cup InKernel

LockersServed ==
    \A t \in Threads :
        []<>(~Blocked(t) \/ crashed) \/ []<><<\E u \in Threads \ {t} : Lock(u) \/ TryLock(u)>>_vars
==============================================================================
