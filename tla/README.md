# A TLA+ verification of libdispatch's synchronization primitives

The repository is a collection of iOS components and of the system sources they
rest on. Its concurrent core is **libdispatch**
(`src/libdispatch/libdispatch-1271.120.2`), and that is what this project
specifies, model-checks and proves properties of. Where libdispatch depends on
a kernel call whose source is in the repository (in `src/xnu/xnu-7195.141.2`:
`bsd/kern/sys_ulock.c`, `osfmk/kern/sync_sema.c`, `osfmk/kern/cpu_quiesce.c`),
what the call relies on is modelled from that source too.

## 1. Inventory

| part | state | operations | hard behaviour |
|---|---|---|---|
| semaphore (`semaphore.c`) | counter, lazily created kernel semaphore | create, wait, signal, dispose | timeout against signal, two threads creating the port, dispose against a late signal |
| group (`semaphore.c`, `semaphore_internal.h`) | one 64 bit word (generation, value, two flags), notification list, reference counts | enter, leave, wait, notify, wake, dispose | re-entering while flags are being cleared, notify against leave, list links that are not written yet |
| once (`once.c`, gate in `shims/lock.[ch]`) | one word | `dispatch_once_f`, callout, broadcast, wait | waiters bit against broadcast, recursion, late stores of done |
| unfair lock (`shims/lock.[ch]`) and kernel ulock | one word; waiters and owner in the kernel | lock, trylock, unlock, tryunlock; ulock_wait, ulock_wake | lost waiters bit, late wakes, failed trylocks |
| thread event (`shims/lock.[ch]`) | one counter | signal, wait, destroy | signal before, during or after the wait |
| apply (`apply.c`) | shared record, width of the target queues | serial, wide and redirected loops | helpers that come late or never, last one frees, giving width back |
| eventlink (`eventlink.c`) | port pair, cancelled bit | activate, signal, wait, cancel | racy checks before each call |
| queues, lanes (`queue.c`) | `dq_state`, item list, side suspend count | async, sync, barrier, drain, suspend, resume | drain lock hand-off, wakeups |
| objects (`object.c`), sources and timers (`source.c`, `event/event.c`), workgroups | counts, state machines, heap | retain/release, cancel, merge, fire | counts that resurrect, cancel against fire |

`PROJECT.json` lists every part of the repository, the ones that are not
modelled with the reason, and the hazards at the line where they bite. The other
directories (objc4, dyld, libc, libmalloc, GNUstep, STL, AFNetworking,
SDWebImage, MJRefresh, YYModel, the test application, notes and headers) are
reference copies, UIKit code or notes.

## 2. Modules

| module | models | proofs |
|---|---|---|
| `ThreadCount` | how many threads are at a set of program points | `ThreadCount_proofs` |
| `AbstractSemaphore` | what a counting semaphore promises | |
| `DispatchSemaphore` | `dispatch_semaphore_t` on the Mach semaphore shim | `Semaphore_proofs` |
| `GroupState` | the arithmetic of the word `dg_state` | |
| `DispatchGroup` | `dispatch_group_t` with list and reference counts | |
| `DispatchOnce` | `dispatch_once` and its gate | `Once_proofs` |
| `UnfairLock` | `dispatch_unfair_lock_t` over the kernel's ulock | |
| `ThreadEvent` | `dispatch_thread_event_t` | |
| `DispatchApply` | `dispatch_apply_f` | |
| `MCSemaphore`, `MCGroup`, `MCOnce`, `MCUnfair`, `MCApply` | instances for TLC | |

**Conventions.** One atomic instruction or one kernel call is one action. A
read-modify-write loop is one action, at the compare-and-swap that succeeds or
the load that makes it give up. `pc[t]` names the next step of thread `t`;
variables and operators keep the source's names. A client crash of the code
(`DISPATCH_CLIENT_CRASH`) is a value of `status` or `crashed`, after which
nothing happens. Variables marked "history" record what properties need; no step of
the library depends on them. Guards read a few of them, to keep the client and
the environment legal: a leave has a matching enter (`owed`), a continuation is
registered once (`registered`), other work does not give back the width of this
call (`reserved`), and the bounds (`emptied`). Memory is sequentially consistent. Definitions whose
names end in `Mutant` are plausible bugs of the definition that follows them;
no specification uses them. They show that each property can fail.

**Semaphore.** `dsema_value` counts down on wait and up on signal; a wait that
makes it negative sleeps on a kernel semaphore created on first use, and the
signal that finds it negative posts in a second step. As in `sync_sema.c`, a post
goes to a thread that sleeps on the port, or is kept when there is none; which
sleeper it goes to is left open. The undo loop after a
timeout either takes the decrement back or finds that a signal has been promised
and waits for it.

**Group.** The word is the code's word with smaller fields: `enter` borrows on
the low half only, `leave` carries into the generation. `Leave` is the addition;
if it emptied the group and flags are set, `LeaveCas` clears them, and
`_dispatch_group_wake()` is a sequence of steps (capture head, capture tail,
submit one by one, wake by address, release). Reference counts are taken in
steps of their own, as in the code.

**Once.** The gate is unlocked, locked with or without waiters, a generation of
the quiescent counter, or done. The generation is read in one step
(`CalloutReturns`) and put into the gate in a later one (`Broadcast`); likewise
`MarkDone` compares generations and `StoreDone` stores. An initializer may call
`dispatch_once` again: the call takes the ordinary way through the failing
compare-and-swap into `WaitLoop`, whose owner check (`LockedBySelf`) is what
crashes it. The kernel compares the word before a thread sleeps (`Sleeps`); its
own record of the owner is not kept here: a wake it would drop as late is only
one that comes after a second owner, and this gate has just one.

**Unfair lock.** The user-space word and the kernel's `ull` (`ull_nwaiters`,
`ull_owner`) are separate state. Page faults and aborted waits are actions.

**Apply.** The caller and the workers that hold a continuation draw indices from
`da_index`, account for them in `da_todo` and leave through `da_thr_cnt`. A
worker may come for its continuation at any time. On a chain of queues the
caller reserves width queue by queue, at most what `AvailableWidth` says is
left. `OtherEnters` and `OtherLeaves` are the queues' other users. Readers of
`dispatch_sync` do not observe the limit, and a pending barrier takes all of the
width but one unit on top of what runs, so a queue may be used beyond its width,
at the start and at any time later; `MaxExcess` bounds how far.
The nested value `da_nested` that a callout passes on is not kept; how deep the
call is nested is an input.

## 3. Model-checking runs

| run | instance | checks |
|---|---|---|
| `semaphore_safety` | 4 threads, initial value 1, `LONG_MAX` 4 | types, `OnePort`, `Ledger`, `NoPhantomToken`, `NoUseAfterDispose`, `CrashesJustified` |
| `semaphore_refines` | 3 threads, initial value 0 | `ImplementsAbstract`, `WaitersServed` |
| `group_safety` | 3 threads, 2 notifications, 2 emptyings, value and generation of 2 bits | types, `WordCounts`, `FlagsHandled`, `OneConsumer`, `SubmittedOnce`, `RefLedger`, `FreedAtRest`, `NoLostWaiter`, `NotifyAfterEmpty` |
| `group_live` | 3 threads, 1 notification | `WaitersReturn`, `NotifsSubmitted` |
| `group_reuse` | as `group_safety` | `NotifyOnceCompleted`, **violated** |
| `once_safety` | 4 threads, quiescent counter up to 6 | types, `RunsOnce`, `ReturnsAfterInit`, `NoLostSleeper`, `CrashesOnlyInCallout`, `GateMovesForward` |
| `once_live` | 3 threads, no quiescent counter | `CallsReturn` |
| `unfair_safety` | 4 threads | types, `MutualExclusion`, `NoLostWaiter`, `FailuresReported`, `CrashesOnlyRecursive` |
| `unfair_live` | 3 threads | `LockersServed` |
| `apply_safety` | caller and 2 workers, up to 3 iterations, chain of 2 queues of width 3 that others overflow by up to 2 | types, `EachIndexOnce`, `FreedByLast`, `StackAlive`, `EventClean`, `WidthBalanced` |
| `apply_live` | caller and 2 workers, up to 3 iterations, 1 queue | `CallerReturns` |

**Bounds.** The races above involve two threads and sometimes a third that
overtakes both; every safety run has at least three threads. `LONG_MAX` and the
group's counter are small enough to overflow within the run, so the crash paths
are reached. `MaxGen` (how often a group is emptied) is 2, so that a waiter of
one generation meets the flags of the next; `MaxGen < GENS` keeps the generation
from wrapping, so a waiter that sleeps through 2^32 emptyings is not examined.
`MaxGeneration` of 6 exceeds `SAFE_DELTA` of 4, so gates do become done. Three
iterations for three threads let every thread run none, one or several. With
`Width` 3 and `MaxExcess` 2 the two units that the caller wants may be there,
half there, just gone or long exceeded, on either queue and independently.
`CHECK_DEADLOCK` is off because these systems may rest: all threads idle, a
thread asleep that nobody is obliged to wake, or a client crash.

**Symmetry** permutes threads (and notifications) and is used in safety runs
only.

**Fairness** is weak fairness of the steps that a thread takes inside a library
call: the operating system schedules runnable threads. Nobody is obliged to call
an operation, a deadline need not pass and a signal need not interrupt. Three
additions: an initializer of `dispatch_once` that does not call itself returns; the
holder of an unfair lock unlocks it; the client's function in `dispatch_apply`
returns. In `DispatchApply` a worker is *not* obliged to come for its
continuation, because a busy pool may not have one to spare.

**Finding.** `group_reuse` shows a disagreement between `dispatch/group.h` ("The
group will be empty at the time the notification block is submitted to the
target queue", lines 180-181) and `_dispatch_group_wake()`. A thread notifies an
empty group and captures the head of the list; before it captures the tail, a
second thread enters the group, returns, and registers a second notification;
the snapshot includes it and submits it while the enter is outstanding. What the
code does ensure is `NotifyAfterEmpty`: a notification registered while nobody
is handling an earlier emptying is submitted only after the group was empty.

## 4. Proofs

The proofs hold for every finite set of threads and every value of the other
constants that the modules' named assumptions allow.

* `Semaphore_proofs`, from `ThreadsAssumption`, `OrigAssumption` and
  `WidthAssumption` (fewer threads than the counter can count down):
  `LedgerHolds` (types, `OnePort`, `Ledger`), `TokensSafe` (`NoPhantomToken`,
  `NoUseAfterDispose`, `CrashesJustified`) and `Refinement`
  (`ImplementsAbstract`). The inductive invariant `IInv` joins these with
  `ValueIsBalance` and `UnusedPorts`. `Ledger` is the heart: every waiter below
  zero is owed nothing, every other one is owed exactly one wakeup, which is a
  signal under way, a post in the kernel or a delivered wakeup. Without
  `UnusedPorts` the thread that installs a port could find old posts in it; without
  `ValueIsBalance` neither the phantom-token bound nor the crash conditions follow.
  Each action moves one thread between sets of program points; `CountMove` in
  `ThreadCount_proofs` says what that does to the counts.
* `Once_proofs`, from `OnceAssumption`: `OnceSafe` (types, `RunsOnce`,
  `ReturnsAfterInit`, `NoLostSleeper`, `CrashesOnlyInCallout`) and `OnceForward`
  (`GateMovesForward`). The strengthening `GateKnown` says what each program
  point knows of the gate: a thread in the callout owns it, a waiter has never
  seen it unlocked, a sleeper went to sleep on another thread's lock with the
  waiters bit set, and the word a broadcast is about to leave is a generation or
  done. That a gate still locked after the initializer has returned has its owner
  at the broadcast is what makes the crash of `WaitLoop` a recursion, never a
  late waiter.

Only model-checked: all liveness (fairness is out of the prover's reach), and so
far everything about groups, unfair locks and apply.

## 5. Not modelled

Weak memory: why `DISPATCH_ONCE_GEN_SAFE_DELTA` is 4 and why the barriers are
where they are. The futex, POSIX and Windows variants of the shims. Priorities,
QoS, turnstiles, vouchers, tracing, debug descriptions, memory allocation.
Wrap-around of `da_index` and of the group's generation.

## 6. Plan

1. **Eventlink**: two threads activating, cancelling, extracting and waiting;
   port references balance, `os_assert` after `KERN_INVALID_NAME` never fails.
2. **MPSC list** as a module of its own (push, pop_head, undo, capture) that
   implements an abstract FIFO queue.
3. **Queues**: suspend and resume with the side count; then async, drain lock
   and wakeup on `dq_state`, composed with the MPSC list; sync and barrier
   hand-off through thread events.
4. **Objects** (external and internal counts), **sources** (cancel against
   merge and fire), **timer heap** as operators checked against a sorted list.
5. **Once over ulock** (the owner check of a broadcast wake) and a store-buffer
   model of the quiescent counter.
6. **Proofs**: `MutualExclusion` and `NoLostWaiter` of the unfair lock;
   `WordCounts`, `FlagsHandled`, `OneConsumer` and `RefLedger` of the group;
   `EachIndexOnce` and `FreedByLast` of apply; the FIFO refinement.
