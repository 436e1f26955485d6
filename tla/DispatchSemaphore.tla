-------------------------- MODULE DispatchSemaphore --------------------------
(***************************************************************************)
(* dispatch_semaphore_t (semaphore.c) on the Mach build of _dispatch_sema4 *)
(* (shims/lock.c, shims/lock.h).  The user-space counter dsema_value is    *)
(* decremented by wait and incremented by signal; a wait that makes it     *)
(* negative sleeps on a lazily created kernel semaphore, and the signal    *)
(* that finds it negative posts that kernel semaphore in a second step.    *)
(*                                                                         *)
(* An atomic instruction or a kernel call of the code is one action here.  *)
(* The compare-and-swap loop of wait_slow is one action: it takes effect   *)
(* at the compare-and-swap that succeeds, or at the load that finds a      *)
(* value that is not negative.                                             *)
(***************************************************************************)
EXTENDS ThreadCount

CONSTANTS Threads,    \* threads of the process
          Orig,       \* the argument of dispatch_semaphore_create()
          LONG_MAX,   \* largest dsema_value; the smallest is -LONG_MAX - 1
          NULL        \* MACH_PORT_NULL, and "no timeout argument"

ASSUME ThreadsAssumption == IsFiniteSet(Threads) /\ NULL \notin Threads
ASSUME OrigAssumption == Orig \in Nat /\ LONG_MAX \in Nat /\ Orig <= LONG_MAX
\* There are fewer threads than dsema_value can count downwards.
ASSUME WidthAssumption == Cardinality(Threads) <= LONG_MAX

LONG_MIN == -LONG_MAX - 1

\* A kernel semaphore is named after the thread that created it.
DEAD == "MACH_PORT_DEAD"
Timeouts == {"NOW", "TIMED", "FOREVER"}

VARIABLES dsema_value,
          dsema_sema,   \* the kernel semaphore, NULL until it is needed
          kcount,       \* count of each kernel semaphore
          pc,           \* where each thread is
          timeout,      \* the timeout a waiting thread was given
          port,         \* the kernel semaphore a thread sleeps on
          status,       \* the object and the process
          balance       \* history: Orig + signals - waits that returned 0

vars == <<dsema_value, dsema_sema, kcount, pc, timeout, port, status, balance>>

WaitPoints == {"wait_create", "wait_create_slow", "sema_wait", "blocked",
               "woken", "undo"}
SignalPoints == {"signal_create", "signal_create_slow", "post"}
Points == {"idle"} \cup WaitPoints \cup SignalPoints

\* Threads inside dispatch_semaphore_wait(), threads that owe a post, and
\* how many there are of them and of threads the kernel has just woken.
Waiting == At(pc, WaitPoints)
Posting == At(pc, SignalPoints)
NumWaiting == Count(pc, WaitPoints)
NumPosting == Count(pc, SignalPoints)
NumWoken   == Count(pc, {"woken"})

\* Waiters that no signal has been promised to.
Short == IF dsema_value < 0 THEN -dsema_value ELSE 0

\* Posts already made on the semaphore's port that no wait has consumed.
Posted == IF dsema_sema \in Threads THEN kcount[dsema_sema] ELSE 0

\* dispatch_semaphore_create(Orig)
Init ==
    /\ dsema_value = Orig
    /\ dsema_sema = NULL
    /\ kcount = [p \in Threads |-> 0]
    /\ pc = [t \in Threads |-> "idle"]
    /\ timeout = [t \in Threads |-> NULL]
    /\ port = [t \in Threads |-> NULL]
    /\ status = "live"
    /\ balance = Orig

Goto(t, p) == pc' = [pc EXCEPT ![t] = p]

\* dispatch_semaphore_wait() returns r ("ok" or "timeout") to thread t.
ReturnFromWait(t, r) ==
    /\ Goto(t, "idle")
    /\ timeout' = [timeout EXCEPT ![t] = NULL]
    /\ port' = [port EXCEPT ![t] = NULL]
    /\ balance' = balance - Bit(r = "ok")

-----------------------------------------------------------------------------
\* dispatch_semaphore_wait(): did the decrement to v take a free token?
TookTokenMutant(v) == v >= -1
TookToken(v) == v >= 0

Wait(t, to) ==
    /\ status = "live"
    /\ pc[t] = "idle"
    /\ dsema_value' = dsema_value - 1
    /\ \/ /\ TookToken(dsema_value - 1)
          /\ ReturnFromWait(t, "ok")
       \/ /\ ~TookToken(dsema_value - 1)
          /\ Goto(t, "wait_create")
          /\ timeout' = [timeout EXCEPT ![t] = to]
          /\ UNCHANGED <<port, balance>>
    /\ UNCHANGED <<dsema_sema, kcount, status>>

\* Where wait_slow goes once the kernel semaphore exists.
SlowCase(t) == IF timeout[t] = "NOW" THEN "undo" ELSE "sema_wait"

\* _dispatch_sema4_create(): is there a port already?  An early test, the
\* thread may be overtaken before it acts on the answer.
Create(t) ==
    /\ status = "live"
    /\ \/ /\ pc[t] = "wait_create"
          /\ Goto(t, IF dsema_sema # NULL THEN SlowCase(t) ELSE "wait_create_slow")
       \/ /\ pc[t] = "signal_create"
          /\ Goto(t, IF dsema_sema # NULL THEN "post" ELSE "signal_create_slow")
    /\ UNCHANGED <<dsema_value, dsema_sema, kcount, timeout, port, status, balance>>

\* The compare-and-swap that installs a new port p only if there is none.
InstallMutant(p) == p
Install(p) == IF dsema_sema = NULL THEN p ELSE dsema_sema

\* _dispatch_sema4_create_slow(): create a port and install it, or destroy
\* it again if another thread was faster.  Until the compare-and-swap the
\* port is private to the thread.
CreateSlow(t) ==
    /\ status = "live"
    /\ \/ pc[t] = "wait_create_slow" /\ Goto(t, SlowCase(t))
       \/ pc[t] = "signal_create_slow" /\ Goto(t, "post")
    /\ dsema_sema' = Install(t)
    /\ UNCHANGED <<dsema_value, kcount, timeout, port, status, balance>>

\* semaphore_wait() and semaphore_timedwait() in the kernel: take a post
\* that is there, or go to sleep on the port.
SemaWait(t) ==
    /\ status = "live"
    /\ pc[t] = "sema_wait"
    /\ \/ /\ kcount[dsema_sema] > 0
          /\ kcount' = [kcount EXCEPT ![dsema_sema] = @ - 1]
          /\ ReturnFromWait(t, "ok")
       \/ /\ kcount[dsema_sema] = 0
          /\ Goto(t, "blocked")
          /\ port' = [port EXCEPT ![t] = dsema_sema]
          /\ UNCHANGED <<kcount, timeout, balance>>
    /\ UNCHANGED <<dsema_value, dsema_sema, status>>

\* A thread the kernel has woken returns 0 from the wait.
Resume(t) ==
    /\ status = "live"
    /\ pc[t] = "woken"
    /\ ReturnFromWait(t, "ok")
    /\ UNCHANGED <<dsema_value, dsema_sema, kcount, status>>

\* The kernel aborts the sleep (KERN_ABORTED); the code calls it again.
Aborted(t) ==
    /\ status = "live"
    /\ pc[t] = "blocked"
    /\ Goto(t, "sema_wait")
    /\ port' = [port EXCEPT ![t] = NULL]
    /\ UNCHANGED <<dsema_value, dsema_sema, kcount, timeout, status, balance>>

\* semaphore_timedwait() reports KERN_OPERATION_TIMED_OUT.
TimedOut(t) ==
    /\ status = "live"
    /\ pc[t] = "blocked"
    /\ timeout[t] = "TIMED"
    /\ Goto(t, "undo")
    /\ port' = [port EXCEPT ![t] = NULL]
    /\ UNCHANGED <<dsema_value, dsema_sema, kcount, timeout, status, balance>>

\* The condition of the loop that undoes the decrement: while dsema_value is
\* negative no signal has been promised to the thread that timed out.
NotPromisedMutant(v) == TRUE
NotPromised(v) == v < 0

\* That loop.  The wait times out, or a signal is on its way and the thread
\* falls through to _dispatch_sema4_wait() to drain the wakeup.
Undo(t) ==
    /\ status = "live"
    /\ pc[t] = "undo"
    /\ \/ /\ NotPromised(dsema_value)
          /\ dsema_value' = dsema_value + 1
          /\ ReturnFromWait(t, "timeout")
       \/ /\ ~NotPromised(dsema_value)
          /\ Goto(t, "sema_wait")
          /\ timeout' = [timeout EXCEPT ![t] = "FOREVER"]
          /\ UNCHANGED <<dsema_value, port, balance>>
    /\ UNCHANGED <<dsema_sema, kcount, status>>

-----------------------------------------------------------------------------
\* os_atomic_inc on an intptr_t wraps around.
Increment(v) == IF v = LONG_MAX THEN LONG_MIN ELSE v + 1

\* dispatch_semaphore_signal(): is there a thread to wake when the increment
\* gives v?
MustPostMutant(v) == v < 0
MustPost(v) == v <= 0

\* dispatch_semaphore_signal().  A client crash ends the process.
Signal(t) ==
    /\ status = "live"
    /\ pc[t] = "idle"
    /\ dsema_value' = Increment(dsema_value)
    /\ balance' = balance + 1
    /\ \/ ~MustPost(dsema_value') /\ UNCHANGED <<pc, status>>
       \/ dsema_value' = LONG_MIN /\ status' = "overflow" /\ UNCHANGED pc
       \/ /\ MustPost(dsema_value') /\ dsema_value' # LONG_MIN
          /\ Goto(t, "signal_create")
          /\ UNCHANGED status
    /\ UNCHANGED <<dsema_sema, kcount, timeout, port>>

\* The threads asleep on the semaphore's port.
Sleeping == {w \in Threads : pc[w] = "blocked" /\ port[w] = dsema_sema}

\* semaphore_signal() in the kernel, the last thing signal_slow does: hand
\* the post to a thread that sleeps on the port, or keep it in the count.
\* The order in which the kernel wakes the threads is left open.
Post(t) ==
    /\ status = "live"
    /\ pc[t] = "post"
    /\ \/ \E w \in Sleeping :
            /\ pc' = [pc EXCEPT ![t] = "idle", ![w] = "woken"]
            /\ UNCHANGED kcount
       \/ /\ Sleeping = {}
          /\ Goto(t, "idle")
          /\ kcount' = [kcount EXCEPT ![dsema_sema] = @ + 1]
    /\ UNCHANGED <<dsema_value, dsema_sema, timeout, port, status, balance>>

-----------------------------------------------------------------------------
\* _dispatch_semaphore_dispose() and its test that the semaphore is in use.
\* The last reference is dropped by a thread that knows that every wait has
\* returned.  It knows nothing of the signalling threads: the signal that
\* ended the last wait may still be inside the library.
InUseMutant == dsema_value <= Orig
InUse == dsema_value < Orig

Dispose ==
    /\ status = "live"
    /\ Waiting = {}
    /\ \/ InUse /\ status' = "deallocated_in_use" /\ UNCHANGED dsema_sema
       \/ /\ ~InUse
          /\ status' = "disposed"
          /\ dsema_sema' = IF dsema_sema # NULL THEN DEAD ELSE NULL
    /\ UNCHANGED <<dsema_value, kcount, pc, timeout, port, balance>>

\* Steps of a thread that is inside the library and can move by itself.
Step(t) == Create(t) \/ CreateSlow(t) \/ SemaWait(t) \/ Resume(t) \/ Undo(t) \/ Post(t)

Next ==
    \/ \E t \in Threads : \E to \in Timeouts : Wait(t, to)
    \/ \E t \in Threads :
         Signal(t) \/ Step(t) \/ Aborted(t) \/ TimedOut(t)
    \/ Dispose

Spec == Init /\ [][Next]_vars

\* Threads inside the library keep running.  Nobody is obliged to call wait,
\* signal or release, to abort a sleep or to let a timeout expire.
Fairness == \A t \in Threads : WF_vars(Step(t))

FairSpec == Spec /\ Fairness

-----------------------------------------------------------------------------
(* Properties *)

\* Every variable keeps the type the code gives it: dsema_value, which wait()
\* decrements with no test, never falls below LONG_MIN.
TypeOK ==
    /\ dsema_value \in LONG_MIN .. LONG_MAX
    /\ dsema_sema \in Threads \cup {NULL, DEAD}
    /\ kcount \in [Threads -> Nat]
    /\ pc \in [Threads -> Points]
    /\ timeout \in [Threads -> Timeouts \cup {NULL}]
    /\ port \in [Threads -> Threads \cup {NULL}]
    /\ status \in {"live", "overflow", "deallocated_in_use", "disposed"}
    /\ balance \in Int

\* The lazily created kernel semaphore (shims/lock.c, _dispatch_sema4_create_
\* slow) is one and the same for all: a thread that waits on it or posts it
\* finds a live port, and every sleeper sleeps on that port.
OnePort ==
    status = "live" =>
        /\ dsema_sema \in Threads \cup {NULL}
        /\ \A t \in Threads :
             /\ pc[t] \in {"sema_wait", "blocked", "undo", "post"} => dsema_sema \in Threads
             /\ pc[t] = "blocked" => port[t] = dsema_sema

\* A kernel semaphore that is not the one in use holds no post.
UnusedPorts == status = "live" => \A p \in Threads : p # dsema_sema => kcount[p] = 0

\* The ledger of semaphore.c.  Of the threads inside dispatch_semaphore_wait
\* some are owed nothing, and dsema_value counts them below zero; every other
\* one is owed exactly one wakeup, which is a signal that has incremented
\* dsema_value and not posted yet, a post the kernel keeps, or a wakeup
\* already delivered.  No wakeup is lost and none is delivered twice, also
\* when a timeout races a signal.
Ledger ==
    status = "live" => NumWaiting = Short + NumPosting + Posted + NumWoken

\* dsema_value is what has been put in and not taken out, less one for each
\* wait in progress.
ValueIsBalance ==
    status # "overflow" => dsema_value = balance - NumWaiting

\* dispatch_semaphore_wait() never returns 0 without a token: waits that
\* returned 0 never outnumber Orig plus the signals.
NoPhantomToken == balance >= 0

\* A thread that has seen all waits return may release the semaphore at once:
\* no signal is then between its increment and its post, so signal_slow never
\* touches a semaphore that is disposed of.
NoUseAfterDispose == status = "disposed" => Waiting \cup Posting = {}

\* The client crashes tell the truth: "Unbalanced call to dispatch_semaphore_
\* signal()" only when more than LONG_MAX tokens are unclaimed, "deallocated
\* while in use" only when more waits than signals have succeeded.
CrashesJustified ==
    /\ status = "overflow" => balance > LONG_MAX
    /\ status = "deallocated_in_use" => balance < Orig

\* The semaphore implements the abstract one, which has a single stock of
\* tokens: no barging past waiters that are owed a token, and a timeout only
\* when tokens are short.
Abs == INSTANCE AbstractSemaphore WITH tokens <- balance, waiters <- Waiting
ImplementsAbstract == Abs!ASpec

\* A thread in dispatch_semaphore_wait() is not forgotten: as long as the
\* value is not negative there is a wakeup for every waiter, so each of them
\* returns unless a new wait takes the value below zero or the object ends.
WaitersServed ==
    \A t \in Threads :
        (t \in Waiting /\ dsema_value >= 0)
            ~> (t \notin Waiting \/ dsema_value < 0 \/ status # "live")
==============================================================================
