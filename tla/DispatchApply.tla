---------------------------- MODULE DispatchApply ----------------------------
(***************************************************************************)
(* One call of dispatch_apply_f() (apply.c): the caller and the worker     *)
(* threads that pick up the continuations it pushes share the indices of   *)
(* the loop, the caller waits for the last of them on a thread event, and  *)
(* the last thread to leave frees the shared record.  On a queue that is   *)
(* not a root queue the caller first reserves width on every queue of the  *)
(* target chain.                                                           *)
(***************************************************************************)
EXTENDS ThreadEvent, FiniteSets, FiniteSetsExt

CONSTANTS caller, Workers,
          MaxIterations,    \* bound on the iterations of the call
          MaxNesting,       \* bound on the nesting it is called with
          Parallelism,      \* _dispatch_qos_max_parallelism()
          Depth,            \* length of the target chain above the root queue
          Width,            \* dq_width of its queues
          MaxExcess         \* bound on how far other work overflows a queue

ASSUME ApplyAssumption ==
    /\ caller \notin Workers /\ IsFiniteSet(Workers)
    /\ MaxIterations \in Nat /\ MaxNesting \in Nat /\ Parallelism \in Nat \ {0}
    /\ Cardinality(Workers) >= Parallelism - 1
    /\ Depth \in Nat \ {0} /\ Width \in Nat \ {0, 1} /\ MaxExcess \in Nat

Threads == Workers \cup {caller}
Queues == 1 .. Depth

VARIABLES
    da_iterations, da_index, da_todo, da_thr_cnt,
    freed,        \* has the record been freed?
    level,        \* the queue on which the caller reserves width next
    da_width,     \* the width it has reserved on the queues before
    used,         \* the width of each queue that is in use, by whomever: more
                  \* than Width when the queue has overflown its capacity
    pc,
    idx, done,    \* locals of _dispatch_apply_invoke2()
    \* history
    reserved,     \* the part of used that belongs to this call
    ran           \* how often the client's function ran for each index

da == <<da_iterations, da_index, da_todo, da_thr_cnt, freed>>
widths == <<level, da_width, used, reserved>>
vars == <<da, widths, pc, idx, done, ran, eventVars>>

Points == {"none", "pushed", "call", "serial", "reserve", "push",
           "take", "work", "finish", "wake", "wait", "drop", "relinquish", "returned"}

Indices == 0 .. MaxIterations - 1

Init ==
    /\ da_iterations = 0 /\ da_index = 0 /\ da_todo = 0 /\ da_thr_cnt = 0
    /\ freed = FALSE
    /\ level = 1 /\ da_width = 0
    /\ used \in [Queues -> 0 .. Width + MaxExcess]
    /\ pc = [t \in Threads |-> IF t = caller THEN "call" ELSE "none"]
    /\ idx = [t \in Threads |-> 0]
    /\ done = [t \in Threads |-> 0]
    /\ reserved = [q \in Queues |-> 0]
    /\ ran = [i \in Indices |-> 0]
    /\ EventInit

Goto(t, p) == pc' = [pc EXCEPT ![t] = p]

-----------------------------------------------------------------------------
(* dispatch_apply_f() *)

\* The number of threads for so many iterations, called from that many nested ones.
thr_cnt(iterations, nested) ==
    LET alone == IF nested = 0 THEN Parallelism
                 ELSE IF nested < Parallelism THEN Parallelism \div nested ELSE 1
    IN  Min({iterations, alone})

CallNothing ==
    /\ pc[caller] = "call"
    /\ Goto(caller, "returned")
    /\ UNCHANGED <<da, widths, idx, done, ran, eventVars>>

\* Serial for a queue of width 1, for one thread, from the queue itself and for
\* a workloop; wide on a root queue; redirected on any other.
Call ==
    /\ pc[caller] = "call"
    /\ \E iterations \in 1 .. MaxIterations, nested \in 0 .. MaxNesting,
          path \in {"serial", "push", "reserve"} :
         /\ da_iterations' = iterations
         /\ da_todo' = iterations
         /\ da_thr_cnt' = thr_cnt(iterations, nested)
         /\ da_width' = thr_cnt(iterations, nested) - 1
         /\ Goto(caller, IF thr_cnt(iterations, nested) <= 1 THEN "serial" ELSE path)
    /\ UNCHANGED <<da_index, freed, level, used, reserved, idx, done, ran, eventVars>>

\* _dispatch_apply_serial(): one round of its loop.
Serial ==
    /\ pc[caller] = "serial"
    /\ ran' = [ran EXCEPT ![idx[caller]] = @ + 1]
    /\ idx' = [idx EXCEPT ![caller] = @ + 1]
    /\ IF idx[caller] + 1 < da_iterations
         THEN UNCHANGED <<freed, pc>>
         ELSE freed' = TRUE /\ Goto(caller, "returned")
    /\ UNCHANGED <<da_iterations, da_index, da_todo, da_thr_cnt, widths, done, eventVars>>

-----------------------------------------------------------------------------
(* _dispatch_apply_redirect() *)

\* _dispatch_queue_relinquish_width(): give back n on each of the queues in Q.
GiveBack(f, Q, n) == [q \in Queues |-> IF q \in Q THEN f[q] - n ELSE f[q]]

\* The queues on which the caller has reserved what turns out to be in excess.
ExcessOnMutant == {}
ExcessOn == 1 .. level - 1

\* _dq_state_available_width(): nothing is left of a queue that is full or
\* overflown.
AvailableWidthMutant(q) == Width - used[q]
AvailableWidth(q) == IF used[q] < Width THEN Width - used[q] ELSE 0

\* _dispatch_queue_try_reserve_apply_width() on the next queue of the chain; a
\* queue that has less to offer reduces the number of threads everywhere.  A
\* queue of width 1 offers nothing, as a full one does.  What is in excess is
\* given back on all the queues at once: the code's subtractions commute with
\* everything the other threads do to the words.
Reserve ==
    LET width  == Min({AvailableWidth(level), da_width})
        excess == da_width - width
        Give(f) == [GiveBack(f, ExcessOn, excess) EXCEPT ![level] = @ + width]
    IN  /\ pc[caller] = "reserve"
        /\ used' = Give(used)
        /\ reserved' = Give(reserved)
        /\ da_width' = width
        /\ da_thr_cnt' = IF width = 0 THEN da_thr_cnt ELSE da_thr_cnt - excess
        /\ level' = level + 1
        /\ Goto(caller, IF width = 0 THEN "serial" ELSE IF level = Depth THEN "push" ELSE "reserve")
        /\ UNCHANGED <<da_iterations, da_index, da_todo, freed, idx, done, ran, eventVars>>

\* After the loop, on the whole chain; a root queue has no chain.
Relinquish ==
    /\ pc[caller] = "relinquish"
    /\ LET Q == IF level = 1 THEN {} ELSE Queues
       IN  used' = GiveBack(used, Q, da_width) /\ reserved' = GiveBack(reserved, Q, da_width)
    /\ Goto(caller, "returned")
    /\ UNCHANGED <<da, level, da_width, idx, done, ran, eventVars>>

\* Other work enters a queue: a dispatch_sync() reader, which does not observe
\* the limit, an asynchronous item, which does and so adds no case of its own,
\* or a barrier that waits for its turn with all of the width but one unit.
OtherEnters ==
    /\ \E q \in Queues, n \in {1, Width - 1} :
         /\ used[q] + n <= Width + MaxExcess
         /\ used' = [used EXCEPT ![q] = @ + n]
    /\ UNCHANGED <<da, level, da_width, reserved, pc, idx, done, ran, eventVars>>

\* It leaves the queue and gives back what it has taken itself; a barrier that
\* gives back several units at once does no more than several items do.
OtherLeaves ==
    /\ \E q \in Queues :
         /\ used[q] > reserved[q]
         /\ used' = [used EXCEPT ![q] = @ - 1]
    /\ UNCHANGED <<da, level, da_width, reserved, pc, idx, done, ran, eventVars>>

-----------------------------------------------------------------------------
(* _dispatch_apply_f() and _dispatch_apply_invoke2() *)

\* The caller pushes a continuation for every other thread and goes to work.
Push ==
    /\ pc[caller] = "push"
    /\ \E W \in kSubset(da_thr_cnt - 1, Workers) :
         pc' = [t \in Threads |-> IF t = caller THEN "take"
                                  ELSE IF t \in W THEN "pushed" ELSE pc[t]]
    /\ UNCHANGED <<da, widths, idx, done, ran, eventVars>>

\* A worker thread comes for a continuation.
Start(t) ==
    /\ pc[t] = "pushed"
    /\ Goto(t, "take")
    /\ UNCHANGED <<da, widths, idx, done, ran, eventVars>>

\* Is there an iteration left for the thread that drew the index i?
IsMine(i) == i < da_iterations

\* A thread that ran nothing goes straight to "out:".
AfterLast(t) == IF done[t] > 0 THEN "finish" ELSE IF t = caller THEN "wait" ELSE "drop"

Take(t) ==
    /\ pc[t] = "take"
    /\ da_index' = da_index + 1
    /\ idx' = [idx EXCEPT ![t] = da_index]
    /\ Goto(t, IF IsMine(da_index) THEN "work" ELSE AfterLast(t))
    /\ UNCHANGED <<da_iterations, da_todo, da_thr_cnt, freed, widths, done, ran, eventVars>>

\* The client's function, found through da_dc on the caller's stack.
Work(t) ==
    /\ pc[t] = "work"
    /\ ran' = [ran EXCEPT ![idx[t]] = @ + 1]
    /\ done' = [done EXCEPT ![t] = @ + 1]
    /\ Goto(t, "take")
    /\ UNCHANGED <<da, widths, idx, eventVars>>

\* Account for the iterations, and signal the event after the last of all.
AllDoneMutant(todo) == todo <= 1
AllDone(todo) == todo = 0

Finish(t) ==
    /\ pc[t] = "finish"
    /\ da_todo' = da_todo - done[t]
    /\ IF AllDone(da_todo')
         THEN EventSignal /\ Goto(t, IF signaller' = "wake" THEN "wake"
                                     ELSE IF t = caller THEN "wait" ELSE "drop")
         ELSE Goto(t, IF t = caller THEN "wait" ELSE "drop") /\ UNCHANGED eventVars
    /\ UNCHANGED <<da_iterations, da_index, da_thr_cnt, freed, widths, idx, done, ran>>

Wake(t) ==
    /\ pc[t] = "wake"
    /\ EventWake
    /\ Goto(t, IF t = caller THEN "wait" ELSE "drop")
    /\ UNCHANGED <<da, widths, idx, done, ran>>

\* The caller waits, then destroys the event.
Await ==
    /\ pc[caller] = "wait"
    /\ \/ EventWait /\ UNCHANGED pc
       \/ EventLoad /\ UNCHANGED pc
       \/ EventSleep /\ UNCHANGED pc
       \/ waiter = "after" /\ Goto(caller, "drop") /\ UNCHANGED eventVars
    /\ UNCHANGED <<da, widths, idx, done, ran>>

Interrupt ==
    /\ pc[caller] = "wait" /\ EventInterrupt
    /\ UNCHANGED <<da, widths, pc, idx, done, ran>>

\* The last thread frees the record.
IsLastMutant(count) == count <= 2
IsLast(count) == count = 1

Drop(t) ==
    /\ pc[t] = "drop"
    /\ da_thr_cnt' = da_thr_cnt - 1
    /\ freed' = (freed \/ IsLast(da_thr_cnt))
    /\ Goto(t, IF t = caller THEN "relinquish" ELSE "returned")
    /\ UNCHANGED <<da_iterations, da_index, da_todo, widths, idx, done, ran, eventVars>>

-----------------------------------------------------------------------------
Invoke(t) == Take(t) \/ Work(t) \/ Finish(t) \/ Wake(t) \/ Drop(t)

CallerStep == CallNothing \/ Call \/ Serial \/ Reserve \/ Push \/ Await \/ Relinquish

Next ==
    \/ CallerStep \/ Interrupt \/ OtherEnters \/ OtherLeaves
    \/ \E t \in Threads : Start(t) \/ Invoke(t)

Spec == Init /\ [][Next]_vars

\* The caller and the workers that have started are scheduled; a worker that
\* has not come for its continuation may never come.
FairSpec == Spec /\ WF_vars(CallerStep) /\ \A t \in Threads : WF_vars(Invoke(t))

-----------------------------------------------------------------------------
(* Properties *)

\* The types of the record, the widths and the locals.  In particular an
\* overflown queue never makes da_width or a thread count negative.
TypeOK ==
    /\ da_iterations \in 0 .. MaxIterations
    /\ da_index \in Nat /\ da_todo \in 0 .. MaxIterations /\ da_thr_cnt \in Nat
    /\ freed \in BOOLEAN
    /\ level \in 1 .. Depth + 1 /\ da_width \in Nat
    /\ used \in [Queues -> 0 .. Width + MaxExcess] /\ reserved \in [Queues -> 0 .. Width]
    /\ pc \in [Threads -> Points]
    /\ idx \in [Threads -> Nat] /\ done \in [Threads -> 0 .. MaxIterations]
    /\ ran \in [Indices -> Nat]
    /\ EventType

\* Every index runs exactly once before dispatch_apply_f() returns, whichever
\* threads come to help and whenever they do (the shared da_index).
EachIndexOnce ==
    /\ \A i \in Indices : ran[i] <= 1
    /\ pc[caller] = "returned" => \A i \in Indices : ran[i] = 1 <=> i < da_iterations

\* The record is freed once, by the last thread: nobody who still uses it, or
\* has a continuation that points to it, is left, and nobody forgets to free it.
FreedByLast ==
    LET users == {t \in Threads : pc[t] \notin {"none", "call", "relinquish", "returned"}}
    IN  /\ freed => users = {}
        /\ pc[caller] \in {"relinquish", "returned"} /\ users = {} => freed \/ da_iterations = 0

\* da_dc lives on the caller's stack, and the client's function runs from it
\* only before the caller returns: a thread that comes late finds no index.
StackAlive ==
    (\E t \in Threads : pc[t] = "work") => pc[caller] \notin {"drop", "relinquish", "returned"}

\* The event is signalled once and ends as it began, so that
\* _dispatch_thread_event_destroy() finds 0 and the waiter never sees a corrupt
\* value, whether the signal comes before, during or after the wait.
EventClean ==
    /\ waiter # "corrupt"
    /\ waiter = "after" => dte_value = 0 /\ signaller # "before"

\* The width that _dispatch_apply_redirect() takes on the queues of the chain is
\* given back to the last unit: while it goes down the chain it holds the same
\* width on every queue it has passed, also when a queue further down has less
\* to offer or is overflown, and when it turns serial or returns it holds none.
WidthBalanced ==
    /\ \A q \in Queues : reserved[q] <= used[q]
    /\ pc[caller] \in {"serial", "returned"} => \A q \in Queues : reserved[q] = 0
    /\ pc[caller] = "reserve" =>
         \A q \in Queues : reserved[q] = IF q < level THEN da_width ELSE 0

\* The caller returns even when no worker ever comes for a continuation.
CallerReturns == <>(pc[caller] = "returned")
==============================================================================
