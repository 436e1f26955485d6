--------------------------- MODULE DispatchGroup ---------------------------
(***************************************************************************)
(* dispatch_group_t (semaphore.c): enter, leave, wait and notify on one    *)
(* state word, the lock-free list of notifications (os_mpsc_*,             *)
(* inline_internal.h) and the reference counts that keep the group alive.  *)
(*                                                                         *)
(* An atomic instruction is one action.  A read-modify-write loop is one   *)
(* action, at the compare-and-swap that succeeds or the load that makes    *)
(* the loop give up.                                                       *)
(***************************************************************************)
EXTENDS GroupState, ThreadCount

CONSTANTS Threads,   \* threads of the process
          Notifs,    \* continuations for dispatch_group_notify(), one per call
          NULL,
          MaxGen     \* bound: the group is emptied at most MaxGen times

ASSUME GroupAssumption ==
    /\ IsFiniteSet(Threads) /\ NULL \notin Notifs
    /\ MaxGen \in Nat /\ MaxGen < GENS

VARIABLES
    dg_state,
    notify_head, notify_tail,  \* dg_notify_head and dg_notify_tail
    do_next,                   \* the link of each continuation
    ref,                       \* references to the group, internal ones included
    xref,                      \* does the client hold its reference?
    qref,                      \* references the notifications hold on their queues
    status,                    \* "live", "freed", or the client crash
    pc,
    dc,                        \* the continuation a thread is working on
    prev,                      \* what the exchange of the tail returned to it
    snap,                      \* the tail of the list it captured
    wake,                      \* the flags in the dg_state argument of _dispatch_group_wake()
    owns,                      \* its needs_release argument
    mygen,                     \* the generation a waiting thread saw
    timed,                     \* does its wait have a deadline?
    \* history variables
    entered,                   \* calls of enter minus calls of leave
    owed,                      \* enters that have returned and still need a leave
    emptied,                   \* how often a leave has emptied the group
    registered,                \* notifications pushed on the list so far
    emptySince,                \* notifications such that every enter that returned before
                               \* they were registered has been left since
    racing,                    \* notifications registered while an emptying was being handled
    submits                    \* how often each notification was submitted

shared == <<dg_state, notify_head, notify_tail, do_next, ref, xref, qref, status>>
locals == <<dc, prev, snap, wake, owns, mygen, timed>>
history == <<entered, owed, emptied, registered, emptySince, racing, submits>>
vars == <<shared, pc, locals, history>>

EnterPoints  == {"enter_retain"}
WaitPoints   == {"wait", "asleep", "woken", "timed_out"}
NotifyPoints == {"notify_retain", "notify_prev", "notify_state"}
WakePoints   == {"wake_head", "wake_tail", "wake_submit", "wake_addr", "wake_release"}
Points == {"idle", "leave_cas"} \cup EnterPoints \cup WaitPoints \cup NotifyPoints \cup WakePoints

Submitted  == {n \in Notifs : submits[n] > 0}

\* Threads between the addition that emptied the group, or the notify that
\* found it empty, and the capture of the list.
Firing == At(pc, {"leave_cas", "wake_head", "wake_tail"})

\* dispatch_group_create(), or _dispatch_group_create_and_enter(), which
\* starts with one enter and the reference that goes with it.
Init ==
    /\ \E n \in {0, 1} :
         /\ dg_state = IF n = 0 THEN 0 ELSE SubInterval(0)
         /\ ref = 1 + n
         /\ entered = n
         /\ owed = n
    /\ notify_head = NULL
    /\ notify_tail = NULL
    /\ do_next = [n \in Notifs |-> NULL]
    /\ xref = TRUE
    /\ qref = 0
    /\ status = "live"
    /\ pc = [t \in Threads |-> "idle"]
    /\ dc = [t \in Threads |-> NULL]
    /\ prev = [t \in Threads |-> NULL]
    /\ snap = [t \in Threads |-> NULL]
    /\ wake = [t \in Threads |-> 0]
    /\ owns = [t \in Threads |-> FALSE]
    /\ mygen = [t \in Threads |-> 0]
    /\ timed = [t \in Threads |-> FALSE]
    /\ emptied = 0
    /\ registered = {}
    /\ emptySince = {}
    /\ racing = {}
    /\ submits = [n \in Notifs |-> 0]

Goto(t, p) == pc' = [pc EXCEPT ![t] = p]

-----------------------------------------------------------------------------
(* Reference counts *)

\* What _dispatch_group_dispose() makes of the last reference.
Disposed == IF dg_bits(dg_state) # 0 THEN "deallocated_in_use" ELSE "freed"

Drop(n) ==
    /\ ref' = ref - n
    /\ status' = IF ref = n THEN Disposed ELSE status

\* A thread in enter, wait or notify uses the client's reference.
Release ==
    /\ xref
    /\ At(pc, EnterPoints \cup WaitPoints \cup NotifyPoints) = {}
    /\ xref' = FALSE
    /\ Drop(1)
    /\ UNCHANGED <<dg_state, notify_head, notify_tail, do_next, qref, pc, locals, history>>

-----------------------------------------------------------------------------
(* dispatch_group_enter() *)

\* Was the group empty before the subtraction, which saw the word s?
EntersEmptyMutant(s) == ValueField(s) = VALUE_1
EntersEmpty(s) == ValueField(s) = 0

Enter(t) ==
    /\ pc[t] = "idle" /\ xref
    /\ EntersEmpty(dg_state) => emptied < MaxGen
    /\ dg_state' = SubInterval(dg_state)
    /\ entered' = entered + 1
    /\ status' = IF ValueField(dg_state) = VALUE_MAX THEN "too_many_enters" ELSE status
    /\ IF EntersEmpty(dg_state)
         THEN Goto(t, "enter_retain") /\ owed' = owed
         ELSE pc' = pc /\ owed' = owed + 1
    /\ UNCHANGED <<notify_head, notify_tail, do_next, ref, xref, qref, locals,
                   emptied, registered, emptySince, racing, submits>>

EnterRetain(t) ==
    /\ pc[t] = "enter_retain"
    /\ ref' = ref + 1
    /\ owed' = owed + 1
    /\ Goto(t, "idle")
    /\ UNCHANGED <<dg_state, notify_head, notify_tail, do_next, xref, qref, status, locals,
                   entered, emptied, registered, emptySince, racing, submits>>

-----------------------------------------------------------------------------
(* _dispatch_group_wake() *)

AfterNotifs(s) == IF HasWaiters(s) THEN "wake_addr" ELSE "wake_release"

\* The call, on the word s.
Wake(t, s, needs_release) ==
    /\ Goto(t, IF HasNotifs(s) THEN "wake_head" ELSE AfterNotifs(s))
    /\ wake' = [wake EXCEPT ![t] = s % INTERVAL]
    /\ owns' = [owns EXCEPT ![t] = needs_release]

\* os_mpsc_capture_snapshot(): take the head, once there is one ...
CaptureHead(t) ==
    /\ pc[t] = "wake_head" /\ notify_head # NULL
    /\ dc' = [dc EXCEPT ![t] = notify_head]
    /\ notify_head' = NULL
    /\ Goto(t, "wake_tail")
    /\ UNCHANGED <<dg_state, notify_tail, do_next, ref, xref, qref, status,
                   prev, snap, wake, owns, mygen, timed, history>>

\* ... and then the tail.
CaptureTail(t) ==
    /\ pc[t] = "wake_tail"
    /\ snap' = [snap EXCEPT ![t] = notify_tail]
    /\ notify_tail' = NULL
    /\ Goto(t, "wake_submit")
    /\ UNCHANGED <<dg_state, notify_head, do_next, ref, xref, qref, status,
                   dc, prev, wake, owns, mygen, timed, history>>

\* os_mpsc_pop_snapshot_head(): the last continuation of the snapshot has no
\* successor to wait for.
IsLastMutant(t) == do_next[dc[t]] = NULL
IsLast(t) == dc[t] = snap[t]

\* One round of the loop: find the successor of dc, submit dc to its queue and
\* release the queue.  From then on dc belongs to the queue.
Submit(t) ==
    /\ pc[t] = "wake_submit"
    /\ IsLast(t) \/ do_next[dc[t]] # NULL
    /\ submits' = [submits EXCEPT ![dc[t]] = @ + 1]
    /\ qref' = qref - 1
    /\ IF IsLast(t)
         THEN /\ Goto(t, AfterNotifs(wake[t]))
              /\ dc' = [dc EXCEPT ![t] = NULL]
              /\ snap' = [snap EXCEPT ![t] = NULL]
         ELSE /\ dc' = [dc EXCEPT ![t] = do_next[dc[t]]]
              /\ UNCHANGED <<pc, snap>>
    /\ UNCHANGED <<dg_state, notify_head, notify_tail, do_next, ref, xref, status,
                   prev, wake, owns, mygen, timed,
                   entered, owed, emptied, registered, emptySince, racing>>

\* _dispatch_wake_by_address(&dg->dg_gen)
WakeByAddress(t) ==
    /\ pc[t] = "wake_addr"
    /\ pc' = [u \in Threads |-> IF u = t THEN "wake_release"
                                ELSE IF pc[u] = "asleep" THEN "woken" ELSE pc[u]]
    /\ UNCHANGED <<shared, locals, history>>

\* The references that the thread gives back: the one of the enter that its
\* leave undid, and the one of the list that it captured.
RefsMutant(t) == Bit(owns[t])
Refs(t) == Bit(owns[t]) + Bit(HasNotifs(wake[t]))

WakeRelease(t) ==
    /\ pc[t] = "wake_release"
    /\ Drop(Refs(t))
    /\ Goto(t, "idle")
    /\ wake' = [wake EXCEPT ![t] = 0]
    /\ owns' = [owns EXCEPT ![t] = FALSE]
    /\ UNCHANGED <<dg_state, notify_head, notify_tail, do_next, xref, qref,
                   dc, prev, snap, mygen, timed, history>>

-----------------------------------------------------------------------------
(* dispatch_group_leave() *)

\* Does the loop have a flag to clear in the word s that the addition made?
MustClearMutant(s) == HasNotifs(s)
MustClear(s) == HasWaiters(s) \/ HasNotifs(s)

\* The addition.  The leave that empties the group, and finds a flag set, goes
\* on to clear it; without flags the loop ends on the word that the addition saw.
Leave(t) ==
    LET s == AddInterval(dg_state)
        empties == ValueField(dg_state) = VALUE_1
    IN  /\ pc[t] = "idle" /\ owed > 0
        /\ dg_state' = s
        /\ entered' = entered - 1
        /\ owed' = owed - 1
        /\ IF ~empties
             THEN UNCHANGED <<pc, wake, owns, emptied, emptySince>>
             ELSE /\ emptied' = emptied + 1
                  /\ emptySince' = registered
                  /\ IF MustClear(s)
                       THEN Goto(t, "leave_cas") /\ UNCHANGED <<wake, owns>>
                       ELSE Wake(t, s, TRUE)
        /\ UNCHANGED <<notify_head, notify_tail, do_next, ref, xref, qref, status,
                       dc, prev, snap, mygen, timed, registered, racing, submits>>

\* A leave without an enter, which the code detects when the group is empty.
LeaveUnbalanced(t) ==
    /\ pc[t] = "idle" /\ xref /\ entered = 0
    /\ dg_state' = AddInterval(dg_state)
    /\ entered' = entered - 1
    /\ status' = "unbalanced_leave"
    /\ UNCHANGED <<notify_head, notify_tail, do_next, ref, xref, qref, pc, locals,
                   owed, emptied, registered, emptySince, racing, submits>>

\* The flags that the loop clears: both while the group is still empty, only
\* HAS_NOTIFS when it was entered again.
KeepsNotifsMutant(s) == IF ValueField(s) = 0 THEN ClearNotifs(ClearWaiters(s)) ELSE s
ClearedMutant(s) == ClearNotifs(ClearWaiters(s))
Cleared(s) == IF ValueField(s) = 0 THEN ClearNotifs(ClearWaiters(s)) ELSE ClearNotifs(s)

LeaveCas(t) ==
    /\ pc[t] = "leave_cas"
    /\ dg_state' = Cleared(dg_state)
    /\ Wake(t, dg_state, TRUE)
    /\ UNCHANGED <<notify_head, notify_tail, do_next, ref, xref, qref, status,
                   dc, prev, snap, mygen, timed, history>>

-----------------------------------------------------------------------------
(* dispatch_group_notify() *)

\* Retain the queue and exchange the tail of the list.
Notify(t, n) ==
    /\ pc[t] = "idle" /\ xref /\ n \notin registered
    /\ qref' = qref + 1
    /\ do_next' = [do_next EXCEPT ![n] = NULL]
    /\ prev' = [prev EXCEPT ![t] = notify_tail]
    /\ notify_tail' = n
    /\ dc' = [dc EXCEPT ![t] = n]
    /\ Goto(t, IF notify_tail = NULL THEN "notify_retain" ELSE "notify_prev")
    /\ registered' = registered \cup {n}
    /\ emptySince' = IF owed = 0 THEN emptySince \cup {n} ELSE emptySince
    /\ racing' = IF Firing # {} THEN racing \cup {n} ELSE racing
    /\ UNCHANGED <<dg_state, notify_head, ref, xref, status,
                   snap, wake, owns, mygen, timed, entered, owed, emptied, submits>>

NotifyRetain(t) ==
    /\ pc[t] = "notify_retain"
    /\ ref' = ref + 1
    /\ Goto(t, "notify_prev")
    /\ UNCHANGED <<dg_state, notify_head, notify_tail, do_next, xref, qref, status, locals, history>>

\* os_mpsc_push_update_prev(): link the continuation to its predecessor, or
\* make it the head; only the thread that found the list empty goes on.
NotifyPrev(t) ==
    /\ pc[t] = "notify_prev"
    /\ IF prev[t] # NULL
         THEN /\ do_next' = [do_next EXCEPT ![prev[t]] = dc[t]]
              /\ UNCHANGED notify_head
         ELSE /\ notify_head' = dc[t]
              /\ UNCHANGED do_next
    /\ Goto(t, IF prev[t] # NULL THEN "idle" ELSE "notify_state")
    /\ dc' = [dc EXCEPT ![t] = NULL]
    /\ prev' = [prev EXCEPT ![t] = NULL]
    /\ UNCHANGED <<dg_state, notify_tail, ref, xref, qref, status,
                   snap, wake, owns, mygen, timed, history>>

\* The group is empty, and no leave is about to look at its flags.
NothingToWaitForMutant(s) == s % INTERVAL = 0
NeverEmptyMutant(s) == HasNotifs(s)
NothingToWaitFor(s) == dg_bits(s) = 0

NotifyState(t) ==
    /\ pc[t] = "notify_state"
    /\ IF NothingToWaitFor(dg_state)
         THEN Wake(t, SetNotifs(dg_state), FALSE) /\ UNCHANGED dg_state
         ELSE dg_state' = SetNotifs(dg_state) /\ Goto(t, "idle") /\ UNCHANGED <<wake, owns>>
    /\ UNCHANGED <<notify_head, notify_tail, do_next, ref, xref, qref, status,
                   dc, prev, snap, mygen, timed, history>>

-----------------------------------------------------------------------------
(* dispatch_group_wait() *)

\* The generation to wait for, and whether there is a deadline.  A wait on an
\* empty group returns 0 at once, and a wait that may not block times out:
\* neither changes any state.
Wait(t) ==
    /\ pc[t] = "idle" /\ xref
    /\ ValueField(dg_state) # 0
    /\ dg_state' = SetWaiters(dg_state)
    /\ mygen' = [mygen EXCEPT ![t] = dg_gen(dg_state)]
    /\ \E deadline \in BOOLEAN : timed' = [timed EXCEPT ![t] = deadline]
    /\ Goto(t, "wait")
    /\ UNCHANGED <<notify_head, notify_tail, do_next, ref, xref, qref, status,
                   dc, prev, snap, wake, owns, history>>

\* _dispatch_wait_on_address(): the kernel compares and sleeps in one step ...
Sleep(t) ==
    /\ pc[t] = "wait"
    /\ Goto(t, IF dg_gen(dg_state) = mygen[t] THEN "asleep" ELSE "woken")
    /\ UNCHANGED <<shared, locals, history>>

\* ... and may return early, because of a signal ...
Interrupt(t) ==
    /\ pc[t] = "asleep"
    /\ Goto(t, "woken")
    /\ UNCHANGED <<shared, locals, history>>

\* ... or of the deadline, which may have passed before the thread sleeps.
Timeout(t) ==
    /\ pc[t] \in {"wait", "asleep"} /\ timed[t]
    /\ Goto(t, "timed_out")
    /\ UNCHANGED <<shared, locals, history>>

\* Does the thread at "woken" or "timed_out" leave the loop?
Returns(t) == dg_gen(dg_state) # mygen[t] \/ pc[t] = "timed_out"

Recheck(t) ==
    /\ pc[t] \in {"woken", "timed_out"}
    /\ IF Returns(t)
         THEN /\ Goto(t, "idle")
              /\ mygen' = [mygen EXCEPT ![t] = 0]
              /\ timed' = [timed EXCEPT ![t] = FALSE]
         ELSE /\ Goto(t, "wait")
              /\ UNCHANGED <<mygen, timed>>
    /\ UNCHANGED <<shared, dc, prev, snap, wake, owns, history>>

-----------------------------------------------------------------------------
Call(t) == Enter(t) \/ Leave(t) \/ LeaveUnbalanced(t) \/ (\E n \in Notifs : Notify(t, n)) \/ Wait(t)

\* The steps that a thread takes inside a call, without anyone's help.
Step(t) ==
    \/ EnterRetain(t) \/ LeaveCas(t)
    \/ CaptureHead(t) \/ CaptureTail(t) \/ Submit(t) \/ WakeByAddress(t) \/ WakeRelease(t)
    \/ NotifyRetain(t) \/ NotifyPrev(t) \/ NotifyState(t)
    \/ Sleep(t) \/ Recheck(t)

Next ==
    /\ status = "live"
    /\ \/ Release
       \/ \E t \in Threads : Call(t) \/ Step(t) \/ Interrupt(t) \/ Timeout(t)

Spec == Init /\ [][Next]_vars

\* Every thread that is inside a call and not asleep is scheduled.
FairSpec == Spec /\ \A t \in Threads : WF_vars(status = "live" /\ Step(t))

-----------------------------------------------------------------------------
(* Properties *)

Crashes == {"too_many_enters", "unbalanced_leave", "deallocated_in_use"}

\* The types of the state word, the list, the counts and the locals.
TypeOK ==
    /\ dg_state \in 0 .. WORD - 1
    /\ notify_head \in Notifs \cup {NULL}
    /\ notify_tail \in Notifs \cup {NULL}
    /\ do_next \in [Notifs -> Notifs \cup {NULL}]
    /\ ref \in Nat /\ xref \in BOOLEAN /\ qref \in Nat
    /\ status \in {"live", "freed"} \cup Crashes
    /\ pc \in [Threads -> Points]
    /\ dc \in [Threads -> Notifs \cup {NULL}]
    /\ prev \in [Threads -> Notifs \cup {NULL}]
    /\ snap \in [Threads -> Notifs \cup {NULL}]
    /\ wake \in [Threads -> 0 .. INTERVAL - 1]
    /\ owns \in [Threads -> BOOLEAN]
    /\ mygen \in [Threads -> 0 .. GENS - 1]
    /\ timed \in [Threads -> BOOLEAN]
    /\ entered \in Int /\ owed \in Nat /\ emptied \in 0 .. MaxGen
    /\ registered \subseteq Notifs /\ emptySince \subseteq registered /\ racing \subseteq registered
    /\ submits \in [Notifs -> Nat]

\* The 32 bit subtraction of dispatch_group_enter() and the 64 bit addition of
\* dispatch_group_leave() keep two counters in one word: the calls that are
\* outstanding, and the times the group became empty.
WordCounts ==
    status \in {"live", "freed"} =>
        /\ Value(dg_state) = entered
        /\ dg_gen(dg_state) = emptied

\* The flags of an empty group are never left behind: a leave that saw the
\* group become empty is still going to clear them (the loop in
\* dispatch_group_leave()).  This is what lets dispatch_group_notify() set
\* HAS_NOTIFS on a group that is empty but for HAS_WAITERS and return.
FlagsHandled ==
    status = "live" /\ entered = 0 /\ dg_bits(dg_state) # 0 => At(pc, {"leave_cas"}) # {}

\* The notifier that found the list empty and still has to publish HAS_NOTIFS.
Publishing == {t \in At(pc, NotifyPoints) : prev[t] = NULL}

\* HAS_NOTIFS is a lock on the list: while the list is not empty, exactly one
\* of the flag, a notifier about to set it, and a thread about to capture the
\* list is there to have the notifications submitted; with an empty list none is.
OneConsumer ==
    Bit(notify_tail # NULL)
        = Bit(HasNotifs(dg_state)) + Cardinality(Publishing) + Count(pc, {"wake_head", "wake_tail"})

\* A notification is submitted at most once, and no notifier is about to write
\* the link of a continuation that already belongs to its target queue
\* (os_mpsc_push_update_prev() against _dispatch_group_wake()).
SubmittedOnce ==
    /\ \A n \in Notifs : submits[n] <= 1
    /\ \A t \in At(pc, {"notify_prev"}) : prev[t] \notin Submitted

\* Each reference to the group has a reason, rdar://22318411: the client, a
\* group that is not empty, a list that is not empty, or a thread on its way
\* to give a reference back; two windows owe one.
RefLedger ==
    status \in {"live", "freed"} =>
        ref = Bit(xref)
              + Bit(entered # 0) - Count(pc, {"enter_retain"})
              + Count(pc, {"leave_cas"}) + Cardinality({t \in Threads : owns[t]})
              + Bit(notify_tail # NULL) - Count(pc, {"notify_retain"})
              + Cardinality({t \in At(pc, {"wake_submit", "wake_addr", "wake_release"}) : HasNotifs(wake[t])})

\* The group is freed only when it is empty, every notification has been
\* submitted and its queue released, and no thread is left that would touch it;
\* a balanced client never meets the crash of _dispatch_group_dispose().
FreedAtRest ==
    /\ status # "deallocated_in_use"
    /\ status = "freed" =>
         /\ entered = 0 /\ owed = 0 /\ qref = 0
         /\ At(pc, Points \ {"idle"}) = {}
         /\ registered = Submitted

\* A thread asleep in dispatch_group_wait() is either announced by HAS_WAITERS,
\* which a later leave will see, or some thread is on its way to wake it.
NoLostWaiter ==
    At(pc, {"asleep"}) # {} =>
        \/ HasWaiters(dg_state)
        \/ \E u \in At(pc, WakePoints \ {"wake_release"}) : HasWaiters(wake[u])

\* What dispatch_group_notify() does ensure: unless the notification was
\* registered while a thread was still dealing with an earlier emptying of the
\* group, it is submitted only after the group has been empty since.
NotifyAfterEmpty == Submitted \subseteq emptySince \cup racing

\* What dispatch/group.h says of dispatch_group_notify(): the block is submitted
\* once all blocks associated with the group have completed.
NotifyOnceCompleted == Submitted \subseteq emptySince

\* A waiter whose generation is over returns from dispatch_group_wait(), also
\* when the group has been entered again.
WaitersReturn ==
    \A t \in Threads :
        pc[t] \in WaitPoints /\ mygen[t] # dg_gen(dg_state) ~> pc[t] = "idle" \/ status # "live"

\* A notification on a group that is empty is submitted, unless the group is
\* entered again.
NotifsSubmitted ==
    \A n \in Notifs :
        n \in registered /\ entered = 0 ~> n \in Submitted \/ entered # 0 \/ status # "live"
==============================================================================
