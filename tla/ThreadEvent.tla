----------------------------- MODULE ThreadEvent -----------------------------
(***************************************************************************)
(* dispatch_thread_event_t (shims/lock.h, shims/lock.c): one thread waits, *)
(* one thread signals, once each and in either order.                      *)
(***************************************************************************)
EXTENDS Integers

CONSTANT UINT32_MAX   \* largest value of the 32 bit counter

ASSUME EventAssumption == UINT32_MAX \in Nat /\ UINT32_MAX >= 2

VARIABLES dte_value,
          waiter,      \* where the waiting thread is
          signaller    \* where the signalling thread is

eventVars == <<dte_value, waiter, signaller>>

WaiterPoints == {"before", "load", "sleep", "asleep", "after", "corrupt"}
SignallerPoints == {"before", "wake", "after"}

EventType ==
    /\ dte_value \in 0 .. UINT32_MAX
    /\ waiter \in WaiterPoints /\ signaller \in SignallerPoints

\* _dispatch_thread_event_init()
EventInit == dte_value = 0 /\ waiter = "before" /\ signaller = "before"

\* _dispatch_thread_event_signal(): the transition from 0 to 1 needs no wake.
NeedsNoWake(orig) == orig = 0

EventSignal ==
    /\ dte_value' = (dte_value + 1) % (UINT32_MAX + 1)
    /\ signaller' = IF NeedsNoWake(dte_value) THEN "after" ELSE "wake"
    /\ UNCHANGED waiter

\* _dispatch_thread_event_signal_slow()
EventWake ==
    /\ signaller = "wake"
    /\ signaller' = "after"
    /\ waiter' = IF waiter = "asleep" THEN "load" ELSE waiter
    /\ UNCHANGED dte_value

\* _dispatch_thread_event_wait(): only the transition from 1 to 0 may return.
MayReturnMutant(new) == new # 1
MayReturn(new) == new = 0

EventWait ==
    /\ waiter = "before"
    /\ dte_value' = (dte_value - 1) % (UINT32_MAX + 1)
    /\ waiter' = IF MayReturn(dte_value') THEN "after" ELSE "load"
    /\ UNCHANGED signaller

\* The loop of _dispatch_thread_event_wait_slow() ...
EventLoad ==
    /\ waiter = "load"
    /\ waiter' = CASE dte_value = 0 -> "after"
                   [] dte_value = UINT32_MAX -> "sleep"
                   [] OTHER -> "corrupt"
    /\ UNCHANGED <<dte_value, signaller>>

\* ... in which the kernel compares the value again before the thread sleeps ...
StillUnsignalledMutant == TRUE
StillUnsignalled == dte_value = UINT32_MAX

EventSleep ==
    /\ waiter = "sleep"
    /\ waiter' = IF StillUnsignalled THEN "asleep" ELSE "load"
    /\ UNCHANGED <<dte_value, signaller>>

\* ... and may end the sleep early.
EventInterrupt ==
    /\ waiter = "asleep"
    /\ waiter' \in {"load", "sleep"}
    /\ UNCHANGED <<dte_value, signaller>>
==============================================================================
